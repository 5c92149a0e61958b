---------------------------- MODULE ServiceProofs ----------------------------
(***************************************************************************)
(* Seven parts of the daemon and its clients that share no state with each *)
(* other, for any number of clients, daemons, turns, writers, notes and    *)
(* events: a start-up interrupts the work of the dead, the workspace's     *)
(* summary forgets nothing that was worked into it, a role keeps its       *)
(* history, file tools touch nothing that their role's policy does not     *)
(* permit, clients follow a session without repeating or missing an event, *)
(* the calls of a response are run once and whole, and what is remembered  *)
(* reaches those it is meant for and nobody else.                          *)
(***************************************************************************)
EXTENDS Launch, ProjectState, RoleFiles, FileTools, EventStream, ModelStream, Knowledge,
        FiniteSetTheorems, SequenceTheorems, WellFoundedInduction, TLAPS

-----------------------------------------------------------------------------
\* Launch

LaunchTypes ==
  /\ daemon \in [Daemons -> {"none", "starting", "marking", "marked", "serving", "dead"}]
  /\ found \in [Daemons -> SUBSET Work]
  /\ workRow \in [Work -> {"none", "running", "interrupted", "ended"}]
  /\ atWork \in [Work -> Daemons \cup {"nobody"}]
  /\ sideBySide \in BOOLEAN

\* Whoever does a piece of work is serving: it lists nothing and marks nothing.
WorkersServe ==
  \A w \in Work : atWork[w] # "nobody" => atWork[w] \in Daemons /\ daemon[atWork[w]] = "serving"

Alone == \A d, e \in Daemons : Alive(d) /\ Alive(e) => d = e

\* The row of what is being done says so, ...
LiveRowsRun == \A w \in Work : atWork[w] # "nobody" => workRow[w] = "running"

\* ... a daemon that is marking still has all other such rows on its list, one that
\* has marked has left none, and the one that serves does them all.
Leavings ==
  \A d \in Daemons, w \in Work :
    workRow[w] = "running" =>
      /\ daemon[d] = "marking" => w \in found[d]
      /\ daemon[d] # "marked"
      /\ daemon[d] = "serving" => atWork[w] = d

LaunchInv ==
  /\ LaunchTypes
  /\ WorkersServe
  /\ ~ sideBySide => Alone /\ LiveRowsRun /\ Leavings

-----------------------------------------------------------------------------

\* Nobody is alive, and nothing was ever begun.
LEMMA LaunchInitially == LaunchInit => LaunchInv
  BY DEF LaunchInit, LaunchInv, LaunchTypes, WorkersServe, Alone, Alive, LiveRowsRun, Leavings

\* A daemon that is started beside no other one is alone.
LEMMA StartKeeps ==
  ASSUME LaunchInv, NEW d \in Daemons, StartDaemon(d), UNCHANGED <<found, workRow, atWork>>
  PROVE  LaunchInv'
  <1>1. LaunchTypes' /\ WorkersServe'
    BY DEF LaunchInv, LaunchTypes, WorkersServe, StartDaemon
  <1>2. ASSUME ~ sideBySide' PROVE Alone' /\ LiveRowsRun' /\ Leavings'
    BY <1>2 DEF LaunchInv, LaunchTypes, Alone, Alive, LiveRowsRun, Leavings, StartDaemon
  <1> QED
    BY <1>1, <1>2 DEF LaunchInv

\* What is listed is all that says that it is running.
LEMMA ListKeeps == ASSUME LaunchInv, NEW d \in Daemons, ListRunning(d) PROVE LaunchInv'
  <1>1. LaunchTypes' /\ WorkersServe'
    BY DEF LaunchInv, LaunchTypes, WorkersServe, ListRunning
  <1>2. ASSUME ~ sideBySide' PROVE Alone' /\ LiveRowsRun' /\ Leavings'
    BY <1>2 DEF LaunchInv, LaunchTypes, Alone, Alive, LiveRowsRun, Leavings, ListRunning
  <1> QED
    BY <1>1, <1>2 DEF LaunchInv

\* The daemon that marks is the only one alive, so nobody does what it marks.
LEMMA MarkKeeps == ASSUME LaunchInv, NEW d \in Daemons, MarkInterrupted(d) PROVE LaunchInv'
  <1>1. CASE found[d] = {} /\ daemon' = [daemon EXCEPT ![d] = "marked"] /\ UNCHANGED <<workRow, found>>
    <2>1. LaunchTypes' /\ WorkersServe'
      BY <1>1 DEF LaunchInv, LaunchTypes, WorkersServe, MarkInterrupted
    <2>2. ASSUME ~ sideBySide' PROVE Alone' /\ LiveRowsRun' /\ Leavings'
      BY <1>1, <2>2 DEF LaunchInv, LaunchTypes, Alone, Alive, LiveRowsRun, Leavings,
         MarkInterrupted
    <2> QED
      BY <2>1, <2>2 DEF LaunchInv
  <1>2. ASSUME NEW w \in found[d], workRow' = [workRow EXCEPT ![w] = "interrupted"],
               found' = [found EXCEPT ![d] = @ \ {w}], UNCHANGED daemon
        PROVE  LaunchInv'
    <2>1. LaunchTypes' /\ WorkersServe'
      BY <1>2 DEF LaunchInv, LaunchTypes, WorkersServe, MarkInterrupted
    <2>2. ASSUME ~ sideBySide' PROVE Alone' /\ LiveRowsRun' /\ Leavings'
      <3>1. \A v \in Work : atWork[v] = "nobody"
        BY <2>2 DEF LaunchInv, LaunchTypes, WorkersServe, Alone, Alive, MarkInterrupted
      <3> QED
        BY <1>2, <2>2, <3>1 DEF LaunchInv, LaunchTypes, Alone, Alive, LiveRowsRun, Leavings,
                                MarkInterrupted
    <2> QED
      BY <2>1, <2>2 DEF LaunchInv
  <1> QED
    BY <1>1, <1>2 DEF MarkInterrupted

\* A daemon that has marked everything finds nothing running when it serves.
LEMMA ListenKeeps == ASSUME LaunchInv, NEW d \in Daemons, Listen(d) PROVE LaunchInv'
  <1>1. LaunchTypes' /\ WorkersServe'
    BY DEF LaunchInv, LaunchTypes, WorkersServe, Listen
  <1>2. ASSUME ~ sideBySide' PROVE Alone' /\ LiveRowsRun' /\ Leavings'
    BY <1>2 DEF LaunchInv, LaunchTypes, Alone, Alive, LiveRowsRun, Leavings, Listen
  <1> QED
    BY <1>1, <1>2 DEF LaunchInv

\* A daemon that dies does nothing any more; what its rows say stays.
LEMMA DieKeeps == ASSUME LaunchInv, NEW d \in Daemons, Die(d) PROVE LaunchInv'
  <1>1. LaunchTypes' /\ WorkersServe'
    BY LaunchParameters DEF LaunchInv, LaunchTypes, WorkersServe, Die
  <1>2. ASSUME ~ sideBySide' PROVE Alone' /\ LiveRowsRun' /\ Leavings'
    BY <1>2 DEF LaunchInv, LaunchTypes, Alone, Alive, LiveRowsRun, Leavings, Die
  <1> QED
    BY <1>1, <1>2 DEF LaunchInv

\* Only a daemon that serves begins something, and while it does, nobody is marking.
LEMMA BeginKeeps ==
  ASSUME LaunchInv, NEW d \in Daemons, NEW w \in Work, BeginWork(d, w) PROVE LaunchInv'
  <1>1. LaunchTypes' /\ WorkersServe'
    BY LaunchParameters DEF LaunchInv, LaunchTypes, WorkersServe, BeginWork
  <1>2. ASSUME ~ sideBySide' PROVE Alone' /\ LiveRowsRun' /\ Leavings'
    BY <1>2 DEF LaunchInv, LaunchTypes, Alone, Alive, LiveRowsRun, Leavings, BeginWork
  <1> QED
    BY <1>1, <1>2 DEF LaunchInv

\* What has ended is neither done nor said to be running.
LEMMA EndKeeps == ASSUME LaunchInv, NEW w \in Work, EndWork(w) PROVE LaunchInv'
  <1>1. LaunchTypes' /\ WorkersServe'
    BY DEF LaunchInv, LaunchTypes, WorkersServe, EndWork
  <1>2. ASSUME ~ sideBySide' PROVE Alone' /\ LiveRowsRun' /\ Leavings'
    BY <1>2 DEF LaunchInv, LaunchTypes, Alone, Alive, LiveRowsRun, Leavings, EndWork
  <1> QED
    BY <1>1, <1>2 DEF LaunchInv

\* Clients that only look, and time that passes, change none of it.
LEMMA LookKeeps ==
  ASSUME LaunchInv, UNCHANGED <<daemon, found, workRow, atWork, sideBySide>> PROVE LaunchInv'
  BY DEF LaunchInv, LaunchTypes, WorkersServe, Alone, Alive, LiveRowsRun, Leavings

\* Every step keeps the invariant.
LEMMA LaunchStep == LaunchInv /\ [LaunchNext]_launchVars => LaunchInv'
  <1> SUFFICES ASSUME LaunchInv, [LaunchNext]_launchVars PROVE LaunchInv'
    OBVIOUS
  <1>1. ASSUME NEW l \in Launchers, LookForDaemon(l) \/ WaitForDaemon(l) PROVE LaunchInv'
    BY <1>1, LookKeeps DEF LookForDaemon, WaitForDaemon
  <1>2. ASSUME NEW l \in Launchers, StartItself(l) PROVE LaunchInv'
    BY <1>2, StartKeeps DEF StartItself
  <1>3. ASSUME NEW l \in Launchers, ComeBack(l) PROVE LaunchInv'
    BY <1>3, StartKeeps, LookKeeps DEF ComeBack
  <1>4. ASSUME NEW d \in Daemons, ListRunning(d) PROVE LaunchInv'
    BY <1>4, ListKeeps
  <1>5. ASSUME NEW d \in Daemons, MarkInterrupted(d) PROVE LaunchInv'
    BY <1>5, MarkKeeps
  <1>6. ASSUME NEW d \in Daemons, Listen(d) PROVE LaunchInv'
    BY <1>6, ListenKeeps
  <1>7. ASSUME NEW d \in Daemons, Die(d) PROVE LaunchInv'
    BY <1>7, DieKeeps
  <1>8. ASSUME NEW d \in Daemons, NEW w \in Work, BeginWork(d, w) PROVE LaunchInv'
    BY <1>8, BeginKeeps
  <1>9. ASSUME NEW w \in Work, EndWork(w) PROVE LaunchInv'
    BY <1>9, EndKeeps
  <1>10. CASE UNCHANGED launchVars
    BY <1>10, LookKeeps DEF launchVars
  <1> QED
    BY <1>1, <1>2, <1>3, <1>4, <1>5, <1>6, <1>7, <1>8, <1>9, <1>10 DEF LaunchNext

\* The invariant says what a start-up may interrupt.
LEMMA LaunchInvSuffices == LaunchInv => OnlyTheDeadAreInterrupted
  <1> SUFFICES ASSUME LaunchInv, ~ sideBySide, NEW w \in Work
               PROVE  /\ workRow[w] = "interrupted" => atWork[w] = "nobody"
                      /\ workRow[w] = "running" /\ Serving =>
                           atWork[w] \in {d \in Daemons : daemon[d] = "serving"}
    BY DEF OnlyTheDeadAreInterrupted
  <1> QED
    BY DEF LaunchInv, LiveRowsRun, Leavings, Serving

-----------------------------------------------------------------------------

\* However many clients start daemons and however often those die: while no daemon
\* was started beside a living one, only the work of the dead is marked, and all of
\* it (app/daemon.go:43, 199).
THEOREM StartUpInterruptsTheDead == LaunchSpec => []OnlyTheDeadAreInterrupted
  BY LaunchInitially, LaunchStep, LaunchInvSuffices, PTL DEF LaunchSpec

-----------------------------------------------------------------------------
\* ProjectState

Summaries == [turns : SUBSET SummaryTurns, source : SummaryTurns \cup {0}, text : BOOLEAN]

SummaryTypes ==
  /\ DOMAIN size \subseteq SummaryTurns
  /\ summary \in Summaries
  /\ update \in [SummaryTurns -> [at : {"none", "lock", "read", "model"}, read : Summaries]]
  /\ mutex \in SummaryTurns \cup {0}
  /\ summaryTroubles \in Nat

\* A goroutine between its read and its write holds the mutex ...
HolderOnly == \A t \in SummaryTurns : update[t].at \in {"read", "model"} => mutex = t

\* ... and the summary that it has read has everything that is in the row.
ReadIsCurrent ==
  \A t \in SummaryTurns : update[t].at = "model" => summary.turns \subseteq update[t].read.turns

SummaryInv == SummaryTypes /\ HolderOnly /\ ReadIsCurrent

-----------------------------------------------------------------------------

\* No turn has the number that says that nobody holds the mutex.
LEMMA TurnsAreNotZero == 0 \notin SummaryTurns
  BY SummaryParameters DEF SummaryTurns

\* The mutex is free, no goroutine has read anything, and the row is blank.
LEMMA SummaryInitially == SummaryInit => SummaryInv
  BY DEF SummaryInit, SummaryInv, SummaryTypes, HolderOnly, ReadIsCurrent, Summaries, Blank,
         NoUpdate

\* The completion of a turn touches none of what the invariant is about but the
\* new goroutine, which waits for the mutex.
LEMMA TurnCompletesKeeps == SummaryInv /\ TurnCompletes => SummaryInv'
  <1> SUFFICES ASSUME SummaryInv, TurnCompletes PROVE SummaryInv'
    OBVIOUS
  <1> DEFINE t == 1 + Cardinality(DOMAIN size)
  <1>1. t \in SummaryTurns /\ UNCHANGED <<summary, mutex, summaryTroubles>>
        /\ update' = IF auto.flag THEN [update EXCEPT ![t].at = "lock"] ELSE update
    BY DEF TurnCompletes
  <1>2. DOMAIN size' \subseteq SummaryTurns
    BY <1>1, SummaryParameters DEF TurnCompletes, SummaryTurns
  <1> HIDE DEF t
  <1> QED
    BY <1>1, <1>2 DEF SummaryInv, SummaryTypes, HolderOnly, ReadIsCurrent

\* The goroutine that finds the mutex free is the only one that has it.
LEMMA LockKeeps == ASSUME NEW t \in SummaryTurns PROVE SummaryInv /\ Lock(t) => SummaryInv'
  BY TurnsAreNotZero DEF SummaryInv, SummaryTypes, HolderOnly, ReadIsCurrent, Lock

\* What is read is the row itself.
LEMMA ReadKeeps ==
  ASSUME NEW t \in SummaryTurns PROVE SummaryInv /\ ReadSummary(t) => SummaryInv'
  <1> SUFFICES ASSUME SummaryInv, ReadSummary(t) PROVE SummaryInv'
    OBVIOUS
  <1>1. CASE update' = [update EXCEPT ![t] = [at |-> "model", read |-> summary]] /\ UNCHANGED mutex
    BY <1>1 DEF SummaryInv, SummaryTypes, HolderOnly, ReadIsCurrent, ReadSummary
  <1>2. CASE Unlock(t)
    BY <1>2 DEF SummaryInv, SummaryTypes, HolderOnly, ReadIsCurrent, ReadSummary, Unlock,
                NoUpdate, Blank, Summaries
  <1> QED
    BY <1>1, <1>2 DEF ReadSummary

\* Nobody else is between read and write when the row changes.
LEMMA WriteKeeps ==
  ASSUME NEW t \in SummaryTurns PROVE SummaryInv /\ WriteSummary(t) => SummaryInv'
  <1> SUFFICES ASSUME SummaryInv, WriteSummary(t) PROVE SummaryInv'
    OBVIOUS
  <1>1. \A u \in SummaryTurns : update'[u].at \notin {"read", "model"}
    BY DEF SummaryInv, SummaryTypes, HolderOnly, WriteSummary, Unlock, NoUpdate
  <1>2. SummaryTypes'
    BY DEF SummaryInv, SummaryTypes, WriteSummary, Unlock, NoUpdate, Blank, Summaries
  <1> QED
    BY <1>1, <1>2 DEF SummaryInv, HolderOnly, ReadIsCurrent

\* An update that fails lets go of the mutex and has written nothing.
LEMMA FailsKeeps ==
  ASSUME NEW t \in SummaryTurns PROVE SummaryInv /\ UpdateFails(t) => SummaryInv'
  <1> SUFFICES ASSUME SummaryInv, UpdateFails(t) PROVE SummaryInv'
    OBVIOUS
  <1> QED
    BY DEF SummaryInv, SummaryTypes, HolderOnly, ReadIsCurrent, UpdateFails, Unlock, NoUpdate,
           Blank, Summaries, SummaryTrouble

\* A client's text holds no turn's work, so any copy has at least as much.
LEMMA PutKeeps == SummaryInv /\ PutProjectState => SummaryInv'
  BY DEF SummaryInv, SummaryTypes, HolderOnly, ReadIsCurrent, PutProjectState, Summaries,
         SummaryTrouble

\* A restart ends every goroutine.
LEMMA RestartKeeps == SummaryInv /\ SummaryRestart => SummaryInv'
  BY DEF SummaryInv, SummaryTypes, HolderOnly, ReadIsCurrent, SummaryRestart, NoUpdate, Blank,
         Summaries, SummaryTrouble

\* Every step keeps the invariant.
LEMMA SummaryStep == SummaryInv /\ [SummaryNext]_summaryVars => SummaryInv'
  <1> SUFFICES ASSUME SummaryInv, [SummaryNext]_summaryVars PROVE SummaryInv'
    OBVIOUS
  <1>1. CASE TurnCompletes
    BY <1>1, TurnCompletesKeeps
  <1>2. ASSUME NEW t \in SummaryTurns, Lock(t) PROVE SummaryInv'
    BY <1>2, LockKeeps
  <1>3. ASSUME NEW t \in SummaryTurns, ReadSummary(t) PROVE SummaryInv'
    BY <1>3, ReadKeeps
  <1>4. ASSUME NEW t \in SummaryTurns, WriteSummary(t) PROVE SummaryInv'
    BY <1>4, WriteKeeps
  <1>5. ASSUME NEW t \in SummaryTurns, UpdateFails(t) PROVE SummaryInv'
    BY <1>5, FailsKeeps
  <1>6. CASE PutProjectState
    BY <1>6, PutKeeps
  <1>7. CASE PutSetting \/ SetAutoUpdate \/ UNCHANGED summaryVars
    BY <1>7 DEF PutSetting, SetAutoUpdate, summaryVars, SummaryInv, SummaryTypes, HolderOnly,
                ReadIsCurrent, SummaryTrouble
  <1>8. CASE SummaryRestart
    BY <1>8, RestartKeeps
  <1> QED
    BY <1>1, <1>2, <1>3, <1>4, <1>5, <1>6, <1>7, <1>8 DEF SummaryNext

-----------------------------------------------------------------------------

\* In every reachable state the mutex is held by the goroutine that is between its
\* read of the summary and its write, and that goroutine's copy is up to date
\* (project_state_update.go:30-33).
THEOREM SummaryInvariant == SummarySpec => []SummaryInv
  BY SummaryInitially, SummaryStep, PTL DEF SummarySpec

\* No update loses what an earlier one has worked into the summary, in whatever
\* order the goroutines of any number of turns run (project_state_update.go:30).
THEOREM UpdatesNeverForget == SummarySpec => SummaryNeverForgets
  <1> DEFINE Forgets == summaryTroubles' = summaryTroubles => summary.turns \subseteq summary'.turns
  <1>1. SummaryInv /\ [SummaryNext]_summaryVars => [Forgets]_summaryVars
    <2> SUFFICES ASSUME SummaryInv, SummaryNext, summaryTroubles' = summaryTroubles
                 PROVE  summary.turns \subseteq summary'.turns
      OBVIOUS
    <2>1. ~ SummaryTrouble
      BY DEF SummaryTrouble, SummaryInv, SummaryTypes
    <2>2. CASE UNCHANGED summary
      BY <2>2
    <2>3. ASSUME NEW t \in SummaryTurns, WriteSummary(t) PROVE summary.turns \subseteq summary'.turns
      BY <2>3 DEF WriteSummary, SummaryInv, ReadIsCurrent
    <2> QED
      BY <2>1, <2>2, <2>3 DEF SummaryNext, TurnCompletes, Lock, ReadSummary, UpdateFails,
         PutProjectState, PutSetting, SetAutoUpdate, SummaryRestart
  <1> QED
    BY <1>1, SummaryInvariant, PTL DEF SummarySpec, SummaryNeverForgets

-----------------------------------------------------------------------------
\* RoleFiles

\* Among numbers there is a least one, and among numbers below a bound a largest.
LEMMA LeastNumber ==
  ASSUME NEW T \in SUBSET Nat, T # {} PROVE \E x \in T : \A y \in T : x <= y
  <1>1. PICK x \in T : \A y \in T : ~ (<<y, x>> \in OpToRel(<, Nat))
    BY NatLessThanWellFounded, WFMin
  <1>2. \A y \in T : ~ (y < x)
    BY <1>1 DEF OpToRel
  <1>3. x \in Nat /\ \A y \in T : y \in Nat
    OBVIOUS
  <1> QED
    BY <1>2, <1>3

LEMMA MaxIsLargest ==
  ASSUME NEW b \in Nat, NEW S \in SUBSET (0 .. b), S # {}
  PROVE  Max(S) \in S /\ \A y \in S : y <= Max(S)
  <1> DEFINE Above == {n \in Nat : \A y \in S : y <= n}
  <1>1. b \in Above
    OBVIOUS
  <1>2. PICK x \in Above : \A n \in Above : x <= n
    BY <1>1, LeastNumber
  <1>3. x \in S
    <2>1. CASE x = 0
      <3>1. PICK y \in S : TRUE
        OBVIOUS
      <3>2. y = 0
        BY <2>1, <1>2, <3>1
      <3> QED
        BY <2>1, <3>1, <3>2
    <2>2. CASE x # 0 /\ x \notin S
      <3>1. x - 1 \in Nat /\ \A y \in S : y <= x - 1
        BY <2>2, <1>2
      <3>2. x <= x - 1
        BY <3>1, <1>2
      <3> QED
        BY <3>2, <1>2
    <2> QED
      BY <2>1, <2>2
  <1>4. \E m \in S : \A y \in S : m >= y
    BY <1>2, <1>3
  <1> QED
    BY <1>4 DEF Max

-----------------------------------------------------------------------------

Words == Texts \cup {"absent"}
Writing == {"meta", "prompt", "snapshot"}
Copying == {"copy prompt", "copy meta"}

WriterState == [at : Writing \cup Copying \cup {"idle", "delegate", "update"},
                version : 0 .. MaxVersion, text : Words, prompt : Words]

RoleTypes ==
  /\ dir \in BOOLEAN /\ rewritten \in BOOLEAN /\ overlapped \in BOOLEAN /\ torn \in BOOLEAN
  /\ meta \in [version : 0 .. MaxVersion, text : Words]
  /\ prompt \in Words
  /\ snapshots \in [Versions -> [text : Words, prompt : Words]]
  /\ writer \in [Writers -> WriterState]
  /\ \A w \in Writers : /\ writer[w].at \in Writing => writer[w].version \in Versions
                        /\ writer[w].at \in Copying => writer[w].version = 0

\* Who is at work is alone.
Busy(w) == writer[w].at \notin {"idle", "delegate"}
OneWriter == \A v, w \in Writers : Busy(v) /\ Busy(w) => v = w

\* The version that role.yaml gives, and the one that is being written, are not
\* older than any snapshot; what has no directory has no role.yaml and no snapshots.
NewestVersion ==
  /\ ~ dir => meta = Absent
  /\ \A v \in Versions : snapshots[v] # NoSnapshot =>
       /\ dir
       /\ meta.version > 0 => v <= meta.version
       /\ \A w \in Writers : writer[w].at \in Writing => v < writer[w].version

\* A writer that is half-way finds what it has written.
Halfway ==
  \A w \in Writers :
    /\ writer[w].at \in {"prompt", "snapshot"} =>
         meta = [version |-> writer[w].version, text |-> writer[w].text]
    /\ writer[w].at = "snapshot" => prompt = writer[w].prompt
    /\ writer[w].at \in Copying => torn /\ dir

InOnePiece ==
  (\A w \in Writers : writer[w].at \notin {"prompt", "snapshot"}) /\ ~ torn /\ Readable =>
    meta.version \in Versions /\ snapshots[meta.version] = Content(meta.text, prompt)

HistoryKept == OneWriter /\ NewestVersion /\ Halfway /\ InOnePiece /\ ~ rewritten

RoleInv == RoleTypes /\ (~ overlapped => HistoryKept)

-----------------------------------------------------------------------------

LEMMA FirstIsAText == First \in Texts
  BY RoleParameters DEF First

LEMMA RestIsAState == Resting \in WriterState
  BY RoleParameters DEF Resting, WriterState, NoPrompt, Words

LEMMA RoleInitially == RoleInit => RoleInv
  <1> SUFFICES ASSUME RoleInit PROVE RoleInv
    OBVIOUS
  <1>1. RoleTypes
    <2>1. writer \in [Writers -> WriterState] /\ \A w \in Writers : writer[w].at = "idle"
      BY RestIsAState DEF RoleInit, Resting
    <2>2. meta \in [version : 0 .. MaxVersion, text : Words] /\ prompt \in Words
      BY RoleParameters DEF RoleInit, Absent, NoPrompt, Words
    <2>3. snapshots \in [Versions -> [text : Words, prompt : Words]]
      BY DEF RoleInit, NoSnapshot, Words
    <2> QED
      BY <2>1, <2>2, <2>3 DEF RoleInit, RoleTypes, Writing, Copying
  <1>2. HistoryKept
    BY DEF RoleInit, HistoryKept, OneWriter, Busy, NewestVersion, Halfway, InOnePiece, Readable,
           Resting, Writing, Copying
  <1> QED
    BY <1>1, <1>2 DEF RoleInv

\* Beginning.
LEMMA BeginningKeeps ==
  ASSUME RoleInv, NEW w \in Writers, CreateRole(w) \/ ReadForUpdate(w)
  PROVE  RoleInv'
  <1>1. PICK x \in Texts, y \in Words :
          /\ ~ Busy(w)
          /\ overlapped' = (overlapped \/ ~ Begins(w))
          /\ \/ /\ ~ dir
                /\ writer' = [writer EXCEPT ![w] = [at |-> "meta", version |-> 1, text |-> x, prompt |-> y]]
             \/ writer' = [writer EXCEPT ![w] = [at |-> "update", version |-> 0, text |-> x, prompt |-> y]]
          /\ UNCHANGED <<dir, meta, prompt, snapshots, rewritten, torn>>
    <2>1. CASE CreateRole(w)
      BY <2>1, FirstIsAText DEF CreateRole, Busy, Words
    <2>2. CASE ReadForUpdate(w)
      BY <2>2 DEF ReadForUpdate, Busy, Words, RoleInv, RoleTypes
    <2> QED
      BY <2>1, <2>2
  <1>2. \A v \in Writers : v # w => writer'[v] = writer[v]
    BY <1>1 DEF RoleInv, RoleTypes
  <1>3. writer'[w].at \in {"meta", "update"} /\ (writer'[w].at = "meta" => writer'[w].version = 1 /\ ~ dir)
    BY <1>1 DEF RoleInv, RoleTypes
  <1>4. 1 \in Versions /\ Versions \subseteq 0 .. MaxVersion
    BY RoleParameters DEF Versions
  <1>5. RoleTypes'
    <2>1. /\ [at |-> "meta", version |-> 1, text |-> x, prompt |-> y] \in WriterState
          /\ [at |-> "update", version |-> 0, text |-> x, prompt |-> y] \in WriterState
      BY <1>4, RoleParameters DEF WriterState, Writing, Words
    <2>2. writer' \in [Writers -> WriterState]
      BY <1>1, <2>1 DEF RoleInv, RoleTypes
    <2> QED
      BY <1>1, <1>2, <1>3, <1>4, <2>2 DEF RoleInv, RoleTypes, Copying, Writing
  <1>6. ASSUME ~ overlapped' PROVE HistoryKept'
    <2>1. HistoryKept /\ \A v \in Writers \ {w} : ~ Busy(v)
      BY <1>1, <1>6 DEF RoleInv, Begins, Busy
    <2>2. OneWriter'
      BY <1>2, <2>1 DEF OneWriter, Busy
    <2>3. NewestVersion'
      BY <1>1, <1>2, <1>3, <2>1 DEF HistoryKept, NewestVersion, Writing
    <2>4. Halfway' /\ InOnePiece'
      BY <1>1, <1>2, <1>3, <2>1 DEF HistoryKept, Halfway, InOnePiece, Readable, Busy, Copying
    <2> QED
      BY <1>1, <2>1, <2>2, <2>3, <2>4 DEF HistoryKept
  <1> QED
    BY <1>5, <1>6 DEF RoleInv

\* The next version is newer than any snapshot.
LEMMA NextIsNew ==
  ASSUME RoleTypes, NewestVersion, NextVersion \in Versions,
         NEW v \in Versions, snapshots[v] # NoSnapshot
  PROVE  v < NextVersion
  <1>1. CASE meta.version + 1 <= 1
    <2> DEFINE S == {0} \cup {u \in Versions : snapshots[u] # NoSnapshot}
    <2>1. S \in SUBSET (0 .. MaxVersion) /\ v \in S /\ MaxVersion \in Nat
      BY RoleParameters DEF Versions
    <2>2. Max(S) \in S /\ v <= Max(S)
      BY <2>1, MaxIsLargest
    <2>3. NextVersion = 1 + Max(S)
      BY <1>1 DEF NextVersion, NextSnapshotVersion
    <2> QED
      BY <2>1, <2>2, <2>3
  <1>2. CASE ~ (meta.version + 1 <= 1)
    BY <1>2, RoleParameters DEF NextVersion, NewestVersion, RoleTypes, Versions
  <1> QED
    BY <1>1, <1>2

\* What becomes of a writer that goes on, or that rests.
LEMMA WriterGoesOn ==
  ASSUME RoleTypes, NEW w \in Writers, NEW c \in WriterState, writer' = [writer EXCEPT ![w] = c],
         c.at \in Writing => c.version \in Versions, c.at \in Copying => c.version = 0
  PROVE  /\ writer' \in [Writers -> WriterState]
         /\ writer'[w] = c /\ \A v \in Writers : v # w => writer'[v] = writer[v]
         /\ \A v \in Writers : /\ writer'[v].at \in Writing => writer'[v].version \in Versions
                               /\ writer'[v].at \in Copying => writer'[v].version = 0
  BY DEF RoleTypes

LEMMA RestingIs ==
  /\ Resting \in WriterState /\ Resting.at = "idle"
  /\ Resting.at \notin Writing /\ Resting.at \notin Copying
  BY RestIsAState DEF Resting, Writing, Copying

\* While nobody wrote at the same time, a writer at work is the only one.
LEMMA WritesAlone ==
  ASSUME OneWriter, NEW w \in Writers, Busy(w) PROVE \A v \in Writers : v # w => ~ Busy(v)
  BY DEF OneWriter

\* A request that ends leaves the files to the next one; what it has not finished is torn.
LEMMA EndingKeeps ==
  ASSUME RoleInv, NEW w \in Writers, writer' = [writer EXCEPT ![w] = Resting],
         UNCHANGED <<meta, prompt, snapshots, rewritten, overlapped>>,
         dir' = dir \/ dir' = TRUE, torn' = torn \/ torn' = TRUE,
         writer[w].at \in {"prompt", "snapshot"} => torn'
  PROVE  RoleInv'
  <1>1. /\ writer' \in [Writers -> WriterState]
        /\ writer'[w] = Resting /\ \A v \in Writers : v # w => writer'[v] = writer[v]
        /\ \A v \in Writers : /\ writer'[v].at \in Writing => writer'[v].version \in Versions
                              /\ writer'[v].at \in Copying => writer'[v].version = 0
    BY RestingIs, WriterGoesOn DEF RoleInv
  <1>2. RoleTypes'
    BY <1>1 DEF RoleInv, RoleTypes
  <1>3. ASSUME ~ overlapped' PROVE HistoryKept'
    <2>1. HistoryKept /\ ~ Busy(w)' /\ writer'[w].at \notin Writing /\ writer'[w].at \notin Copying
      BY <1>1, <1>3, RestingIs DEF RoleInv, Busy
    <2>2. /\ \A v \in Writers : Busy(v)' => v # w /\ Busy(v)
          /\ \A v \in Writers : v = w \/ writer'[v] = writer[v]
      BY <1>1, <2>1 DEF Busy
    <2>3. OneWriter'
      BY <2>1, <2>2 DEF HistoryKept, OneWriter
    <2>7. /\ (dir => dir') /\ (torn => torn')
          /\ meta' = meta /\ prompt' = prompt /\ snapshots' = snapshots
      OBVIOUS
    <2>4. NewestVersion'
      <3>1. ~ dir' => meta' = Absent
        BY <2>1, <2>7 DEF HistoryKept, NewestVersion
      <3>2. ASSUME NEW v \in Versions, snapshots'[v] # NoSnapshot
            PROVE  /\ dir' /\ (meta'.version > 0 => v <= meta'.version)
                   /\ \A u \in Writers : writer'[u].at \in Writing => v < writer'[u].version
        <4>1. /\ dir /\ (meta.version > 0 => v <= meta.version)
              /\ \A u \in Writers : writer[u].at \in Writing => v < writer[u].version
          BY <2>1, <2>7, <3>2 DEF HistoryKept, NewestVersion
        <4> QED
          BY <2>1, <2>2, <2>7, <4>1
      <3> QED
        BY <3>1, <3>2 DEF NewestVersion
    <2>5. Halfway'
      <3> SUFFICES ASSUME NEW v \in Writers
                   PROVE  /\ writer'[v].at \in {"prompt", "snapshot"} =>
                               meta' = [version |-> writer'[v].version, text |-> writer'[v].text]
                          /\ writer'[v].at = "snapshot" => prompt' = writer'[v].prompt
                          /\ writer'[v].at \in Copying => torn' /\ dir'
        BY DEF Halfway
      <3>1. CASE v = w
        BY <2>1, <3>1 DEF Writing
      <3>2. CASE writer'[v] = writer[v]
        BY <2>1, <2>7, <3>2 DEF HistoryKept, Halfway
      <3> QED
        BY <2>2, <3>1, <3>2
    <2>6. InOnePiece'
      <3> SUFFICES ASSUME \A v \in Writers : writer'[v].at \notin {"prompt", "snapshot"},
                          ~ torn', Readable'
                   PROVE  /\ meta'.version \in Versions
                          /\ snapshots'[meta'.version] = Content(meta'.text, prompt')
        BY DEF InOnePiece
      <3>1. ~ torn /\ Readable /\ \A v \in Writers : writer[v].at \notin {"prompt", "snapshot"}
        <4>1. \A v \in Writers : v # w => writer[v].at \notin {"prompt", "snapshot"}
          BY <2>2
        <4>2. ~ torn /\ writer[w].at \notin {"prompt", "snapshot"}
          BY <2>7
        <4> QED
          BY <2>7, <4>1, <4>2 DEF Readable
      <3> QED
        BY <2>1, <2>7, <3>1 DEF HistoryKept, InOnePiece
    <2> QED
      BY <2>1, <2>3, <2>4, <2>5, <2>6 DEF HistoryKept
  <1> QED
    BY <1>2, <1>3 DEF RoleInv

LEMMA UpdateKeeps == ASSUME RoleInv, NEW w \in Writers, UpdateRole(w) PROVE RoleInv'
  <1>1. /\ writer[w].at = "update" /\ UNCHANGED <<dir, meta, prompt, snapshots, rewritten, overlapped, torn>>
        /\ RoleTypes
    BY DEF UpdateRole, RoleInv
  <1>2. CASE /\ Readable /\ NextVersion \in Versions
             /\ writer' = [writer EXCEPT ![w].at = "meta", ![w].version = NextVersion]
    <2> DEFINE c == [writer[w] EXCEPT !.at = "meta", !.version = NextVersion]
    <2>1. writer[w] \in WriterState /\ NextVersion \in 0 .. MaxVersion
      BY <1>1, <1>2, RoleParameters DEF RoleTypes, Versions
    <2>2. /\ c \in WriterState /\ c.at = "meta" /\ c.version = NextVersion
          /\ writer' = [writer EXCEPT ![w] = c]
      BY <1>1, <1>2, <2>1 DEF WriterState, Writing, RoleTypes
    <2> HIDE DEF c
    <2>3. /\ writer' \in [Writers -> WriterState]
          /\ writer'[w] = c /\ \A v \in Writers : v # w => writer'[v] = writer[v]
          /\ \A v \in Writers : /\ writer'[v].at \in Writing => writer'[v].version \in Versions
                                /\ writer'[v].at \in Copying => writer'[v].version = 0
      BY <1>1, <1>2, <2>2, WriterGoesOn DEF Copying
    <2>4. RoleTypes'
      BY <1>1, <2>3 DEF RoleTypes
    <2>5. ASSUME ~ overlapped' PROVE HistoryKept'
      <3>1. HistoryKept /\ \A v \in Writers : v # w => ~ Busy(v)
        BY <1>1, <2>5, WritesAlone DEF RoleInv, HistoryKept, Busy
      <3>2. OneWriter'
        BY <2>3, <3>1 DEF OneWriter, Busy
      <3>3. \A v \in Versions : snapshots[v] # NoSnapshot => dir /\ v < NextVersion
        BY <1>1, <1>2, <3>1, NextIsNew DEF HistoryKept, NewestVersion
      <3>4. NewestVersion'
        BY <1>1, <2>2, <2>3, <3>1, <3>3 DEF HistoryKept, NewestVersion
      <3>5. Halfway' /\ InOnePiece'
        BY <1>1, <2>2, <2>3, <3>1 DEF HistoryKept, Halfway, InOnePiece, Readable, Copying
      <3> QED
        BY <1>1, <3>1, <3>2, <3>4, <3>5 DEF HistoryKept
    <2> QED
      BY <2>4, <2>5 DEF RoleInv
  <1>3. CASE writer' = [writer EXCEPT ![w] = Resting] /\ ~ Readable
    BY <1>1, <1>3, EndingKeeps
  <1> QED
    BY <1>2, <1>3 DEF UpdateRole

\* The first file, ...
LEMMA MetaKeeps == ASSUME RoleInv, NEW w \in Writers, WriteMeta(w) PROVE RoleInv'
  <1>1. /\ writer[w].at = "meta" /\ UNCHANGED <<prompt, snapshots, rewritten, overlapped, torn>>
        /\ (dir' = dir \/ dir' = TRUE) /\ RoleTypes
    BY DEF WriteMeta, RoleInv, GivesUp
  <1>2. CASE /\ meta' = [version |-> writer[w].version, text |-> writer[w].text]
             /\ RoleGoto(w, "prompt") /\ dir' = TRUE
    <2> DEFINE c == [writer[w] EXCEPT !.at = "prompt"]
    <2>1. /\ c \in WriterState /\ c.at = "prompt" /\ c.version = writer[w].version
          /\ c.text = writer[w].text /\ writer[w].version \in Versions
          /\ writer' = [writer EXCEPT ![w] = c]
      BY <1>1, <1>2 DEF WriterState, Writing, RoleTypes, RoleGoto
    <2> HIDE DEF c
    <2>2. /\ writer' \in [Writers -> WriterState]
          /\ writer'[w] = c /\ \A v \in Writers : v # w => writer'[v] = writer[v]
          /\ \A v \in Writers : /\ writer'[v].at \in Writing => writer'[v].version \in Versions
                                /\ writer'[v].at \in Copying => writer'[v].version = 0
      BY <1>1, <2>1, WriterGoesOn DEF Copying
    <2>3. meta' \in [version : 0 .. MaxVersion, text : Words]
      BY <1>1, <1>2 DEF RoleTypes, WriterState
    <2>4. RoleTypes'
      BY <1>1, <2>2, <2>3 DEF RoleTypes
    <2>5. ASSUME ~ overlapped' PROVE HistoryKept'
      <3>1. HistoryKept /\ \A v \in Writers : v # w => ~ Busy(v)
        BY <1>1, <2>5, WritesAlone DEF RoleInv, HistoryKept, Busy
      <3>2. OneWriter'
        BY <2>2, <3>1 DEF OneWriter, Busy
      <3>3. \A v \in Versions : snapshots[v] # NoSnapshot => v < writer[w].version
        BY <1>1, <3>1 DEF HistoryKept, NewestVersion, Writing
      <3>4. NewestVersion'
        <4>1. ASSUME NEW v \in Versions, snapshots'[v] # NoSnapshot
              PROVE  /\ meta'.version > 0 => v <= meta'.version
                     /\ \A u \in Writers : writer'[u].at \in Writing => v < writer'[u].version
          <5>1. v < writer[w].version
            BY <1>1, <3>3, <4>1
          <5>2. v <= meta'.version
            BY <1>2, <2>1, <5>1, RoleParameters DEF Versions
          <5>3. \A u \in Writers : writer'[u].at \in Writing => u = w
            BY <2>2, <3>1 DEF Busy, Writing
          <5> QED
            BY <2>1, <2>2, <5>1, <5>2, <5>3
        <4> QED
          BY <1>2, <4>1 DEF NewestVersion
      <3>5. Halfway' /\ InOnePiece'
        BY <1>1, <1>2, <2>1, <2>2, <3>1 DEF HistoryKept, Halfway, InOnePiece, Busy, Copying
      <3> QED
        BY <1>1, <3>1, <3>2, <3>4, <3>5 DEF HistoryKept
    <2> QED
      BY <2>4, <2>5 DEF RoleInv
  <1>3. CASE GivesUp(w) /\ UNCHANGED meta
    BY <1>1, <1>3, EndingKeeps DEF GivesUp
  <1> QED
    BY <1>2, <1>3 DEF WriteMeta

\* ... the second ...
LEMMA PromptKeeps == ASSUME RoleInv, NEW w \in Writers, WritePrompt(w) PROVE RoleInv'
  <1>1. /\ writer[w].at = "prompt" /\ UNCHANGED <<dir, meta, snapshots, rewritten, overlapped>>
        /\ RoleTypes
    BY DEF WritePrompt, RoleInv
  <1>2. CASE prompt' = writer[w].prompt /\ RoleGoto(w, "snapshot") /\ UNCHANGED torn
    <2> DEFINE c == [writer[w] EXCEPT !.at = "snapshot"]
    <2>1. /\ c \in WriterState /\ c.at = "snapshot" /\ c.version = writer[w].version
          /\ c.text = writer[w].text /\ c.prompt = writer[w].prompt /\ writer[w].version \in Versions
          /\ writer' = [writer EXCEPT ![w] = c]
      BY <1>1, <1>2 DEF WriterState, Writing, RoleTypes, RoleGoto
    <2> HIDE DEF c
    <2>2. /\ writer' \in [Writers -> WriterState]
          /\ writer'[w] = c /\ \A v \in Writers : v # w => writer'[v] = writer[v]
          /\ \A v \in Writers : /\ writer'[v].at \in Writing => writer'[v].version \in Versions
                                /\ writer'[v].at \in Copying => writer'[v].version = 0
      BY <1>1, <2>1, WriterGoesOn DEF Copying
    <2>3. prompt' \in Words
      BY <1>1, <1>2 DEF RoleTypes, WriterState
    <2>4. RoleTypes'
      BY <1>1, <1>2, <2>2, <2>3 DEF RoleTypes
    <2>5. ASSUME ~ overlapped' PROVE HistoryKept'
      <3>1. HistoryKept /\ \A v \in Writers : v # w => ~ Busy(v)
        BY <1>1, <2>5, WritesAlone DEF RoleInv, HistoryKept, Busy
      <3>2. OneWriter'
        BY <2>2, <3>1 DEF OneWriter, Busy
      <3>3. NewestVersion'
        BY <1>1, <2>1, <2>2, <3>1 DEF HistoryKept, NewestVersion, Writing
      <3>4. Halfway' /\ InOnePiece'
        BY <1>1, <1>2, <2>1, <2>2, <3>1 DEF HistoryKept, Halfway, InOnePiece, Busy, Copying
      <3> QED
        BY <1>1, <3>1, <3>2, <3>3, <3>4 DEF HistoryKept
    <2> QED
      BY <2>4, <2>5 DEF RoleInv
  <1>3. CASE GivesUp(w) /\ torn' = TRUE /\ UNCHANGED prompt
    BY <1>1, <1>3, EndingKeeps DEF GivesUp
  <1> QED
    BY <1>2, <1>3 DEF WritePrompt

\* ... and the snapshot, of a version that had none.
LEMMA SnapshotKeeps == ASSUME RoleInv, NEW w \in Writers, WriteSnapshot(w) PROVE RoleInv'
  <1> DEFINE v == writer[w].version
             c == Content(writer[w].text, writer[w].prompt)
  <1>1. /\ writer[w].at = "snapshot" /\ UNCHANGED <<dir, meta, prompt, overlapped>>
        /\ RoleTypes /\ v \in Versions /\ c \in [text : Words, prompt : Words]
    BY DEF WriteSnapshot, RoleInv, RoleTypes, Writing, WriterState, Content
  <1>2. CASE /\ snapshots' = [snapshots EXCEPT ![v] = c]
             /\ rewritten' = (rewritten \/ snapshots[v] \notin {NoSnapshot, c})
             /\ writer' = [writer EXCEPT ![w] = Resting]
             /\ torn' = FALSE
    <2>1. /\ writer' \in [Writers -> WriterState]
          /\ writer'[w] = Resting /\ \A u \in Writers : u # w => writer'[u] = writer[u]
          /\ \A u \in Writers : /\ writer'[u].at \in Writing => writer'[u].version \in Versions
                                /\ writer'[u].at \in Copying => writer'[u].version = 0
      BY <1>1, <1>2, RestingIs, WriterGoesOn
    <2>2. snapshots' \in [Versions -> [text : Words, prompt : Words]]
      BY <1>1, <1>2 DEF RoleTypes
    <2>3. RoleTypes'
      BY <1>1, <1>2, <2>1, <2>2 DEF RoleTypes
    <2>4. ASSUME ~ overlapped' PROVE HistoryKept'
      <3>1. HistoryKept /\ \A u \in Writers : u # w => ~ Busy(u)
        BY <1>1, <2>4, WritesAlone DEF RoleInv, HistoryKept, Busy
      <3>2. /\ meta = [version |-> v, text |-> writer[w].text] /\ prompt = writer[w].prompt
            /\ v \in Nat /\ v > 0 /\ dir
        BY <1>1, <3>1, RoleParameters DEF HistoryKept, Halfway, NewestVersion, Absent, Versions
      <3>3. snapshots[v] = NoSnapshot
        BY <1>1, <3>1, <3>2 DEF HistoryKept, NewestVersion, Writing
      <3>4. /\ snapshots'[v] = c
            /\ \A u \in Versions : u # v => snapshots'[u] = snapshots[u]
        BY <1>1, <1>2 DEF RoleTypes
      <3>5. \A u \in Writers : ~ Busy(u)'
        BY <2>1, <3>1 DEF Busy, Resting
      <3>6. OneWriter' /\ Halfway'
        BY <3>5 DEF OneWriter, Halfway, Busy, Copying
      <3>7. NewestVersion'
        <4>1. \A u \in Versions : snapshots'[u] # NoSnapshot => u <= v
          <5> SUFFICES ASSUME NEW u \in Versions, snapshots'[u] # NoSnapshot, u # v PROVE u <= v
            BY <3>2
          <5>1. snapshots[u] # NoSnapshot
            BY <3>4
          <5> QED
            BY <1>1, <3>1, <3>2, <5>1 DEF HistoryKept, NewestVersion
        <4>2. \A u \in Writers : writer'[u].at \notin Writing
          BY <3>5 DEF Busy, Writing
        <4>3. meta' = meta /\ dir'
          BY <1>1, <3>2
        <4> QED
          BY <3>2, <4>1, <4>2, <4>3 DEF NewestVersion
      <3>8. InOnePiece'
        BY <1>1, <3>2, <3>4 DEF InOnePiece
      <3>9. ~ rewritten'
        BY <1>2, <3>1, <3>3 DEF HistoryKept
      <3> QED
        BY <3>6, <3>7, <3>8, <3>9 DEF HistoryKept
    <2> QED
      BY <2>3, <2>4 DEF RoleInv
  <1>3. CASE GivesUp(w) /\ torn' = TRUE /\ UNCHANGED <<snapshots, rewritten>>
    BY <1>1, <1>3, EndingKeeps DEF GivesUp
  <1> QED
    BY <1>2, <1>3 DEF WriteSnapshot

\* An installation begins the history anew, ...
LEMMA InstallKeeps == ASSUME RoleInv, NEW w \in Writers, InstallRole(w) PROVE RoleInv'
  <1> DEFINE c == [at |-> "copy prompt", version |-> 0, text |-> First, prompt |-> First]
  <1>1. c \in WriterState /\ c.at = "copy prompt" /\ c.version = 0 /\ c.at \notin Writing
    BY FirstIsAText, RoleParameters DEF WriterState, Copying, Writing, Words
  <1>2. /\ dir' = TRUE /\ meta' = Absent /\ prompt' = NoPrompt
        /\ snapshots' = [v \in Versions |-> NoSnapshot] /\ rewritten' = FALSE /\ torn' = TRUE
        /\ writer' = [writer EXCEPT ![w] = c] /\ overlapped' = ~ Begins(w)
    BY DEF InstallRole
  <1> HIDE DEF c
  <1>3. /\ writer' \in [Writers -> WriterState]
        /\ writer'[w] = c /\ \A v \in Writers : v # w => writer'[v] = writer[v]
        /\ \A v \in Writers : /\ writer'[v].at \in Writing => writer'[v].version \in Versions
                              /\ writer'[v].at \in Copying => writer'[v].version = 0
    BY <1>1, <1>2, WriterGoesOn DEF RoleInv
  <1>4. RoleTypes'
    <2>1. meta' \in [version : 0 .. MaxVersion, text : Words] /\ prompt' \in Words
      BY <1>2, RoleParameters DEF Absent, NoPrompt, Words
    <2>2. snapshots' \in [Versions -> [text : Words, prompt : Words]]
      BY <1>2 DEF NoSnapshot, Words
    <2> QED
      BY <1>2, <1>3, <2>1, <2>2 DEF RoleTypes
  <1>5. ASSUME ~ overlapped' PROVE HistoryKept'
    <2>1. \A v \in Writers : v # w => ~ Busy(v)
      BY <1>2, <1>5 DEF Begins, Busy
    <2> QED
      BY <1>1, <1>2, <1>3, <2>1 DEF HistoryKept, OneWriter, Busy, NewestVersion, Halfway,
         InOnePiece,
         Readable
  <1> QED
    BY <1>4, <1>5 DEF RoleInv

\* ... which stays torn until somebody updates the role.
LEMMA CopyingKeeps ==
  ASSUME RoleInv, NEW w \in Writers, CopyPrompt(w) \/ CopyMeta(w) PROVE RoleInv'
  <1>1. /\ writer[w].at \in Copying /\ UNCHANGED <<dir, snapshots, rewritten, overlapped, torn>>
        /\ RoleTypes /\ writer[w] \in WriterState /\ writer[w].version = 0
    BY DEF CopyPrompt, CopyMeta, RoleInv, RoleTypes, Copying
  <1>2. CASE GivesUp(w) /\ UNCHANGED <<meta, prompt>>
    BY <1>1, <1>2, EndingKeeps DEF GivesUp, Copying
  <1>3. CASE ~ (GivesUp(w) /\ UNCHANGED <<meta, prompt>>)
    <2>1. PICK c \in WriterState :
            /\ writer' = [writer EXCEPT ![w] = c] /\ c.at \in {"copy meta", "idle"}
            /\ c.at \in Copying => c.version = 0
            /\ meta' = meta \/ meta' = [version |-> 0, text |-> writer[w].text]
            /\ prompt' = prompt \/ prompt' = writer[w].prompt
      <3>1. CASE CopyPrompt(w)
        <4>1. [writer[w] EXCEPT !.at = "copy meta"] \in WriterState
          BY <1>1 DEF WriterState, Copying
        <4> QED
          BY <1>1, <1>3, <3>1, <4>1 DEF CopyPrompt, RoleGoto, RoleTypes, WriterState
      <3>2. CASE CopyMeta(w)
        BY <1>1, <1>3, <3>2, RestingIs DEF CopyMeta
      <3> QED
        BY <3>1, <3>2
    <2>2. c.at \notin Writing
      BY <2>1 DEF Writing
    <2>3. /\ writer' \in [Writers -> WriterState]
          /\ writer'[w] = c /\ \A v \in Writers : v # w => writer'[v] = writer[v]
          /\ \A v \in Writers : /\ writer'[v].at \in Writing => writer'[v].version \in Versions
                                /\ writer'[v].at \in Copying => writer'[v].version = 0
      BY <1>1, <2>1, <2>2, WriterGoesOn
    <2>4. RoleTypes'
      <3>1. /\ meta \in [version : 0 .. MaxVersion, text : Words] /\ prompt \in Words
            /\ writer[w].text \in Words /\ writer[w].prompt \in Words
        BY <1>1 DEF RoleTypes, WriterState
      <3>2. [version |-> 0, text |-> writer[w].text] \in [version : 0 .. MaxVersion, text : Words]
        BY <3>1, RoleParameters
      <3>3. meta' \in [version : 0 .. MaxVersion, text : Words] /\ prompt' \in Words
        BY <2>1, <3>1, <3>2
      <3> QED
        BY <1>1, <2>3, <3>3 DEF RoleTypes
    <2>5. ASSUME ~ overlapped' PROVE HistoryKept'
      <3>1. HistoryKept /\ torn /\ dir /\ \A v \in Writers : v # w => ~ Busy(v)
        BY <1>1, <2>5, WritesAlone DEF RoleInv, HistoryKept, Halfway, Busy, Copying
      <3>2. /\ dir' /\ torn' /\ snapshots' = snapshots
            /\ meta' = meta \/ meta'.version = 0
        <4>1. dir' /\ torn'
          BY <1>1, <3>1, Zenon
        <4>2. snapshots' = snapshots
          BY <1>1
        <4>3. meta' = meta \/ meta'.version = 0
          <5>1. meta' = meta \/ meta' = [version |-> 0, text |-> writer[w].text]
            BY <2>1, Zenon
          <5> QED
            BY <5>1
        <4> QED
          BY <4>1, <4>2, <4>3
      <3>3. /\ ~ Busy(w)' \/ writer'[w].at = "copy meta"
            /\ writer'[w].at \notin Writing
            /\ \A v \in Writers : v # w => ~ Busy(v)' /\ writer'[v].at \notin Writing
        BY <2>1, <2>2, <2>3, <3>1 DEF Busy, Writing
      <3>4. OneWriter'
        BY <3>3 DEF OneWriter
      <3>5. NewestVersion'
        <4>1. \A v \in Writers : writer'[v].at \notin Writing
          BY <3>3
        <4>2. \A v \in Versions : snapshots[v] # NoSnapshot => (meta.version > 0 => v <= meta.version)
          BY <3>1 DEF HistoryKept, NewestVersion
        <4>3. \A v \in Versions : snapshots'[v] # NoSnapshot => (meta'.version > 0 => v <= meta'.version)
          BY <3>2, <4>2
        <4> QED
          BY <3>2, <4>1, <4>3 DEF NewestVersion
      <3>6. Halfway' /\ InOnePiece'
        BY <3>2, <3>3 DEF Halfway, InOnePiece, Writing
      <3> QED
        BY <1>1, <3>1, <3>4, <3>5, <3>6 DEF HistoryKept
    <2> QED
      BY <2>4, <2>5 DEF RoleInv
  <1> QED
    BY <1>2, <1>3

\* A delegation writes no file.
LEMMA DelegatesKeep ==
  ASSUME RoleInv, NEW w \in Writers, DelegateLooks(w) \/ DelegateStores(w) PROVE RoleInv'
  <1>1. CASE DelegateStores(w)
    BY <1>1, EndingKeeps DEF DelegateStores
  <1>2. CASE DelegateLooks(w)
    <2> DEFINE c == [writer[w] EXCEPT !.at = "delegate"]
    <2>1. /\ c \in WriterState /\ c.at = "delegate" /\ c.at \notin Writing /\ c.at \notin Copying
          /\ writer' = [writer EXCEPT ![w] = c] /\ writer[w].at = "idle" /\ RoleTypes
      BY <1>2 DEF DelegateLooks, RoleGoto, RoleInv, RoleTypes, WriterState, Writing, Copying
    <2> HIDE DEF c
    <2>2. /\ writer' \in [Writers -> WriterState]
          /\ writer'[w] = c /\ \A v \in Writers : v # w => writer'[v] = writer[v]
          /\ \A v \in Writers : /\ writer'[v].at \in Writing => writer'[v].version \in Versions
                                /\ writer'[v].at \in Copying => writer'[v].version = 0
      BY <2>1, WriterGoesOn
    <2>3. UNCHANGED <<dir, meta, prompt, snapshots, rewritten, overlapped, torn>>
      BY <1>2 DEF DelegateLooks
    <2>4. RoleTypes'
      BY <2>1, <2>2, <2>3 DEF RoleTypes
    <2>5. ASSUME ~ overlapped' PROVE HistoryKept'
      <3>1. HistoryKept
        BY <2>3, <2>5 DEF RoleInv
      <3>2. \A v \in Writers : \/ writer'[v] = writer[v]
                               \/ v = w /\ writer'[v].at = "delegate" /\ ~ Busy(v)'
        BY <2>1, <2>2 DEF Busy
      <3>3. OneWriter'
        BY <3>1, <3>2 DEF HistoryKept, OneWriter, Busy
      <3>4. NewestVersion' /\ Halfway'
        BY <2>3, <3>1, <3>2 DEF HistoryKept, NewestVersion, Halfway, Writing, Copying
      <3>5. InOnePiece'
        BY <2>1, <2>2, <2>3, <3>1 DEF HistoryKept, InOnePiece, Readable
      <3> QED
        BY <2>3, <3>1, <3>3, <3>4, <3>5 DEF HistoryKept
    <2> QED
      BY <2>4, <2>5 DEF RoleInv
  <1> QED
    BY <1>1, <1>2

\* A role.yaml without a version is older than every snapshot, ...
LEMMA EditKeeps == ASSUME RoleInv, EditByHand PROVE RoleInv'
  <1>1. /\ \A w \in Writers : ~ Busy(w) /\ writer[w].at \notin Writing /\ writer[w].at \notin Copying
        /\ meta' = [meta EXCEPT !.version = 0] /\ meta.version > 0 /\ torn' = TRUE
        /\ UNCHANGED <<dir, prompt, snapshots, rewritten, writer, overlapped>>
    BY DEF EditByHand, Busy, Writing, Copying
  <1>2. meta' \in [version : 0 .. MaxVersion, text : Words] /\ meta'.version = 0
    BY <1>1, RoleParameters DEF RoleInv, RoleTypes
  <1>3. RoleTypes'
    BY <1>1, <1>2 DEF RoleInv, RoleTypes
  <1>4. ASSUME ~ overlapped' PROVE HistoryKept'
    <2>1. HistoryKept
      BY <1>1, <1>4 DEF RoleInv
    <2>2. dir
      BY <1>1, <2>1 DEF HistoryKept, NewestVersion, Absent
    <2>3. OneWriter' /\ Halfway' /\ InOnePiece'
      BY <1>1 DEF OneWriter, Busy, Halfway, InOnePiece, Writing
    <2>4. NewestVersion'
      BY <1>1, <1>2, <2>1, <2>2 DEF HistoryKept, NewestVersion
    <2> QED
      BY <1>1, <2>1, <2>3, <2>4 DEF HistoryKept
  <1> QED
    BY <1>3, <1>4 DEF RoleInv

\* ... and what a restart interrupts is torn.
LEMMA RoleRestartKeeps == ASSUME RoleInv, RoleRestart PROVE RoleInv'
  <1>1. /\ torn' = (torn \/ \E w \in Writers : writer[w].at \in Writing)
        /\ writer' = [w \in Writers |-> Resting]
        /\ UNCHANGED <<dir, meta, prompt, snapshots, rewritten, overlapped>>
    BY DEF RoleRestart, Writing
  <1>2. /\ writer' \in [Writers -> WriterState]
        /\ \A w \in Writers : /\ ~ Busy(w)' /\ writer'[w].at \notin Writing
                              /\ writer'[w].at \notin Copying
    BY <1>1, RestingIs DEF Busy
  <1>3. RoleTypes'
    BY <1>1, <1>2 DEF RoleInv, RoleTypes
  <1>4. ASSUME ~ overlapped' PROVE HistoryKept'
    <2>1. HistoryKept
      BY <1>1, <1>4 DEF RoleInv
    <2>2. OneWriter' /\ Halfway'
      BY <1>2 DEF OneWriter, Halfway, Writing
    <2>3. NewestVersion'
      BY <1>1, <1>2, <2>1 DEF HistoryKept, NewestVersion
    <2>4. ~ torn' => ~ torn /\ \A w \in Writers : writer[w].at \notin {"prompt", "snapshot"}
      BY <1>1 DEF Writing
    <2>5. InOnePiece'
      BY <1>1, <2>1, <2>4 DEF HistoryKept, InOnePiece, Readable
    <2> QED
      BY <1>1, <2>1, <2>2, <2>3, <2>5 DEF HistoryKept
  <1> QED
    BY <1>3, <1>4 DEF RoleInv

\* The type invariant and the history of a role, with what the next update
\* counts on: as long as nobody has written at the same time, who writes is
\* alone and finds what it has written, and the version it writes is newer than
\* every snapshot, whether role.yaml gives one or not (roles/service.go:263-300).
THEOREM RoleInvariant == RoleFilesSpec => []RoleInv
  <1>1. RoleInv /\ [RoleNext]_roleVars => RoleInv'
    <2> SUFFICES ASSUME RoleInv, [RoleNext]_roleVars PROVE RoleInv'
      OBVIOUS
    <2>1. CASE UNCHANGED roleVars
      BY <2>1 DEF roleVars, RoleInv, RoleTypes, HistoryKept, OneWriter, Busy, NewestVersion,
         Halfway,
         InOnePiece, Readable
    <2>2. ASSUME NEW w \in Writers, CreateRole(w) \/ ReadForUpdate(w) PROVE RoleInv'
      BY <2>2, BeginningKeeps
    <2>3. ASSUME NEW w \in Writers, UpdateRole(w) PROVE RoleInv'
      BY <2>3, UpdateKeeps
    <2>4. ASSUME NEW w \in Writers, WriteMeta(w) PROVE RoleInv'
      BY <2>4, MetaKeeps
    <2>5. ASSUME NEW w \in Writers, WritePrompt(w) PROVE RoleInv'
      BY <2>5, PromptKeeps
    <2>6. ASSUME NEW w \in Writers, WriteSnapshot(w) PROVE RoleInv'
      BY <2>6, SnapshotKeeps
    <2>7. ASSUME NEW w \in Writers, InstallRole(w) PROVE RoleInv'
      BY <2>7, InstallKeeps
    <2>8. ASSUME NEW w \in Writers, CopyPrompt(w) \/ CopyMeta(w) PROVE RoleInv'
      BY <2>8, CopyingKeeps
    <2>9. ASSUME NEW w \in Writers, DelegateLooks(w) \/ DelegateStores(w) PROVE RoleInv'
      BY <2>9, DelegatesKeep
    <2>10. CASE EditByHand
      BY <2>10, EditKeeps
    <2>11. CASE RoleRestart
      BY <2>11, RoleRestartKeeps
    <2> QED
      BY <2>1, <2>2, <2>3, <2>4, <2>5, <2>6, <2>7, <2>8, <2>9, <2>10, <2>11 DEF RoleNext
  <1> QED
    BY RoleInitially, <1>1, PTL DEF RoleFilesSpec

\* As long as nobody has written the role at the same time, no version's snapshot
\* is ever replaced by a different one, and a role at rest says, file by file,
\* what the snapshot of its version says, for any number of writers, versions,
\* failed writes, restarts and edits by hand (roles/service.go:168-300).
THEOREM RolesKeepTheirHistory == RoleFilesSpec => []RoleHistoryIsKept
  <1>1. RoleInv => RoleHistoryIsKept
    <2> SUFFICES ASSUME RoleInv, ~ overlapped PROVE RoleHistoryIsKept
      BY DEF RoleHistoryIsKept
    <2>1. HistoryKept
      BY DEF RoleInv
    <2>2. Quiet => \A w \in Writers : writer[w].at \notin {"prompt", "snapshot"}
      BY DEF Quiet
    <2> QED
      BY <2>1, <2>2 DEF HistoryKept, InOnePiece, RoleHistoryIsKept
  <1> QED
    BY <1>1, RoleInvariant, PTL

-----------------------------------------------------------------------------
\* FileTools

CallState ==
  [at : {"idle", "read", "dirs", "write", "filter", "walk", "scan"},
   tool : FileToolNames \cup {"none"}, path : Paths \cup {<<>>}, left : SUBSET Paths,
   file : Paths \cup {<<>>}]

Nodes == [kind : {"none", "dir", "file", "link"}, to : LinkTargets \cup {<<>>}]

IsLink(q) == tree[q].kind = "link"

\* Links are at one place only, and lead to no other link.
LinksLead ==
  /\ Link \notin LinkTargets
  /\ \A q \in Paths : IsLink(q) => q = Link /\ tree[q].to \in LinkTargets

Allowed(t, tool, r) == Within(r) /\ ~ ProtectedPath(r) /\ Permitted(t, tool, r)

\* What a call is about to use was checked, and is still where it was.
Checked(t, c) ==
  /\ c \in CallState
  /\ c.at \in {"read", "dirs", "write"} => Allowed(t, c.tool, Real(c.path))
  /\ c.at = "filter" => c.tool = "glob"
  /\ c.at \in {"walk", "scan"} => c.tool = "grep"
  /\ c.at = "scan" => Allowed(t, "grep", Real(c.file))

FilesInv ==
  /\ tree \in [Paths -> Nodes] /\ LinksLead
  /\ DOMAIN call = Turns /\ \A t \in Turns : Checked(t, call[t])
  /\ ToolsKeepToPolicy

-----------------------------------------------------------------------------

\* Whatever a path is, no link is where it leads.
LEMMA RealIsNoLink ==
  ASSUME tree \in [Paths -> Nodes], LinksLead, NEW p
  PROVE  Real(p) \in Paths => ~ IsLink(Real(p))
  <1> DEFINE q == Parent(Leads, p)
  <1>1. Real(p) = IF q \in Paths THEN Leads[q] ELSE q
    BY DEF Real, Follow
  <1> HIDE DEF q
  <1>2. CASE q \in Paths /\ IsLink(q)
    <2>1. Real(p) = tree[q].to /\ tree[q].to \in LinkTargets
      BY <1>1, <1>2 DEF Leads, LinksLead, IsLink
    <2> QED
      BY <2>1 DEF LinksLead
  <1>3. CASE q \in Paths /\ ~ IsLink(q)
    BY <1>1, <1>3 DEF Leads, IsLink
  <1>4. CASE q \notin Paths
    BY <1>1, <1>4
  <1> QED
    BY <1>2, <1>3, <1>4

\* A step that neither makes nor moves a link leaves every path leading where it led.
LEMMA LinksHold ==
  ASSUME \A q \in Paths : tree'[q] = tree[q] \/ (~ IsLink(q) /\ ~ IsLink(q)')
  PROVE  Leads' = Leads
  BY DEF Leads, IsLink

\* The step of a tool.
LEMMA ToolStep ==
  ASSUME FilesInv, NEW t \in Turns, NEW c, Checked(t, c), call' = [call EXCEPT ![t] = c],
         tree' \in [Paths -> Nodes],
         \A q \in Paths : tree'[q] = tree[q] \/ (~ IsLink(q) /\ ~ IsLink(q)'),
         ToolsKeepToPolicy'
  PROVE  FilesInv'
  <1>1. Leads' = Leads
    BY LinksHold
  <1>2. LinksLead'
    BY DEF FilesInv, LinksLead, IsLink
  <1>3. DOMAIN call' = Turns
    BY DEF FilesInv
  <1>4. ASSUME NEW u \in Turns PROVE Checked(u, call[u])'
    <2>1. Checked(u, call'[u])
      BY <1>4 DEF FilesInv
    <2> HIDE DEF FilesInv
    <2>2. \A p : Follow(Leads', Parent(Leads', p)) = Follow(Leads, Parent(Leads, p))
      BY <1>1
    <2> QED
      BY <2>1, <2>2 DEF Checked, Real, Allowed, Within, ProtectedPath, Permitted
  <1> QED
    BY <1>2, <1>3, <1>4 DEF FilesInv

LEMMA Untouching == TouchNothing => ToolsKeepToPolicy'
  BY DEF TouchNothing, Untouched, ToolsKeepToPolicy

LEMMA Touching ==
  ASSUME NEW t, NEW files, Touch(t, files), \A r \in files : Allowed(t, call[t].tool, r)
  PROVE  ToolsKeepToPolicy'
  <1>1. touched'.turn = t /\ touched'.tool = call[t].tool /\ touched'.files = files
    BY DEF Touch
  <1> QED
    BY <1>1 DEF ToolsKeepToPolicy, Allowed, Within, ProtectedPath, Permitted

\* A tool that writes nothing: what it does next was checked, and it keeps to the policy.
LEMMA ReadingStep ==
  ASSUME FilesInv, NEW t \in Turns, NEW c, Checked(t, c), Go(t, c), UNCHANGED tree,
         ToolsKeepToPolicy'
  PROVE  FilesInv'
  <1>1. tree' \in [Paths -> Nodes] /\ call' = [call EXCEPT ![t] = c]
    BY DEF FilesInv, Go
  <1> QED
    BY <1>1, ToolStep

LEMMA NothingToCheck == \A t \in Turns : Checked(t, NoCall)
  BY DEF Checked, NoCall, CallState

LEMMA CheckFileKeeps == ASSUME FilesInv, NEW t \in Turns, CheckFile(t) PROVE FilesInv'
  <1>1. PICK tool \in FileToolNames \ {"glob", "grep"}, p \in Paths :
          /\ Check(t, tool, p, tool = "file_write")
          /\ Go(t, [NoCall EXCEPT !.tool = tool, !.path = p,
                                  !.at = IF tool = "file_write" THEN "dirs" ELSE "read"])
    BY DEF CheckFile
  <1> DEFINE c == [NoCall EXCEPT !.tool = tool, !.path = p,
                                 !.at = IF tool = "file_write" THEN "dirs" ELSE "read"]
  <1>2. c \in CallState /\ c.at \in {"dirs", "read"} /\ c.tool = tool /\ c.path = p
    BY <1>1 DEF CallState, NoCall
  <1>3. Allowed(t, tool, Real(p))
    BY <1>1 DEF Check, Allowed
  <1>4. Checked(t, c)
    BY <1>2, <1>3 DEF Checked
  <1>5. UNCHANGED tree /\ ToolsKeepToPolicy'
    BY Untouching DEF CheckFile
  <1> QED
    BY <1>1, <1>4, <1>5, ReadingStep

LEMMA ReadFileKeeps == ASSUME FilesInv, NEW t \in Turns, ReadFile(t) PROVE FilesInv'
  <1> DEFINE r == Real(call[t].path)
             c == [call[t] EXCEPT !.at = "write"]
  <1>1. call[t].at = "read" /\ Checked(t, call[t]) /\ UNCHANGED tree
    BY DEF ReadFile, FilesInv
  <1>2. Allowed(t, call[t].tool, r)
    BY <1>1 DEF Checked
  <1>3. ToolsKeepToPolicy'
    <2>1. CASE Touch(t, {r})
      BY <1>2, <2>1, Touching
    <2>2. CASE TouchNothing
      BY <2>2, Untouching
    <2> QED
      BY <2>1, <2>2 DEF ReadFile
  <1>4. CASE Go(t, NoCall)
    BY <1>1, <1>3, <1>4, NothingToCheck, ReadingStep
  <1>5. CASE Go(t, c)
    <2>1. c \in CallState /\ c.at = "write" /\ c.tool = call[t].tool /\ c.path = call[t].path
      BY <1>1 DEF Checked, CallState
    <2>2. Checked(t, c)
      BY <1>2, <2>1 DEF Checked
    <2> QED
      BY <1>1, <1>3, <1>5, <2>2, ReadingStep
  <1> QED
    BY <1>4, <1>5 DEF ReadFile

\* Directories are made where no link is.
LEMMA MakeDirsKeeps == ASSUME FilesInv, NEW t \in Turns, MakeDirs(t) PROVE FilesInv'
  <1> DEFINE above == {Real(q) : q \in {q \in Paths : IsStrictPrefix(q, call[t].path)}}
             c == [call[t] EXCEPT !.at = "write"]
  <1>1. call[t].at = "dirs" /\ Checked(t, call[t]) /\ tree \in [Paths -> Nodes] /\ LinksLead
    BY DEF MakeDirs, FilesInv
  <1>2. ToolsKeepToPolicy'
    BY Untouching DEF MakeDirs
  <1>3. CASE Go(t, NoCall) /\ UNCHANGED tree
    BY <1>2, <1>3, NothingToCheck, ReadingStep
  <1>4. CASE /\ tree' = [r \in Paths |-> IF r \in above THEN Node("dir", <<>>) ELSE tree[r]]
             /\ Go(t, c)
    <2>1. c \in CallState /\ c.at = "write" /\ c.tool = call[t].tool /\ c.path = call[t].path
      BY <1>1 DEF Checked, CallState
    <2>2. Checked(t, c)
      BY <1>1, <2>1 DEF Checked
    <2>3. \A r \in Paths : r \in above => ~ IsLink(r)
      BY <1>1, RealIsNoLink
    <2>4. Node("dir", <<>>) \in Nodes /\ Node("dir", <<>>).kind # "link"
      BY DEF Node, Nodes
    <2> HIDE DEF above, c
    <2>5. tree' \in [Paths -> Nodes]
      BY <1>1, <1>4, <2>4
    <2>6. \A r \in Paths : tree'[r] = tree[r] \/ (~ IsLink(r) /\ ~ IsLink(r)')
      BY <1>4, <2>3, <2>4 DEF IsLink
    <2>7. call' = [call EXCEPT ![t] = c]
      BY <1>4 DEF Go
    <2> QED
      BY <1>2, <2>2, <2>5, <2>6, <2>7, ToolStep
  <1> QED
    BY <1>3, <1>4 DEF MakeDirs

\* A file is written where the check has found that it may be.
LEMMA WriteFileKeeps == ASSUME FilesInv, NEW t \in Turns, WriteFile(t) PROVE FilesInv'
  <1> DEFINE r == Real(call[t].path)
  <1>1. call[t].at = "write" /\ Checked(t, call[t]) /\ tree \in [Paths -> Nodes] /\ LinksLead
    BY DEF WriteFile, FilesInv
  <1>2. Go(t, NoCall)
    BY DEF WriteFile
  <1>3. CASE UNCHANGED tree /\ TouchNothing
    BY <1>2, <1>3, NothingToCheck, Untouching, ReadingStep
  <1>4. CASE /\ tree' = [q \in Paths |-> IF q = r THEN Node("file", <<>>) ELSE tree[q]]
             /\ Touch(t, {r})
    <2>1. Allowed(t, call[t].tool, r)
      BY <1>1 DEF Checked
    <2>2. ToolsKeepToPolicy'
      BY <1>4, <2>1, Touching
    <2>3. r \in Paths => ~ IsLink(r)
      BY <1>1, RealIsNoLink
    <2>4. Node("file", <<>>) \in Nodes /\ Node("file", <<>>).kind # "link"
      BY DEF Node, Nodes
    <2> HIDE DEF r
    <2>5. tree' \in [Paths -> Nodes]
      BY <1>1, <1>4, <2>4
    <2>6. \A q \in Paths : tree'[q] = tree[q] \/ (~ IsLink(q) /\ ~ IsLink(q)')
      BY <1>4, <2>3, <2>4 DEF IsLink
    <2>7. call' = [call EXCEPT ![t] = NoCall]
      BY <1>2 DEF Go
    <2> QED
      BY <2>2, <2>5, <2>6, <2>7, NothingToCheck, ToolStep
  <1> QED
    BY <1>3, <1>4 DEF WriteFile

\* What glob tells of was checked when it was left in.
LEMMA GlobKeeps ==
  ASSUME FilesInv, NEW t \in Turns, ListMatches(t) \/ FilterMatches(t) PROVE FilesInv'
  <1>1. CASE ListMatches(t)
    <2> DEFINE left == {p \in Paths : KindAt(Real(p)) # "none"}
               c == [NoCall EXCEPT !.tool = "glob", !.at = "filter", !.left = left]
    <2>1. Go(t, c) /\ UNCHANGED tree /\ ToolsKeepToPolicy'
      BY <1>1, Untouching DEF ListMatches
    <2>2. left \in SUBSET Paths
      OBVIOUS
    <2> HIDE DEF left
    <2>3. Checked(t, c)
      BY <2>2 DEF Checked, CallState, NoCall, FileToolNames
    <2> QED
      BY <2>1, <2>3, ReadingStep
  <1>2. CASE FilterMatches(t)
    <2> DEFINE kept == {p \in call[t].left : Check(t, "glob", p, FALSE)}
    <2>1. call[t].tool = "glob"
      BY <1>2 DEF FilterMatches, FilesInv, Checked
    <2>2. \A r \in {Real(p) : p \in kept} : Allowed(t, call[t].tool, r)
      BY <2>1 DEF Check, Allowed
    <2>3. ToolsKeepToPolicy'
      BY <1>2, <2>2, Touching DEF FilterMatches
    <2> QED
      BY <1>2, <2>3, NothingToCheck, ReadingStep DEF FilterMatches
  <1> QED
    BY <1>1, <1>2

\* grep checks each file that its walk comes upon before it looks into it.
LEMMA SearchKeeps ==
  ASSUME FilesInv, NEW t \in Turns, StartSearch(t) \/ CheckNext(t) \/ ScanFile(t) \/ EndSearch(t)
  PROVE  FilesInv'
  <1>1. Checked(t, call[t])
    BY DEF FilesInv
  <1>2. CASE StartSearch(t)
    <2>1. PICK start \in Paths \cup {<<>>} :
            Go(t, [NoCall EXCEPT !.tool = "grep", !.at = "walk", !.path = start, !.left = Paths])
      BY <1>2 DEF StartSearch
    <2> DEFINE c == [NoCall EXCEPT !.tool = "grep", !.at = "walk", !.path = start, !.left = Paths]
    <2>2. Checked(t, c)
      BY <2>1 DEF Checked, CallState, NoCall, FileToolNames
    <2>3. UNCHANGED tree /\ ToolsKeepToPolicy'
      BY <1>2, Untouching DEF StartSearch
    <2> QED
      BY <2>1, <2>2, <2>3, ReadingStep
  <1>3. CASE CheckNext(t)
    <2>1. PICK p \in call[t].left \cap Walked(call[t].path) :
            Go(t, [call[t] EXCEPT !.left = @ \ {p}, !.file = p,
                                  !.at = IF Check(t, "grep", p, FALSE) THEN "scan" ELSE "walk"])
      BY <1>3 DEF CheckNext
    <2> DEFINE c == [call[t] EXCEPT !.left = @ \ {p}, !.file = p,
                                    !.at = IF Check(t, "grep", p, FALSE) THEN "scan" ELSE "walk"]
    <2>2. p \in Paths /\ call[t].at = "walk"
      BY <1>1, <1>3 DEF CheckNext, Checked, CallState
    <2>3. /\ c \in CallState /\ c.tool = "grep" /\ c.file = p
          /\ c.at = "walk" \/ (c.at = "scan" /\ Check(t, "grep", p, FALSE))
      BY <1>1, <2>2 DEF Checked, CallState
    <2>4. Check(t, "grep", p, FALSE) => Allowed(t, "grep", Real(p))
      BY DEF Check, Allowed
    <2>5. Checked(t, c)
      BY <2>3, <2>4 DEF Checked
    <2>6. UNCHANGED tree /\ ToolsKeepToPolicy'
      BY <1>3, Untouching DEF CheckNext
    <2> QED
      BY <2>1, <2>5, <2>6, ReadingStep
  <1>4. CASE ScanFile(t)
    <2> DEFINE r == Real(call[t].file)
               c == [call[t] EXCEPT !.at = "walk"]
    <2>1. call[t].at = "scan" /\ Go(t, c) /\ UNCHANGED tree
      BY <1>4 DEF ScanFile
    <2>2. Allowed(t, call[t].tool, r)
      BY <1>1, <2>1 DEF Checked
    <2>3. ToolsKeepToPolicy'
      <3>1. CASE Touch(t, {r})
        BY <2>2, <3>1, Touching
      <3>2. CASE TouchNothing
        BY <3>2, Untouching
      <3> QED
        BY <1>4, <3>1, <3>2 DEF ScanFile
    <2>4. c \in CallState /\ c.at = "walk" /\ c.tool = "grep"
      BY <1>1, <2>1 DEF Checked, CallState
    <2>5. Checked(t, c)
      BY <2>4 DEF Checked
    <2> QED
      BY <2>1, <2>3, <2>5, ReadingStep
  <1>5. CASE EndSearch(t)
    BY <1>5, NothingToCheck, Untouching, ReadingStep DEF EndSearch
  <1> QED
    BY <1>2, <1>3, <1>4, <1>5

\* Links come and go while nobody has checked a path.
LEMMA RelinkKeeps == ASSUME FilesInv, Relink PROVE FilesInv'
  <1>1. /\ \A t \in Turns : call[t].at = "idle" /\ Checked(t, call[t])
        /\ call' = call /\ ToolsKeepToPolicy'
    BY Untouching DEF Relink, FilesInv
  <1>2. PICK n \in Nodes : /\ tree' = [tree EXCEPT ![Link] = n]
                           /\ n.kind = "link" => n.to \in LinkTargets
    <2>1. /\ Node("none", <<>>) \in Nodes /\ Node("none", <<>>).kind # "link"
          /\ \A to \in LinkTargets : Node("link", to) \in Nodes /\ Node("link", to).to = to
      BY DEF Node, Nodes
    <2>2. CASE tree' = [tree EXCEPT ![Link] = Node("none", <<>>)]
      BY <2>1, <2>2
    <2>3. CASE \E to \in LinkTargets : tree' = [tree EXCEPT ![Link] = Node("link", to)]
      BY <2>1, <2>3
    <2> QED
      BY <2>2, <2>3 DEF Relink
  <1>3. tree' \in [Paths -> Nodes]
    BY <1>2 DEF FilesInv
  <1>4. LinksLead'
    BY <1>2, FileParameters DEF FilesInv, LinksLead, IsLink
  <1>5. \A t \in Turns : Checked(t, call[t])'
    BY <1>1 DEF Checked
  <1> QED
    BY <1>1, <1>3, <1>4, <1>5 DEF FilesInv

\* At the start there are no links.
LEMMA FilesInitially == FilesInit => FilesInv
  <1> SUFFICES ASSUME FilesInit PROVE FilesInv
    OBVIOUS
  <1>1. \A k \in {"none", "dir", "file"} : Node(k, <<>>) \in Nodes /\ Node(k, <<>>).kind = k
    BY DEF Node, Nodes
  <1>2. tree \in [Paths -> Nodes] /\ \A q \in Paths : ~ IsLink(q)
    BY <1>1 DEF FilesInit, IsLink
  <1>3. Link \notin LinkTargets
    BY FileParameters DEF FilesInit, Outside
  <1>4. ToolsKeepToPolicy
    BY DEF FilesInit, Untouched, ToolsKeepToPolicy
  <1>5. DOMAIN call = Turns /\ \A t \in Turns : Checked(t, call[t])
    BY NothingToCheck DEF FilesInit
  <1> QED
    BY <1>2, <1>3, <1>4, <1>5 DEF FilesInv, LinksLead

\* What every tool is about to read, write or tell of was checked where it really
\* is, and still is there, whatever other turns' tools have made since
\* (tools/namespace_files.go:732-821).
THEOREM FilesInvariant == FilesSpec => []FilesInv
  <1>1. FilesInv /\ [FilesNext]_fileVars => FilesInv'
    <2> SUFFICES ASSUME FilesInv, [FilesNext]_fileVars PROVE FilesInv'
      OBVIOUS
    <2>1. CASE UNCHANGED fileVars
      <3>1. tree' = tree /\ call' = call /\ touched' = touched
        BY <2>1 DEF fileVars
      <3>2. Leads' = Leads /\ LinksLead' /\ ToolsKeepToPolicy'
        BY <3>1 DEF Leads, FilesInv, LinksLead, IsLink, ToolsKeepToPolicy, Within,
           ProtectedPath,
           Permitted
      <3>3. \A t \in Turns : Checked(t, call[t])'
        BY <3>1, <3>2 DEF FilesInv, Checked, Real, Allowed, Within, ProtectedPath, Permitted
      <3> QED
        BY <3>1, <3>2, <3>3 DEF FilesInv
    <2>2. ASSUME NEW t \in Turns, CheckFile(t) PROVE FilesInv'
      BY <2>2, CheckFileKeeps
    <2>3. ASSUME NEW t \in Turns, ReadFile(t) PROVE FilesInv'
      BY <2>3, ReadFileKeeps
    <2>4. ASSUME NEW t \in Turns, MakeDirs(t) PROVE FilesInv'
      BY <2>4, MakeDirsKeeps
    <2>5. ASSUME NEW t \in Turns, WriteFile(t) PROVE FilesInv'
      BY <2>5, WriteFileKeeps
    <2>6. ASSUME NEW t \in Turns, ListMatches(t) \/ FilterMatches(t) PROVE FilesInv'
      BY <2>6, GlobKeeps
    <2>7. ASSUME NEW t \in Turns,
                 StartSearch(t) \/ CheckNext(t) \/ ScanFile(t) \/ EndSearch(t)
          PROVE  FilesInv'
      BY <2>7, SearchKeeps
    <2>8. CASE Relink
      BY <2>8, RelinkKeeps
    <2> QED
      BY <2>1, <2>2, <2>3, <2>4, <2>5, <2>6, <2>7, <2>8 DEF FilesNext
  <1> QED
    BY FilesInitially, <1>1, PTL DEF FilesSpec

\* What a tool reads, writes or tells of is in the workspace, in no protected area
\* and permitted to its role, where the file really is, for any turns, roles, paths
\* and link targets (tools/policy.go, tools/namespace_files.go).
THEOREM FilesKeepToPolicy == FilesSpec => []ToolsKeepToPolicy
  <1>1. FilesInv => ToolsKeepToPolicy
    BY DEF FilesInv
  <1> QED
    BY <1>1, FilesInvariant, PTL

-----------------------------------------------------------------------------
\* EventStream

(* Numbers that come in order *)

LEMMA NothingAscends == Ascends(<<>>) /\ ToSet(<<>>) = {} /\ <<>> \in Seq(Nat)
  BY DEF Ascends, ToSet

LEMMA AscendsOn ==
  ASSUME NEW g \in Seq(Nat), Ascends(g), NEW n \in Nat, \A m \in ToSet(g) : m < n
  PROVE  Ascends(Append(g, n)) /\ ToSet(Append(g, n)) = ToSet(g) \cup {n}
  <1> DEFINE a == Append(g, n)
  <1>1. /\ DOMAIN a = 1 .. Len(g) + 1 /\ DOMAIN g = 1 .. Len(g) /\ Len(g) \in Nat
        /\ \A i \in 1 .. Len(g) : a[i] = g[i] /\ g[i] \in Nat
        /\ a[Len(g) + 1] = n
    OBVIOUS
  <1> HIDE DEF a
  <1>2. \A i \in 1 .. Len(g) : a[i] < n
    BY <1>1 DEF ToSet
  <1>3. ASSUME NEW i \in DOMAIN a, NEW j \in DOMAIN a, i < j
        PROVE  a[i] < a[j]
    <2>1. i \in 1 .. Len(g)
      BY <1>1, <1>3
    <2>2. CASE j = Len(g) + 1
      BY <1>1, <1>2, <2>1, <2>2
    <2>3. CASE j \in 1 .. Len(g)
      <3>1. g[i] < g[j]
        BY <1>1, <1>3, <2>1, <2>3 DEF Ascends
      <3> QED
        BY <1>1, <2>1, <2>3, <3>1
    <2> QED
      BY <1>1, <2>2, <2>3
  <1>4. ToSet(a) = ToSet(g) \cup {n}
    BY <1>1 DEF ToSet
  <1> QED
    BY <1>3, <1>4 DEF Ascends, a

LEMMA AscendsAfterHead ==
  ASSUME NEW p \in Seq(Nat), Ascends(p), p # <<>>
  PROVE  /\ Head(p) \in Nat /\ Tail(p) \in Seq(Nat) /\ Ascends(Tail(p))
         /\ ToSet(p) = ToSet(Tail(p)) \cup {Head(p)}
         /\ \A m \in ToSet(Tail(p)) : Head(p) < m
  <1> DEFINE t == Tail(p)
  <1>1. /\ DOMAIN p = 1 .. Len(p) /\ Len(p) \in Nat /\ Len(p) >= 1 /\ Head(p) = p[1]
        /\ t \in Seq(Nat) /\ DOMAIN t = 1 .. Len(p) - 1
        /\ \A i \in 1 .. Len(p) - 1 : t[i] = p[i + 1]
        /\ \A i \in 1 .. Len(p) : p[i] \in Nat
    OBVIOUS
  <1> HIDE DEF t
  <1>2. Ascends(t)
    <2> SUFFICES ASSUME NEW i \in DOMAIN t, NEW j \in DOMAIN t, i < j PROVE t[i] < t[j]
      BY DEF Ascends
    <2>1. i \in 1 .. Len(p) - 1 /\ j \in 1 .. Len(p) - 1
      BY <1>1
    <2>2. i + 1 \in DOMAIN p /\ j + 1 \in DOMAIN p
      <3>1. Len(p) \in Nat /\ DOMAIN p = 1 .. Len(p)
        BY <1>1
      <3> QED
        BY <2>1, <3>1
    <2>3. i + 1 < j + 1
      BY <2>1
    <2> QED
      BY <1>1, <2>1, <2>2, <2>3 DEF Ascends
  <1>3. \A m \in ToSet(t) : p[1] < m
    <2> SUFFICES ASSUME NEW i \in DOMAIN t PROVE p[1] < t[i]
      BY DEF ToSet
    <2>1. i \in 1 .. Len(p) - 1
      BY <1>1
    <2>2. i + 1 \in 1 .. Len(p) /\ 1 \in 1 .. Len(p) /\ 1 < i + 1
      <3>1. Len(p) \in Nat
        BY <1>1
      <3> QED
        BY <2>1, <3>1
    <2> QED
      BY <1>1, <2>1, <2>2 DEF Ascends
  <1>4. ToSet(p) = ToSet(t) \cup {p[1]}
    <2>1. ASSUME NEW i \in DOMAIN p, i # 1 PROVE p[i] \in ToSet(t)
      <3>2. Len(p) \in Nat /\ i \in 1 .. Len(p) /\ DOMAIN t = 1 .. Len(p) - 1
        BY <1>1
      <3>3. i - 1 \in 1 .. Len(p) - 1 /\ (i - 1) + 1 = i
        BY <2>1, <3>2
      <3>1. i - 1 \in DOMAIN t /\ t[i - 1] = p[i]
        BY <1>1, <3>2, <3>3
      <3> QED
        BY <3>1 DEF ToSet
    <2>2. ASSUME NEW i \in DOMAIN t PROVE t[i] \in ToSet(p)
      <3>2. Len(p) \in Nat /\ i \in 1 .. Len(p) - 1 /\ DOMAIN p = 1 .. Len(p)
        BY <1>1
      <3>1. i + 1 \in DOMAIN p
        BY <3>2
      <3> QED
        BY <1>1, <3>1 DEF ToSet
    <2>3. p[1] \in ToSet(p)
      BY <1>1 DEF ToSet
    <2> QED
      BY <2>1, <2>2, <2>3 DEF ToSet
  <1> QED
    BY <1>1, <1>2, <1>3, <1>4 DEF t

LEMMA AscendsSoFar ==
  ASSUME NEW p \in Seq(Nat), Ascends(p), NEW n \in 0 .. Len(p)
  PROVE  /\ SubSeq(p, 1, n) \in Seq(Nat) /\ Ascends(SubSeq(p, 1, n))
         /\ ToSet(SubSeq(p, 1, n)) \subseteq ToSet(p)
         /\ \A m \in ToSet(p), x \in ToSet(SubSeq(p, 1, n)) : m <= x => m \in ToSet(SubSeq(p, 1, n))
  <1> DEFINE t == SubSeq(p, 1, n)
  <1>1. /\ DOMAIN p = 1 .. Len(p) /\ Len(p) \in Nat
        /\ t \in Seq(Nat) /\ DOMAIN t = 1 .. n /\ \A i \in 1 .. n : t[i] = p[i] /\ i \in 1 .. Len(p)
        /\ \A i \in 1 .. Len(p) : p[i] \in Nat
    OBVIOUS
  <1> HIDE DEF t
  <1>2. Ascends(t) /\ ToSet(t) \subseteq ToSet(p)
    BY <1>1 DEF Ascends, ToSet
  <1>3. ASSUME NEW i \in DOMAIN p, NEW j \in DOMAIN t, p[i] <= t[j]
        PROVE  p[i] \in ToSet(t)
    <2>1. i <= j
      <3>1. CASE i > j
        <4>1. j \in DOMAIN p /\ t[j] = p[j]
          BY <1>1
        <4>2. p[j] < p[i]
          BY <1>1, <3>1, <4>1 DEF Ascends
        <4> QED
          BY <1>1, <1>3, <4>1, <4>2
      <3> QED
        BY <1>1, <3>1
    <2>2. i \in DOMAIN t /\ t[i] = p[i]
      BY <1>1, <2>1
    <2> QED
      BY <2>2 DEF ToSet
  <1> QED
    BY <1>1, <1>2, <1>3 DEF ToSet, t

LEMMA AscendsJoined ==
  ASSUME NEW p \in Seq(Nat), Ascends(p), NEW q \in Seq(Nat), Ascends(q),
         \A m \in ToSet(p), x \in ToSet(q) : m < x
  PROVE  p \o q \in Seq(Nat) /\ Ascends(p \o q) /\ ToSet(p \o q) = ToSet(p) \cup ToSet(q)
  <1> DEFINE t == p \o q
             a == Len(p)
  <1>1. /\ DOMAIN p = 1 .. a /\ a \in Nat /\ DOMAIN q = 1 .. Len(q) /\ Len(q) \in Nat
        /\ t \in Seq(Nat) /\ DOMAIN t = 1 .. a + Len(q)
        /\ \A i \in 1 .. a : t[i] = p[i] /\ i \in DOMAIN t
    OBVIOUS
  <1>2. \A i \in DOMAIN t : i > a => t[i] = q[i - a] /\ i - a \in DOMAIN q
    OBVIOUS
  <1>3. \A j \in DOMAIN q : a + j \in DOMAIN t /\ t[a + j] = q[j]
    OBVIOUS
  <1> HIDE DEF t, a
  <1>4. Ascends(t)
    <2> SUFFICES ASSUME NEW i \in DOMAIN t, NEW j \in DOMAIN t, i < j PROVE t[i] < t[j]
      BY DEF Ascends
    <2>1. CASE j <= a
      <3>1. i \in DOMAIN p /\ j \in DOMAIN p
        BY <1>1, <2>1
      <3> QED
        BY <1>1, <3>1 DEF Ascends
    <2>2. CASE i <= a /\ j > a
      <3>1. i \in DOMAIN p /\ t[i] = p[i] /\ t[j] \in ToSet(q)
        BY <1>1, <1>2, <2>2 DEF ToSet
      <3> QED
        BY <3>1 DEF ToSet
    <2>3. CASE i > a
      <3>1. j > a /\ i - a < j - a
        BY <1>1, <2>3
      <3>2. i - a \in DOMAIN q /\ j - a \in DOMAIN q /\ t[i] = q[i - a] /\ t[j] = q[j - a]
        BY <1>2, <2>3, <3>1
      <3> QED
        BY <3>1, <3>2 DEF Ascends
    <2> QED
      BY <1>1, <2>1, <2>2, <2>3
  <1>5. ToSet(t) = ToSet(p) \cup ToSet(q)
    <2>1. ASSUME NEW i \in DOMAIN t PROVE t[i] \in ToSet(p) \cup ToSet(q)
      <3>1. CASE i <= a
        <4>1. i \in DOMAIN p /\ t[i] = p[i]
          BY <1>1, <3>1
        <4> QED
          BY <4>1 DEF ToSet
      <3>2. CASE i > a
        BY <1>2, <3>2 DEF ToSet
      <3> QED
        BY <1>1, <3>1, <3>2
    <2>2. ASSUME NEW i \in DOMAIN p PROVE p[i] \in ToSet(t)
      <3>1. i \in DOMAIN t /\ t[i] = p[i]
        BY <1>1
      <3> QED
        BY <3>1 DEF ToSet
    <2>3. ASSUME NEW i \in DOMAIN q PROVE q[i] \in ToSet(t)
      BY <1>3 DEF ToSet
    <2> QED
      BY <2>1, <2>2, <2>3 DEF ToSet
  <1> QED
    BY <1>1, <1>4, <1>5 DEF t

-----------------------------------------------------------------------------
(* What a client has, and what is on its way *)

LinkState == [up : BOOLEAN, after : Nat, pipe : Seq(Nat)]

\* A client that started after number `start' has what came since then up to its
\* cursor, but for the numbers it has given to messages of its own ...
Has(events, start, cursor, given) ==
  /\ \A m \in events : m \in Own /\ start < m /\ m <= cursor
  /\ \A m \in Nat : start < m /\ m <= cursor => m \in events \cup given \cup (DOMAIN log \ Own)

\* ... what is on its way follows on that, and leaves nothing out ...
FollowsOn(events, start, cursor, coming) ==
  /\ \A m \in coming : m \in Own /\ start < m
  /\ \A n \in events, m \in coming : n < m
  /\ \A n \in coming, m \in Own : cursor < m /\ m <= n => m \in coming

\* ... and reaches to the last number that the server has sent.
Reaches(events, start, cursor, coming, after) ==
  /\ \A m \in events \cup coming : m <= after
  /\ start <= after /\ (after <= Len(log) \/ after <= cursor)
  /\ \A m \in Own : cursor < m /\ m <= after => m \in coming

Fits(got, start, cursor, given, l) ==
  /\ start <= cursor
  /\ Ascends(got) /\ Ascends(l.pipe)
  /\ Has(ToSet(got), start, cursor, given)
  /\ FollowsOn(ToSet(got), start, cursor, ToSet(l.pipe))
  /\ l.up => Reaches(ToSet(got), start, cursor, ToSet(l.pipe), l.after)

LogIs == log \in Seq({"delta", "end", "foreign"})

LEMMA OwnIsInLog ==
  ASSUME LogIs
  PROVE  /\ Len(log) \in Nat /\ DOMAIN log = 1 .. Len(log)
         /\ \A m \in Own : m \in DOMAIN log /\ m \in Nat /\ 1 <= m /\ m <= Len(log) /\ log[m] # "foreign"
  BY DEF LogIs, Own

\* A client starts at a number, without anything on its way.
LEMMA FitsAtFirst ==
  ASSUME NEW n \in Nat, NEW l \in LinkState, ~ l.up, l.pipe = <<>>
  PROVE  Fits(<<>>, n, n, {}, l)
  BY NothingAscends DEF Fits, Has, FollowsOn

\* It connects.
LEMMA FitsConnected ==
  ASSUME LogIs, NEW got \in Seq(Nat), NEW s \in Nat, NEW k \in Nat, NEW v, NEW l \in LinkState,
         Fits(got, s, k, v, l), l.pipe = <<>>
  PROVE  Fits(got, s, k, v, [up |-> TRUE, after |-> k, pipe |-> <<>>])
  <1>1. Reaches(ToSet(got), s, k, {}, k)
    BY OwnIsInLog DEF Fits, Has, Reaches
  <1> QED
    BY <1>1, NothingAscends DEF Fits

\* The connection ends, and of what was on its way the first part arrives.
LEMMA FitsBroken ==
  ASSUME LogIs, NEW got \in Seq(Nat), NEW s \in Nat, NEW k \in Nat, NEW v, NEW l \in LinkState,
         Fits(got, s, k, v, l), NEW n \in 0 .. Len(l.pipe), NEW x \in LinkState,
         ~ x.up, x.pipe = SubSeq(l.pipe, 1, n)
  PROVE  Fits(got, s, k, v, x)
  <1>1. l.pipe \in Seq(Nat) /\ Ascends(l.pipe)
    BY DEF LinkState, Fits
  <1>2. /\ Ascends(x.pipe) /\ ToSet(x.pipe) \subseteq ToSet(l.pipe)
        /\ \A m \in ToSet(l.pipe), y \in ToSet(x.pipe) : m <= y => m \in ToSet(x.pipe)
    BY <1>1, AscendsSoFar
  <1>3. FollowsOn(ToSet(got), s, k, ToSet(x.pipe))
    BY <1>2 DEF Fits, FollowsOn
  <1> QED
    BY <1>2, <1>3 DEF Fits

\* An event arrives.
LEMMA FitsReceived ==
  ASSUME LogIs, NEW got \in Seq(Nat), NEW s \in Nat, NEW k \in Nat, NEW v, NEW l \in LinkState,
         Fits(got, s, k, v, l), l.pipe # <<>>, NEW n, n = Head(l.pipe), NEW x \in LinkState,
         x.up = l.up, x.after = l.after, x.pipe = Tail(l.pipe), NEW kk \in Nat, k <= kk, n <= kk,
         kk = n \/ kk = k
  PROVE  Fits(Append(got, n), s, kk, v, x)
  <1> DEFINE P == ToSet(l.pipe)
             Q == ToSet(x.pipe)
             G == ToSet(got)
             H == ToSet(Append(got, n))
  <1>1. l.pipe \in Seq(Nat) /\ Ascends(l.pipe) /\ Ascends(got)
    BY DEF LinkState, Fits
  <1>2. n \in Nat /\ Ascends(x.pipe) /\ P = Q \cup {n} /\ \A m \in Q : n < m
    BY <1>1, AscendsAfterHead
  <1>3. Has(G, s, k, v) /\ FollowsOn(G, s, k, P) /\ (l.up => Reaches(G, s, k, P, l.after))
    BY DEF Fits
  <1>4. n \in Own /\ s < n /\ \A m \in G : m < n
    BY <1>2, <1>3 DEF FollowsOn
  <1>5. Ascends(Append(got, n)) /\ H = G \cup {n}
    BY <1>1, <1>2, <1>4, AscendsOn
  <1> HIDE DEF P, Q, G, H
  <1>6. Has(H, s, kk, v)
    <2>1. \A m \in H : m \in Own /\ s < m /\ m <= kk
      BY <1>3, <1>4, <1>5, OwnIsInLog DEF Has
    <2>2. ASSUME NEW m \in Nat, s < m, m <= kk
          PROVE  m \in H \cup v \cup (DOMAIN log \ Own)
      <3>1. CASE m <= k
        BY <1>3, <1>5, <2>2, <3>1 DEF Has
      <3>2. CASE k < m /\ m \in Own
        <4>1. m <= n
          BY <2>2, <3>2
        <4>2. m \in P
          BY <1>2, <1>3, <3>2, <4>1 DEF FollowsOn
        <4>3. m = n
          BY <1>2, <4>1, <4>2
        <4> QED
          BY <1>5, <4>3
      <3>3. CASE k < m /\ m \notin Own
        <4>1. m <= n
          BY <2>2, <3>3
        <4>2. m \in DOMAIN log
          BY <1>4, <2>2, <4>1, OwnIsInLog
        <4> QED
          BY <3>3, <4>2
      <3> QED
        BY <2>2, <3>1, <3>2, <3>3
    <2> QED
      BY <2>1, <2>2 DEF Has
  <1>7. \A m \in Own : kk < m => k < m /\ m # n
    BY OwnIsInLog, <1>2
  <1>8. FollowsOn(H, s, kk, Q)
    <2>1. \A m \in Q : m \in Own /\ s < m
      BY <1>2, <1>3 DEF FollowsOn
    <2>2. \A m \in H, y \in Q : m < y
      BY <1>2, <1>3, <1>5 DEF FollowsOn
    <2>3. \A y \in Q, m \in Own : kk < m /\ m <= y => m \in Q
      BY <1>2, <1>3, <1>7 DEF FollowsOn
    <2> QED
      BY <2>1, <2>2, <2>3 DEF FollowsOn
  <1>9. ASSUME l.up PROVE Reaches(H, s, kk, Q, l.after)
    <2>1. Reaches(G, s, k, P, l.after)
      BY <1>3, <1>9
    <2>2. l.after <= Len(log) \/ l.after <= kk
      BY <2>1, OwnIsInLog DEF Reaches, LinkState
    <2>3. \A m \in H \cup Q : m <= l.after
      BY <1>2, <1>5, <2>1 DEF Reaches
    <2> QED
      BY <1>2, <1>7, <2>1, <2>2, <2>3 DEF Reaches
  <1>10. s <= kk
    BY DEF Fits
  <1> QED
    BY <1>2, <1>5, <1>6, <1>8, <1>9, <1>10 DEF Fits, H, Q

\* A page is sent.
LEMMA FitsSent ==
  ASSUME LogIs, NEW got \in Seq(Nat), NEW s \in Nat, NEW k \in Nat, NEW v, NEW l \in LinkState,
         Fits(got, s, k, v, l), l.up, NEW last \in Own, l.after < last, NEW events \in Seq(Nat),
         Ascends(events), ToSet(events) = {n \in Own : n > l.after /\ n <= last},
         NEW x \in LinkState, x.up, x.after = last, x.pipe = l.pipe \o events
  PROVE  Fits(got, s, k, v, x)
  <1> DEFINE P == ToSet(l.pipe)
             E == ToSet(events)
             G == ToSet(got)
  <1>1. l.pipe \in Seq(Nat) /\ Ascends(l.pipe) /\ Ascends(got) /\ l.after \in Nat /\ last \in Nat /\ s <= k
    BY OwnIsInLog DEF LinkState, Fits
  <1>2. Has(G, s, k, v) /\ FollowsOn(G, s, k, P) /\ Reaches(G, s, k, P, l.after)
    BY DEF Fits
  <1>3. \A m \in P \cup G : m \in Nat /\ m <= l.after
    BY <1>2, OwnIsInLog DEF Reaches, Has, FollowsOn
  <1>4. \A m \in E : m \in Own /\ m \in Nat /\ l.after < m /\ m <= last
    BY OwnIsInLog
  <1>5. \A m \in P, y \in E : m < y
    BY <1>1, <1>3, <1>4
  <1>6. Ascends(x.pipe) /\ ToSet(x.pipe) = P \cup E
    BY <1>1, <1>5, AscendsJoined
  <1> HIDE DEF P, G
  <1>7. \A m \in Own : k < m /\ m <= last => m \in P \cup E
    BY <1>1, <1>2, OwnIsInLog DEF Reaches
  <1> HIDE DEF E
  <1>8. FollowsOn(G, s, k, P \cup E)
    <2>1. \A m \in P \cup E : m \in Own /\ s < m
      BY <1>1, <1>2, <1>4 DEF FollowsOn, Reaches
    <2>2. \A m \in G, y \in P \cup E : m < y
      BY <1>1, <1>2, <1>3, <1>4 DEF FollowsOn
    <2>3. \A y \in P \cup E : y \in Nat /\ y <= last
      BY <1>1, <1>3, <1>4
    <2>4. \A y \in P \cup E, m \in Own : k < m /\ m <= y => m \in P \cup E
      BY <1>1, <1>7, <2>3, OwnIsInLog
    <2> QED
      BY <2>1, <2>2, <2>4 DEF FollowsOn
  <1>9. Reaches(G, s, k, P \cup E, last)
    <2>1. \A m \in G \cup (P \cup E) : m <= last
      BY <1>1, <1>3, <1>4
    <2>2. s <= last /\ last <= Len(log)
      BY <1>1, <1>2, OwnIsInLog DEF Reaches
    <2> QED
      BY <1>7, <2>1, <2>2 DEF Reaches
  <1> QED
    BY <1>1, <1>2, <1>6, <1>8, <1>9 DEF Fits, G

\* The user's own message takes a number.
LEMMA FitsClaimed ==
  ASSUME LogIs, NEW got \in Seq(Nat), NEW s \in Nat, NEW k \in Nat, NEW v, NEW l \in LinkState,
         Fits(got, s, k, v, l)
  PROVE  Fits(got, s, k + 1, v \cup {k + 1}, l)
  <1> DEFINE G == ToSet(got)
             P == ToSet(l.pipe)
  <1> HIDE DEF G, P
  <1>1. ASSUME Has(G, s, k, v) PROVE Has(G, s, k + 1, v \cup {k + 1})
    BY <1>1, OwnIsInLog DEF Has
  <1>2. ASSUME FollowsOn(G, s, k, P) PROVE FollowsOn(G, s, k + 1, P)
    BY <1>2, OwnIsInLog DEF FollowsOn
  <1>3. ASSUME Reaches(G, s, k, P, l.after) PROVE Reaches(G, s, k + 1, P, l.after)
    BY <1>3, OwnIsInLog DEF Reaches, LinkState
  <1>4. s <= k => s <= k + 1
    OBVIOUS
  <1> QED
    BY <1>1, <1>2, <1>3, <1>4 DEF Fits, G, P

\* The log grows.
LEMMA FitsGrown ==
  ASSUME LogIs, NEW got \in Seq(Nat), NEW s \in Nat, NEW k \in Nat, NEW v, NEW l \in LinkState,
         Fits(got, s, k, v, l), NEW e \in {"delta", "end", "foreign"}, log' = Append(log, e)
  PROVE  Fits(got, s, k, v, l)'
  <1> DEFINE n == Len(log) + 1
             G == ToSet(got)
             P == ToSet(l.pipe)
  <1>1. /\ DOMAIN log = 1 .. Len(log) /\ DOMAIN log' = 1 .. n /\ Len(log') = n /\ Len(log) \in Nat
        /\ \A m \in DOMAIN log : log'[m] = log[m]
    BY DEF LogIs
  <1>2. Own \subseteq Own' /\ \A m \in Own' : m \in Own \/ m = n
    BY <1>1 DEF Own
  <1>3. \A m \in DOMAIN log : m \notin Own => m \in DOMAIN log' /\ m \notin Own'
    BY <1>1 DEF Own
  <1>4. l.after \in Nat /\ s <= k
    BY DEF LinkState, Fits
  <1> HIDE DEF G, P
  <1>5. ASSUME Has(G, s, k, v) PROVE Has(G, s, k, v)'
    BY <1>2, <1>3, <1>5 DEF Has
  <1>6. ASSUME FollowsOn(G, s, k, P) PROVE FollowsOn(G, s, k, P)'
    <2>1. \A y \in P : y \in Nat /\ y < n
      BY <1>1, <1>6, OwnIsInLog DEF FollowsOn
    <2>2. \A y \in P, m \in Own' : k < m /\ m <= y => m \in P
      BY <1>1, <1>2, <1>6, <2>1 DEF FollowsOn
    <2> QED
      BY <1>2, <1>6, <2>2 DEF FollowsOn
  <1>7. ASSUME Reaches(G, s, k, P, l.after) PROVE Reaches(G, s, k, P, l.after)'
    <2>1. l.after < n \/ l.after <= k
      BY <1>1, <1>4, <1>7 DEF Reaches
    <2>2. \A m \in Own' : k < m /\ m <= l.after => m \in P
      BY <1>1, <1>2, <1>4, <1>7, <2>1 DEF Reaches
    <2>3. l.after <= Len(log') \/ l.after <= k
      BY <1>1, <1>4, <2>1
    <2> QED
      BY <1>7, <2>2, <2>3 DEF Reaches
  <1> QED
    BY <1>4, <1>5, <1>6, <1>7 DEF Fits, G, P

-----------------------------------------------------------------------------
(* The inductive invariant *)

Loads == [no : Nat, text : SUBSET Nat]
TermState ==
  [at : {"closed", "opening", "open"}, start : Nat, lastSeq : Nat, buffer : Seq(Nat),
   applied : Seq(Nat), screen : SUBSET Nat, loads : SUBSET Loads, asked : Nat, shows : Nat]
WebState ==
  [open : BOOLEAN, start : Nat, latestSeq : Nat, applied : Seq(Nat), claimed : SUBSET Nat,
   cached : SUBSET Nat]

StreamTypes ==
  /\ LogIs
  /\ answered \in SUBSET Nat
  /\ turnRun \in [from : Nat, stored : BOOLEAN]
  /\ link \in [Clients -> LinkState]
  /\ term \in TermState
  /\ web \in WebState
  /\ streamTroubles \in Nat

\* What the agent has announced lies behind its turn, and a stored answer ahead.
TurnFits ==
  /\ turnRun.from <= Len(log)
  /\ \A n \in DOMAIN log : log[n] = "end" => n <= turnRun.from
  /\ turnRun.stored => Streaming # {}

Nothing(c) == ~ link[c].up /\ link[c].pipe = <<>>

TermFits ==
  /\ Fits(term.applied \o term.buffer, term.start, term.lastSeq, {}, link["term"])
  /\ term.lastSeq <= Len(log)
  /\ term.at # "open" =>
       /\ Nothing("term") /\ term.applied = <<>> /\ term.buffer = <<>> /\ term.asked = 0

WebFits ==
  /\ Fits(web.applied, web.start, web.latestSeq, web.claimed, link["web"])
  /\ ~ web.open => Nothing("web") /\ web.applied = <<>> /\ web.claimed = {}

\* The terminal has the end of a turn that is over.
Calm ==
  ~ turnRun.stored /\ term.asked > 0 /\ term.lastSeq = LatestSeq /\ log[term.lastSeq] = "end"

LoadsFit ==
  /\ \A load \in term.loads : load.no <= term.asked
  /\ term.shows <= term.asked
  /\ term.asked > 0 => term.lastSeq \in DOMAIN log
  /\ term.buffer # <<>> => term.lastSeq \in DOMAIN log /\ log[term.lastSeq] = "delta"
  /\ Calm => /\ \A load \in term.loads : load.no = term.asked => load.text \in {{0}, answered}
             /\ term.shows = term.asked => term.screen = answered

StreamInv == StreamTypes /\ TurnFits /\ TermFits /\ WebFits /\ LoadsFit

-----------------------------------------------------------------------------
(* The steps *)

LEMMA FitsKept ==
  ASSUME log' = log, NEW got, NEW s, NEW k, NEW v, NEW l, Fits(got, s, k, v, l)
  PROVE  Fits(got, s, k, v, l)'
  BY DEF Fits, Has, FollowsOn, Reaches, Own

LEMMA LargestOr0 ==
  ASSUME NEW b \in Nat, NEW S \in SUBSET (1 .. b)
  PROVE  /\ Max(S \cup {0}) \in Nat /\ Max(S \cup {0}) <= b
         /\ (Max(S \cup {0}) \in S \/ Max(S \cup {0}) = 0) /\ \A m \in S : m <= Max(S \cup {0})
  <1>1. S \cup {0} \in SUBSET (0 .. b) /\ S \cup {0} # {}
    OBVIOUS
  <1> DEFINE x == Max(S \cup {0})
  <1>2. x \in S \cup {0} /\ \A m \in S \cup {0} : m <= x
    BY <1>1, MaxIsLargest
  <1> HIDE DEF x
  <1>3. x \in Nat /\ x <= b /\ (x \in S \/ x = 0) /\ \A m \in S : m <= x
    BY <1>2
  <1> QED
    BY <1>3 DEF x

LEMMA LatestIs ==
  ASSUME LogIs
  PROVE  /\ LatestSeq \in Nat /\ LatestSeq <= Len(log) /\ (LatestSeq \in Own \/ LatestSeq = 0)
         /\ \A m \in Own : m <= LatestSeq
  <1>1. Own \in SUBSET (1 .. Len(log)) /\ Len(log) \in Nat
    BY OwnIsInLog
  <1> QED
    BY <1>1, LargestOr0 DEF LatestSeq

\* The latest event when another one is appended.
LEMMA LatestOfMore ==
  ASSUME LogIs, NEW e \in {"delta", "end", "foreign"}, log' = Append(log, e)
  PROVE  /\ LogIs' /\ Len(log') = Len(log) + 1 /\ \A m \in DOMAIN log : m \in DOMAIN log' /\ log'[m] = log[m]
         /\ DOMAIN log' = 1 .. Len(log) + 1 /\ log'[Len(log) + 1] = e
         /\ e = "foreign" => LatestSeq' = LatestSeq
         /\ e # "foreign" => LatestSeq' = Len(log) + 1
  <1>1. /\ LogIs' /\ Len(log') = Len(log) + 1 /\ \A m \in DOMAIN log : m \in DOMAIN log' /\ log'[m] = log[m]
        /\ DOMAIN log' = 1 .. Len(log) + 1 /\ log'[Len(log) + 1] = e /\ DOMAIN log = 1 .. Len(log)
        /\ Len(log) \in Nat
    BY DEF LogIs
  <1>2. CASE e = "foreign"
    <2>1. Own' = Own
      BY <1>1, <1>2 DEF Own
    <2> QED
      BY <1>1, <1>2, <2>1 DEF LatestSeq
  <1>3. CASE e # "foreign"
    <2>1. Len(log) + 1 \in Own'
      BY <1>1, <1>3 DEF Own
    <2>2. Own' \in SUBSET (1 .. Len(log) + 1)
      BY <1>1 DEF Own
    <2>3. LatestSeq' = Max(Own' \cup {0}) /\ Len(log) + 1 \in Nat
      BY <1>1 DEF LatestSeq
    <2>4. LatestSeq' \in Nat /\ LatestSeq' <= Len(log) + 1 /\ \A m \in Own' : m <= LatestSeq'
      BY <2>2, <2>3, LargestOr0
    <2> QED
      BY <1>1, <1>3, <2>1, <2>4
  <1> QED
    BY <1>1, <1>2, <1>3

LEMMA StreamInitially == StreamInit => StreamInv
  <1> SUFFICES ASSUME StreamInit PROVE StreamInv
    OBVIOUS
  <1>1. LogIs /\ DOMAIN log = {} /\ Len(log) = 0
    BY DEF StreamInit, LogIs
  <1>2. NoLink \in LinkState /\ ~ NoLink.up /\ NoLink.pipe = <<>>
    BY NothingAscends DEF NoLink, LinkState
  <1>3. StreamTypes
    BY <1>1, <1>2, NothingAscends DEF StreamInit, StreamTypes, TermState, WebState
  <1>4. Fits(<<>>, 0, 0, {}, NoLink)
    BY <1>2, FitsAtFirst
  <1>5. TermFits
    BY <1>1, <1>2, <1>4 DEF StreamInit, TermFits, Nothing, Clients
  <1>6. WebFits
    BY <1>2, <1>4 DEF StreamInit, WebFits, Nothing, Clients
  <1>7. TurnFits /\ LoadsFit
    BY <1>1 DEF StreamInit, TurnFits, LoadsFit, Calm
  <1> QED
    BY <1>3, <1>5, <1>6, <1>7 DEF StreamInv

\* What a step leaves alone.
LEMMA TermKept ==
  ASSUME StreamInv, UNCHANGED <<log, term>>, link'["term"] = link["term"]
  PROVE  TermFits'
  <1>1. Fits(term.applied \o term.buffer, term.start, term.lastSeq, {}, link["term"])
    BY DEF StreamInv, TermFits
  <1>2. Fits(term.applied \o term.buffer, term.start, term.lastSeq, {}, link["term"])'
    BY <1>1, FitsKept
  <1> QED
    BY <1>2 DEF StreamInv, TermFits, Nothing

LEMMA WebKept ==
  ASSUME StreamInv, UNCHANGED <<log, web>>, link'["web"] = link["web"]
  PROVE  WebFits'
  <1>1. Fits(web.applied, web.start, web.latestSeq, web.claimed, link["web"])
    BY DEF StreamInv, WebFits
  <1>2. Fits(web.applied, web.start, web.latestSeq, web.claimed, link["web"])'
    BY <1>1, FitsKept
  <1> QED
    BY <1>2 DEF StreamInv, WebFits, Nothing

LEMMA TurnKept == ASSUME StreamInv, UNCHANGED <<log, turnRun>> PROVE TurnFits'
  BY DEF StreamInv, TurnFits, Streaming

LEMMA LoadsKept ==
  ASSUME StreamInv, UNCHANGED <<log, answered, turnRun, term>> PROVE LoadsFit'
  BY DEF StreamInv, LoadsFit, Calm, LatestSeq, Own

\* The log grows, and the clients stay as they are.
LEMMA LogGrows ==
  ASSUME StreamInv, NEW e \in {"delta", "end", "foreign"}, log' = Append(log, e),
         UNCHANGED <<link, term, web>>
  PROVE  TermFits' /\ WebFits'
  <1>1. /\ LogIs /\ term.applied \o term.buffer \in Seq(Nat) /\ term.start \in Nat
        /\ term.lastSeq \in Nat /\ link["term"] \in LinkState /\ link["web"] \in LinkState
        /\ web.applied \in Seq(Nat) /\ web.start \in Nat /\ web.latestSeq \in Nat
    BY DEF StreamInv, StreamTypes, TermState, WebState, Clients
  <1>2. Fits(term.applied \o term.buffer, term.start, term.lastSeq, {}, link["term"])
    BY DEF StreamInv, TermFits
  <1>3. Fits(term.applied \o term.buffer, term.start, term.lastSeq, {}, link["term"])'
    BY <1>1, <1>2, FitsGrown
  <1>4. Fits(web.applied, web.start, web.latestSeq, web.claimed, link["web"])
    BY DEF StreamInv, WebFits
  <1>5. Fits(web.applied, web.start, web.latestSeq, web.claimed, link["web"])'
    BY <1>1, <1>4, FitsGrown
  <1>6. Len(log') = Len(log) + 1 /\ Len(log) \in Nat
    BY <1>1, LatestOfMore, OwnIsInLog
  <1>7. TermFits'
    BY <1>1, <1>3, <1>6 DEF StreamInv, TermFits, Nothing
  <1>8. WebFits'
    BY <1>5 DEF StreamInv, WebFits, Nothing
  <1> QED
    BY <1>7, <1>8

LEMMA AgentKeeps ==
  ASSUME StreamInv, EmitDelta \/ StoreAnswer \/ EmitEnd
  PROVE  StreamInv'
  <1>1. LogIs /\ Len(log) \in Nat /\ DOMAIN log = 1 .. Len(log) /\ term.lastSeq \in Nat
    BY OwnIsInLog DEF StreamInv, StreamTypes, TermState
  <1>2. ASSUME NEW e \in {"delta", "end", "foreign"}, log' = Append(log, e),
               e = "delta" => ~ turnRun.stored, UNCHANGED <<answered, link, term, web, streamTroubles>>,
               \/ e # "end" /\ turnRun' = turnRun
               \/ e = "end" /\ turnRun' = [from |-> Len(log) + 1, stored |-> FALSE]
        PROVE  StreamInv'
    <2>1. /\ LogIs' /\ Len(log') = Len(log) + 1 /\ \A m \in DOMAIN log : m \in DOMAIN log' /\ log'[m] = log[m]
          /\ DOMAIN log' = 1 .. Len(log) + 1 /\ log'[Len(log) + 1] = e
          /\ e = "foreign" => LatestSeq' = LatestSeq
          /\ e # "foreign" => LatestSeq' = Len(log) + 1
      BY <1>1, <1>2, LatestOfMore
    <2>2. StreamTypes'
      <3>1. turnRun' \in [from : Nat, stored : BOOLEAN]
        <4>1. [from |-> Len(log) + 1, stored |-> FALSE] \in [from : Nat, stored : BOOLEAN]
          BY <1>1
        <4> QED
          BY <1>2, <4>1 DEF StreamInv, StreamTypes
      <3> QED
        BY <1>2, <2>1, <3>1 DEF StreamInv, StreamTypes
    <2>3. TurnFits'
      <3>1. turnRun.from \in Nat /\ turnRun.stored \in BOOLEAN /\ turnRun.from <= Len(log)
        BY DEF StreamInv, StreamTypes, TurnFits
      <3>2. CASE e = "end"
        BY <1>1, <1>2, <2>1, <3>1, <3>2 DEF TurnFits
      <3>3. CASE e # "end"
        <4>1. turnRun'.from <= Len(log')
          BY <1>1, <1>2, <2>1, <3>1, <3>3
        <4>2. \A n \in DOMAIN log' : log'[n] = "end" => n <= turnRun'.from
          BY <1>1, <1>2, <2>1, <3>1, <3>3 DEF StreamInv, TurnFits
        <4>3. Streaming \subseteq Streaming'
          BY <1>1, <1>2, <2>1, <3>3 DEF Streaming
        <4> QED
          BY <1>2, <3>3, <4>1, <4>2, <4>3 DEF StreamInv, TurnFits
      <3> QED
        BY <3>2, <3>3
    <2>4. LoadsFit'
      <3>1. term.lastSeq <= Len(log)
        BY DEF StreamInv, TermFits
      <3>2. ASSUME Calm' PROVE Calm
        <4>1. e = "foreign"
          BY <1>1, <1>2, <2>1, <3>1, <3>2 DEF Calm
        <4> QED
          BY <1>2, <2>1, <3>2, <4>1 DEF Calm, StreamInv, LoadsFit
      <3> QED
        BY <1>2, <2>1, <3>2 DEF StreamInv, LoadsFit
    <2> QED
      BY <1>2, <2>2, <2>3, <2>4, LogGrows DEF StreamInv
  <1>3. CASE EmitDelta
    <2>1. CASE ~ turnRun.stored /\ AppendEvent("delta")
      BY <1>2, <1>3, <2>1 DEF EmitDelta, AppendEvent
    <2>2. CASE AppendEvent("foreign")
      BY <1>2, <1>3, <2>2 DEF EmitDelta, AppendEvent
    <2> QED
      BY <1>3, <2>1, <2>2 DEF EmitDelta
  <1>4. CASE EmitEnd
    BY <1>2, <1>4 DEF EmitEnd, AppendEvent
  <1>5. CASE StoreAnswer
    <2>1. UNCHANGED <<log, link, term, web, streamTroubles>> /\ Streaming # {}
          /\ turnRun' = [turnRun EXCEPT !.stored = TRUE] /\ answered' = answered \cup Streaming
      BY <1>5 DEF StoreAnswer
    <2>2. Streaming \subseteq Nat
      BY <1>1 DEF Streaming
    <2>3. turnRun' \in [from : Nat, stored : BOOLEAN] /\ turnRun'.from = turnRun.from /\ turnRun'.stored
      BY <2>1 DEF StreamInv, StreamTypes
    <2>4. StreamTypes'
      BY <2>1, <2>2, <2>3 DEF StreamInv, StreamTypes, LogIs
    <2>5. TurnFits'
      BY <2>1, <2>3 DEF StreamInv, TurnFits, Streaming
    <2>6. LoadsFit'
      BY <2>1, <2>3 DEF StreamInv, LoadsFit, Calm
    <2> QED
      BY <2>1, <2>4, <2>5, <2>6, TermKept, WebKept DEF StreamInv
  <1> QED
    BY <1>3, <1>4, <1>5

\* Steps that change what a client's connection carries, and nothing else.
LEMMA CarriedKeeps ==
  ASSUME StreamInv, NEW c \in Clients, NEW x \in LinkState, link' = [link EXCEPT ![c] = x],
         UNCHANGED <<log, answered, turnRun, term, web>>, streamTroubles' \in Nat,
         (c = "term" /\ term.at # "open") \/ (c = "web" /\ ~ web.open) => ~ x.up /\ x.pipe = <<>>,
         c = "term" => Fits(term.applied \o term.buffer, term.start, term.lastSeq, {}, x),
         c = "web" => Fits(web.applied, web.start, web.latestSeq, web.claimed, x)
  PROVE  StreamInv'
  <1>1. link \in [Clients -> LinkState]
    BY DEF StreamInv, StreamTypes
  <1>2. link' \in [Clients -> LinkState] /\ link'[c] = x /\ \A d \in Clients \ {c} : link'[d] = link[d]
    BY <1>1
  <1>3. StreamTypes' /\ TurnFits' /\ LoadsFit'
    BY <1>2, TurnKept, LoadsKept DEF StreamInv, StreamTypes, LogIs
  <1>4. CASE c = "term"
    <2>1. Fits(term.applied \o term.buffer, term.start, term.lastSeq, {}, x)'
      BY <1>4, FitsKept
    <2>2. TermFits'
      BY <1>2, <1>4, <2>1 DEF StreamInv, TermFits, Nothing
    <2> QED
      BY <1>2, <1>3, <1>4, <2>2, WebKept DEF StreamInv, Clients
  <1>5. CASE c = "web"
    <2>1. Fits(web.applied, web.start, web.latestSeq, web.claimed, x)'
      BY <1>5, FitsKept
    <2>2. WebFits'
      BY <1>2, <1>5, <2>1 DEF StreamInv, WebFits, Nothing
    <2> QED
      BY <1>2, <1>3, <1>5, <2>2, TermKept DEF StreamInv, Clients
  <1> QED
    BY <1>4, <1>5 DEF Clients

LEMMA ConnectKeeps ==
  ASSUME StreamInv, NEW c \in Clients, Connect(c)
  PROVE  StreamInv'
  <1> DEFINE k == CursorOf(c)
             l == [up |-> TRUE, after |-> k, pipe |-> <<>>]
  <1>1. /\ UNCHANGED <<log, answered, turnRun, term, web, streamTroubles>>
        /\ link' = [link EXCEPT ![c] = l] /\ ~ link[c].up /\ link[c].pipe = <<>>
        /\ c = "term" => term.at = "open" /\ k = term.lastSeq
        /\ c = "web" => web.open /\ k = web.latestSeq
    BY DEF Connect, CursorOf
  <1>2. /\ LogIs /\ term.applied \o term.buffer \in Seq(Nat) /\ term.start \in Nat
        /\ term.lastSeq \in Nat /\ link \in [Clients -> LinkState] /\ streamTroubles \in Nat
        /\ web.applied \in Seq(Nat) /\ web.start \in Nat /\ web.latestSeq \in Nat
    BY DEF StreamInv, StreamTypes, TermState, WebState
  <1>3. k \in Nat /\ link[c] \in LinkState
    BY <1>2 DEF CursorOf
  <1> HIDE DEF k
  <1>4. l \in LinkState
    BY <1>3, NothingAscends DEF LinkState
  <1>5. c = "term" => Fits(term.applied \o term.buffer, term.start, term.lastSeq, {}, l)
    BY <1>1, <1>2, <1>3, FitsConnected DEF StreamInv, TermFits
  <1>6. c = "web" => Fits(web.applied, web.start, web.latestSeq, web.claimed, l)
    BY <1>1, <1>2, <1>3, FitsConnected DEF StreamInv, WebFits
  <1> HIDE DEF l
  <1> QED
    BY <1>1, <1>2, <1>4, <1>5, <1>6, CarriedKeeps

LEMMA WritesKeep ==
  ASSUME StreamInv, NEW c \in Clients, WriteAvailableEvents(c)
  PROVE  StreamInv'
  <1> DEFINE next == {n \in Own : n > link[c].after}
  <1>1. link[c].up /\ UNCHANGED <<log, answered, turnRun, term, web, streamTroubles>>
    BY DEF WriteAvailableEvents
  <1>2. /\ LogIs /\ term.applied \o term.buffer \in Seq(Nat) /\ term.start \in Nat
        /\ term.lastSeq \in Nat /\ link \in [Clients -> LinkState] /\ streamTroubles \in Nat
        /\ web.applied \in Seq(Nat) /\ web.start \in Nat /\ web.latestSeq \in Nat
    BY DEF StreamInv, StreamTypes, TermState, WebState
  <1>p. PICK last \in next : \E events \in [1 .. Cardinality({n \in next : n <= last}) -> {n \in next : n <= last}] :
          /\ Ascends(events) /\ ToSet(events) = {n \in next : n <= last}
          /\ link' = [link EXCEPT ![c].pipe = @ \o events, ![c].after = last]
    BY DEF WriteAvailableEvents
  <1> DEFINE page == {n \in next : n <= last}
  <1>3. PICK events \in [1 .. Cardinality(page) -> page] :
          /\ Ascends(events) /\ ToSet(events) = page
          /\ link' = [link EXCEPT ![c].pipe = @ \o events, ![c].after = last]
    BY <1>p
  <1>4. last \in Own /\ link[c].after < last /\ last \in Nat
    BY <1>2, <1>3, OwnIsInLog
  <1>5. events \in Seq(Nat)
    <2>1. {n \in next : n <= last} \subseteq 1 .. Len(log) /\ Len(log) \in Nat
      BY <1>2, OwnIsInLog
    <2>2. Cardinality({n \in next : n <= last}) \in Nat
      <3>1. IsFiniteSet(1 .. Len(log))
        BY <2>1, FS_Interval
      <3> QED
        BY <2>1, <3>1, FS_Subset, FS_CardinalityType
    <2> HIDE DEF page
    <2>3. page \subseteq Nat /\ Cardinality(page) \in Nat
      BY <2>1, <2>2 DEF page
    <2>4. events \in [1 .. Cardinality(page) -> Nat]
      BY <1>3, <2>3
    <2> QED
      BY <2>3, <2>4
  <1>6. ToSet(events) = {n \in Own : n > link[c].after /\ n <= last}
    BY <1>3
  <1> DEFINE x == [link[c] EXCEPT !.pipe = @ \o events, !.after = last]
  <1>7. link[c] \in LinkState
    BY <1>2
  <1>8. x \in LinkState /\ x.up /\ x.after = last /\ x.pipe = link[c].pipe \o events
    <2>1. link[c].pipe \o events \in Seq(Nat)
      BY <1>5, <1>7 DEF LinkState
    <2> QED
      BY <1>1, <1>4, <1>7, <2>1 DEF LinkState
  <1>9. link' = [link EXCEPT ![c] = x]
    BY <1>2, <1>3
  <1> HIDE DEF x, next, page
  <1>10. \A v : \A got \in Seq(Nat), s \in Nat, k \in Nat : Fits(got, s, k, v, link[c]) => Fits(got, s, k, v, x)
    BY <1>1, <1>2, <1>3, <1>4, <1>5, <1>6, <1>7, <1>8, FitsSent
  <1>11. c = "term" => Fits(term.applied \o term.buffer, term.start, term.lastSeq, {}, x)
    BY <1>2, <1>10 DEF StreamInv, TermFits
  <1>12. c = "web" => Fits(web.applied, web.start, web.latestSeq, web.claimed, x)
    BY <1>2, <1>10 DEF StreamInv, WebFits
  <1> QED
    BY <1>1, <1>2, <1>8, <1>9, <1>11, <1>12, CarriedKeeps DEF StreamInv, TermFits, WebFits,
       Nothing

LEMMA BreakKeeps ==
  ASSUME StreamInv, NEW c \in Clients, ConnectionBreaks(c)
  PROVE  StreamInv'
  <1>1. link[c].up /\ UNCHANGED <<log, answered, turnRun, term, web>> /\ streamTroubles' = streamTroubles + 1
    BY DEF ConnectionBreaks, StreamTrouble
  <1>2. /\ LogIs /\ term.applied \o term.buffer \in Seq(Nat) /\ term.start \in Nat
        /\ term.lastSeq \in Nat /\ link \in [Clients -> LinkState] /\ streamTroubles \in Nat
        /\ web.applied \in Seq(Nat) /\ web.start \in Nat /\ web.latestSeq \in Nat
    BY DEF StreamInv, StreamTypes, TermState, WebState
  <1>3. link[c] \in LinkState /\ Len(link[c].pipe) \in Nat
    BY <1>2 DEF LinkState
  <1>p. PICK n \in 0 .. (IF c = "web" THEN 0 ELSE Len(link[c].pipe)) :
          link' = [link EXCEPT ![c] = [NoLink EXCEPT !.pipe = SubSeq(link[c].pipe, 1, n)]]
    BY DEF ConnectionBreaks
  <1>4. n \in 0 .. Len(link[c].pipe)
    BY <1>3, <1>p
  <1> DEFINE x == [NoLink EXCEPT !.pipe = SubSeq(link[c].pipe, 1, n)]
  <1>5. x \in LinkState /\ ~ x.up /\ x.pipe = SubSeq(link[c].pipe, 1, n)
    <2>1. link[c].pipe \in Seq(Nat)
      BY <1>3 DEF LinkState
    <2>2. SubSeq(link[c].pipe, 1, n) \in Seq(Nat)
      BY <1>3, <1>4, <2>1
    <2> QED
      BY <2>2 DEF LinkState, NoLink
  <1>9. link' = [link EXCEPT ![c] = x]
    BY <1>p
  <1> HIDE DEF x
  <1>6. \A v : \A got \in Seq(Nat), s \in Nat, k \in Nat : Fits(got, s, k, v, link[c]) => Fits(got, s, k, v, x)
    BY <1>2, <1>3, <1>4, <1>5, FitsBroken
  <1>7. c = "term" => Fits(term.applied \o term.buffer, term.start, term.lastSeq, {}, x)
    BY <1>2, <1>6 DEF StreamInv, TermFits
  <1>8. c = "web" => Fits(web.applied, web.start, web.latestSeq, web.claimed, x)
    BY <1>2, <1>6 DEF StreamInv, WebFits
  <1>10. /\ c = "term" => term.at = "open"
         /\ c = "web" => web.open
    BY <1>1 DEF StreamInv, TermFits, WebFits, Nothing
  <1>11. streamTroubles' \in Nat
    BY <1>1, <1>2
  <1> QED
    BY <1>1, <1>5, <1>7, <1>8, <1>9, <1>10, <1>11, CarriedKeeps

LEMMA DaemonRestartKeeps ==
  ASSUME StreamInv, DaemonRestarts
  PROVE  StreamInv'
  <1>1. /\ UNCHANGED <<log, answered, term, web>> /\ streamTroubles' = streamTroubles + 1
        /\ turnRun' = [from |-> Len(log), stored |-> FALSE]
        /\ link' = [d \in Clients |-> [link[d] EXCEPT !.up = FALSE]]
    BY DEF DaemonRestarts, StreamTrouble
  <1>2. /\ LogIs /\ term.applied \o term.buffer \in Seq(Nat) /\ term.start \in Nat
        /\ term.lastSeq \in Nat /\ link \in [Clients -> LinkState] /\ streamTroubles \in Nat
        /\ web.applied \in Seq(Nat) /\ web.start \in Nat /\ web.latestSeq \in Nat
        /\ Len(log) \in Nat /\ DOMAIN log = 1 .. Len(log)
    BY OwnIsInLog DEF StreamInv, StreamTypes, TermState, WebState
  <1>3. \A d \in Clients : link'[d] \in LinkState /\ ~ link'[d].up /\ link'[d].pipe = link[d].pipe
    BY <1>1, <1>2 DEF LinkState
  <1>4. link' \in [Clients -> LinkState]
    BY <1>1, <1>3
  <1>5. StreamTypes'
    BY <1>1, <1>2, <1>4 DEF StreamInv, StreamTypes, LogIs
  <1>6. TurnFits'
    BY <1>1, <1>2 DEF TurnFits
  <1>7. ASSUME NEW d \in Clients, NEW got, NEW s, NEW k, NEW v, Fits(got, s, k, v, link[d])
        PROVE  Fits(got, s, k, v, link'[d])
    BY <1>3, <1>7 DEF Fits
  <1>8. TermFits'
    <2>1. Fits(term.applied \o term.buffer, term.start, term.lastSeq, {}, link'["term"])
      BY <1>7 DEF StreamInv, TermFits, Clients
    <2>2. Fits(term.applied \o term.buffer, term.start, term.lastSeq, {}, link["term"])'
      BY <1>1, <2>1 DEF Fits, Has, FollowsOn, Reaches, Own
    <2> QED
      BY <1>1, <1>3, <2>2 DEF StreamInv, TermFits, Nothing, Clients
  <1>9. WebFits'
    <2>1. Fits(web.applied, web.start, web.latestSeq, web.claimed, link'["web"])
      BY <1>7 DEF StreamInv, WebFits, Clients
    <2>2. Fits(web.applied, web.start, web.latestSeq, web.claimed, link["web"])'
      BY <1>1, <2>1 DEF Fits, Has, FollowsOn, Reaches, Own
    <2> QED
      BY <1>1, <1>3, <2>2 DEF StreamInv, WebFits, Nothing, Clients
  <1>10. LoadsFit'
    <2>1. ASSUME Calm' PROVE Calm
      <3>1. term.lastSeq = LatestSeq /\ log[term.lastSeq] = "end" /\ term.asked > 0
        BY <1>1, <2>1 DEF Calm, LatestSeq, Own
      <3>2. ASSUME turnRun.stored PROVE FALSE
        <4>1. PICK n \in DOMAIN log : n > turnRun.from /\ log[n] = "delta"
          BY <3>2 DEF StreamInv, TurnFits, Streaming
        <4>2. n \in Own
          BY <4>1 DEF Own
        <4>3. term.lastSeq \in DOMAIN log
          BY <3>1 DEF StreamInv, LoadsFit
        <4>4. n <= term.lastSeq /\ term.lastSeq <= turnRun.from
          BY <1>2, <3>1, <4>2, <4>3, LatestIs DEF StreamInv, TurnFits
        <4> QED
          BY <1>2, <4>1, <4>4 DEF StreamInv, StreamTypes
      <3> QED
        BY <3>1, <3>2 DEF Calm
    <2> QED
      BY <1>1, <2>1 DEF StreamInv, LoadsFit
  <1> QED
    BY <1>5, <1>6, <1>8, <1>9, <1>10 DEF StreamInv

LEMMA OpenTerminalKeeps ==
  ASSUME StreamInv, OpenTerminal
  PROVE  StreamInv'
  <1>1. UNCHANGED <<log, answered, turnRun, link, web, streamTroubles>>
    BY DEF OpenTerminal
  <1>2. /\ LogIs /\ term \in TermState /\ answered \in SUBSET Nat /\ link["term"] \in LinkState
        /\ LatestSeq \in Nat /\ LatestSeq <= Len(log)
    BY LatestIs DEF StreamInv, StreamTypes, Clients
  <1>3. term.at # "open" /\ Nothing("term") /\ term.applied = <<>> /\ term.buffer = <<>> /\ term.asked = 0
    BY DEF OpenTerminal, StreamInv, TermFits
  <1>4. TurnFits' /\ WebFits'
    BY <1>1, TurnKept, WebKept
  <1>5. /\ term' \in TermState /\ term'.applied = <<>> /\ term'.buffer = <<>> /\ term'.asked = 0
        /\ term'.loads = term.loads /\ term'.shows = term.shows
        /\ \/ term'.start = term.start /\ term'.lastSeq = term.lastSeq /\ term'.at = "opening"
           \/ term'.start = LatestSeq /\ term'.lastSeq = LatestSeq /\ term'.at = "open"
    BY <1>2, <1>3 DEF OpenTerminal, TermState
  <1>6. StreamTypes'
    BY <1>1, <1>5 DEF StreamInv, StreamTypes, LogIs
  <1>7. Fits(<<>>, LatestSeq, LatestSeq, {}, link["term"])
    BY <1>2, <1>3, FitsAtFirst DEF Nothing
  <1>8. Fits(<<>>, term.start, term.lastSeq, {}, link["term"])
    <2>1. <<>> \o <<>> = <<>>
      OBVIOUS
    <2> QED
      BY <1>3, <2>1 DEF StreamInv, TermFits
  <1>9. Fits(<<>>, term'.start, term'.lastSeq, {}, link["term"])
    BY <1>5, <1>7, <1>8
  <1>10. TermFits'
    <2>1. term'.applied \o term'.buffer = <<>>
      BY <1>5
    <2>2. Fits(<<>>, term.start, term.lastSeq, {}, link["term"])'
      BY <1>1, <1>9 DEF Fits, Has, FollowsOn, Reaches, Own
    <2>3. term'.lastSeq <= Len(log')
      BY <1>1, <1>2, <1>5 DEF StreamInv, TermFits
    <2> QED
      BY <1>1, <1>3, <1>5, <2>1, <2>2, <2>3 DEF TermFits, Nothing
  <1>11. LoadsFit'
    BY <1>3, <1>5 DEF StreamInv, LoadsFit, Calm
  <1> QED
    BY <1>4, <1>6, <1>10, <1>11 DEF StreamInv

\* What applyEvent makes of the terminal.
LEMMA AppliedIs ==
  ASSUME NEW t \in TermState, NEW events \in Seq(Nat)
  PROVE  /\ Applied(t, events) \in TermState
         /\ Applied(t, events).at = t.at /\ Applied(t, events).start = t.start
         /\ Applied(t, events).lastSeq = t.lastSeq /\ Applied(t, events).shows = t.shows
         /\ Applied(t, events).applied = t.applied \o events
         /\ (\A i \in DOMAIN events : log[events[i]] # "end") =>
              Applied(t, events).asked = t.asked /\ Applied(t, events).loads = t.loads
         /\ (\E i \in DOMAIN events : log[events[i]] = "end") =>
              /\ Applied(t, events).asked = t.asked + 1
              /\ Applied(t, events).loads = t.loads \cup {[no |-> t.asked + 1, text |-> {0}]}
  <1> DEFINE a == t.applied \o events
             sc == t.screen \cup {n \in ToSet(events) : log[n] = "delta"}
             ends == \E i \in DOMAIN events : log[events[i]] = "end"
             as == IF ends THEN t.asked + 1 ELSE t.asked
             ls == IF ends THEN t.loads \cup {[no |-> t.asked + 1, text |-> {0}]} ELSE t.loads
  <1>1. t.applied \in Seq(Nat) /\ t.screen \subseteq Nat /\ t.asked \in Nat /\ t.loads \in SUBSET Loads
    BY DEF TermState
  <1>2. a \in Seq(Nat) /\ ToSet(events) \subseteq Nat
    BY <1>1 DEF ToSet
  <1>3. sc \in SUBSET Nat /\ as \in Nat /\ ls \in SUBSET Loads
    <2>1. [no |-> t.asked + 1, text |-> {0}] \in Loads
      BY <1>1 DEF Loads
    <2>2. sc \in SUBSET Nat
      BY <1>1, <1>2
    <2>3. t.loads \cup {[no |-> t.asked + 1, text |-> {0}]} \in SUBSET Loads
      BY <1>1, <2>1
    <2> HIDE DEF ends, sc
    <2>4. as \in Nat
      BY <1>1
    <2>5. ls \in SUBSET Loads
      BY <1>1, <2>3
    <2> QED
      BY <2>2, <2>4, <2>5
  <1>4. Applied(t, events) = [t EXCEPT !.applied = a, !.screen = sc, !.asked = as, !.loads = ls]
    BY DEF Applied, TermState
  <1>5. /\ ends => as = t.asked + 1 /\ ls = t.loads \cup {[no |-> t.asked + 1, text |-> {0}]}
        /\ ~ ends => as = t.asked /\ ls = t.loads
    OBVIOUS
  <1> HIDE DEF a, sc, as, ls
  <1>6. /\ Applied(t, events) \in TermState
        /\ Applied(t, events).at = t.at /\ Applied(t, events).start = t.start
        /\ Applied(t, events).lastSeq = t.lastSeq /\ Applied(t, events).shows = t.shows
        /\ Applied(t, events).applied = a /\ Applied(t, events).asked = as /\ Applied(t, events).loads = ls
    <2> DEFINE u == [t EXCEPT !.applied = a, !.screen = sc, !.asked = as, !.loads = ls]
    <2>1. u \in TermState
      BY <1>2, <1>3 DEF TermState
    <2>2. /\ u.at = t.at /\ u.start = t.start /\ u.lastSeq = t.lastSeq /\ u.shows = t.shows
          /\ u.applied = a /\ u.asked = as /\ u.loads = ls
      BY DEF TermState
    <2> HIDE DEF u
    <2>3. Applied(t, events) = u
      BY <1>4 DEF u
    <2> QED
      BY <2>1, <2>2, <2>3
  <1> QED
    BY <1>5, <1>6 DEF a

LEMMA FlushKeeps ==
  ASSUME StreamInv, FlushBuffer
  PROVE  StreamInv'
  <1> DEFINE t == Applied(term, term.buffer)
  <1>1. /\ UNCHANGED <<log, answered, turnRun, link, web, streamTroubles>> /\ term.buffer # <<>>
        /\ term' = [t EXCEPT !.buffer = <<>>]
    BY DEF FlushBuffer
  <1>2. term \in TermState /\ term.buffer \in Seq(Nat) /\ term.applied \in Seq(Nat)
    BY DEF StreamInv, StreamTypes, TermState
  <1>3. /\ t \in TermState /\ t.at = term.at /\ t.start = term.start /\ t.lastSeq = term.lastSeq
        /\ t.shows = term.shows /\ t.applied = term.applied \o term.buffer
        /\ \/ t.asked = term.asked /\ t.loads = term.loads
           \/ /\ t.asked = term.asked + 1
              /\ t.loads = term.loads \cup {[no |-> term.asked + 1, text |-> {0}]}
    BY <1>2, AppliedIs
  <1> HIDE DEF t
  <1>4. /\ term' \in TermState /\ term'.at = term.at /\ term'.start = term.start
        /\ term'.lastSeq = term.lastSeq /\ term'.shows = term.shows
        /\ term'.applied = term.applied \o term.buffer /\ term'.buffer = <<>>
        /\ term'.asked = t.asked /\ term'.loads = t.loads
    BY <1>1, <1>3, NothingAscends DEF TermState
  <1>5. term'.applied \o term'.buffer = term.applied \o term.buffer
    <2>1. term.applied \o term.buffer \in Seq(Nat)
      BY <1>2
    <2> QED
      BY <1>4, <2>1
  <1>6. StreamTypes'
    BY <1>1, <1>4 DEF StreamInv, StreamTypes, LogIs
  <1>7. term.at = "open"
    BY <1>1 DEF StreamInv, TermFits
  <1>8. TermFits'
    <2>1. Fits(term.applied \o term.buffer, term.start, term.lastSeq, {}, link["term"])
      BY DEF StreamInv, TermFits
    <2>2. Fits(term.applied \o term.buffer, term.start, term.lastSeq, {}, link["term"])'
      BY <1>1, <1>4, <1>5, <2>1 DEF Fits, Has, FollowsOn, Reaches, Own
    <2> QED
      BY <1>1, <1>4, <1>7, <2>2 DEF StreamInv, TermFits
  <1>9. term.lastSeq \in DOMAIN log /\ log[term.lastSeq] = "delta"
    BY <1>1 DEF StreamInv, LoadsFit
  <1>10. LoadsFit'
    <2>1. ~ Calm'
      BY <1>1, <1>4, <1>9 DEF Calm
    <2>2. term.asked \in Nat /\ term.shows \in Nat /\ \A load \in term.loads : load.no \in Nat /\ load.no <= term.asked
      BY <1>2 DEF TermState, Loads, StreamInv, LoadsFit
    <2>3. term'.asked \in Nat /\ term.asked <= term'.asked
      BY <1>3, <1>4, <2>2
    <2>4. \A load \in term'.loads : load.no <= term'.asked
      BY <1>3, <1>4, <2>2
    <2>5. term'.shows <= term'.asked
      BY <1>4, <2>2, <2>3 DEF StreamInv, LoadsFit
    <2> QED
      BY <1>1, <1>4, <1>9, <2>1, <2>4, <2>5 DEF LoadsFit
  <1> QED
    BY <1>1, <1>6, <1>8, <1>10, TurnKept, WebKept DEF StreamInv

\* The larger of two numbers.
LEMMA LargerOf ==
  ASSUME NEW n \in Nat, NEW k \in Nat
  PROVE  /\ Max({n, k}) \in Nat /\ k <= Max({n, k}) /\ n <= Max({n, k})
         /\ (Max({n, k}) = n \/ Max({n, k}) = k)
  <1>1. {n, k} \in SUBSET (0 .. n + k) /\ {n, k} # {} /\ n + k \in Nat
    OBVIOUS
  <1> DEFINE x == Max({n, k})
  <1>2. x \in {n, k} /\ \A y \in {n, k} : y <= x
    BY <1>1, MaxIsLargest
  <1> HIDE DEF x
  <1>3. x \in Nat /\ k <= x /\ n <= x /\ (x = n \/ x = k)
    BY <1>2
  <1> QED
    BY <1>3 DEF x

LEMMA JoinedOn ==
  ASSUME NEW p \in Seq(Nat), NEW q \in Seq(Nat), NEW n \in Nat
  PROVE  p \o Append(q, n) = Append(p \o q, n)
  <1>1. <<n>> \in Seq(Nat) /\ p \o q \in Seq(Nat)
    OBVIOUS
  <1>2. Append(q, n) = q \o <<n>> /\ Append(p \o q, n) = (p \o q) \o <<n>>
    BY <1>1, AppendIsConcat
  <1> QED
    BY <1>1, <1>2, ConcatAssociative

\* What a client takes from its connection, and the connection then.
LEMMA Taken ==
  ASSUME LogIs, NEW c \in Clients, link \in [Clients -> LinkState], link[c].pipe # <<>>,
         link' = [link EXCEPT ![c].pipe = Tail(@)], Ascends(link[c].pipe)
  PROVE  /\ link' \in [Clients -> LinkState] /\ \A d \in Clients \ {c} : link'[d] = link[d]
         /\ link'[c].up = link[c].up /\ link'[c].after = link[c].after
         /\ link'[c].pipe = Tail(link[c].pipe) /\ Head(link[c].pipe) \in Nat
  <1>1. link[c] \in LinkState /\ link[c].pipe \in Seq(Nat)
    BY DEF LinkState
  <1>2. Tail(link[c].pipe) \in Seq(Nat) /\ Head(link[c].pipe) \in Nat
    BY <1>1, AscendsAfterHead
  <1>3. [link[c] EXCEPT !.pipe = Tail(@)] \in LinkState
    BY <1>1, <1>2 DEF LinkState
  <1> QED
    BY <1>1, <1>2, <1>3 DEF LinkState

LEMMA ReceiveKeeps ==
  ASSUME StreamInv, Receive
  PROVE  StreamInv'
  <1> DEFINE l == link["term"]
             n == Head(l.pipe)
             t == [term EXCEPT !.lastSeq = Max({n, term.lastSeq})]
             got == term.applied \o term.buffer
             u == Applied(t, Append(t.buffer, n))
  <1>1. /\ UNCHANGED <<log, answered, turnRun, web, streamTroubles>> /\ l.pipe # <<>>
        /\ link' = [link EXCEPT !["term"].pipe = Tail(@)]
        /\ term' = IF log[n] = "delta" THEN [t EXCEPT !.buffer = Append(@, n)]
                   ELSE [u EXCEPT !.buffer = <<>>]
    BY DEF Receive
  <1>2. /\ LogIs /\ term \in TermState /\ term.buffer \in Seq(Nat) /\ term.applied \in Seq(Nat)
        /\ got \in Seq(Nat) /\ term.start \in Nat /\ term.lastSeq \in Nat
        /\ link \in [Clients -> LinkState] /\ l \in LinkState /\ term.asked \in Nat
        /\ term.shows \in Nat /\ term.loads \in SUBSET Loads
    BY DEF StreamInv, StreamTypes, TermState, Clients
  <1>3. Fits(got, term.start, term.lastSeq, {}, l) /\ Ascends(l.pipe)
    BY DEF StreamInv, TermFits, Fits
  <1>4. /\ link' \in [Clients -> LinkState] /\ link'["web"] = link["web"]
        /\ link'["term"].up = l.up /\ link'["term"].after = l.after
        /\ link'["term"].pipe = Tail(l.pipe) /\ n \in Nat /\ link'["term"] \in LinkState
    BY <1>1, <1>2, <1>3, Taken DEF Clients
  <1>5. n \in Own /\ term.lastSeq < n
    <2>1. l.pipe \in Seq(Nat)
      BY <1>2 DEF LinkState
    <2>2. n \in ToSet(l.pipe)
      BY <1>1, <1>3, <2>1, AscendsAfterHead
    <2>3. n \in Own /\ term.start < n /\ \A m \in ToSet(got) : m < n
      BY <1>3, <2>2 DEF Fits, FollowsOn
    <2>4. ASSUME n <= term.lastSeq PROVE FALSE
      <3>1. n \in ToSet(got)
        BY <1>3, <1>4, <2>3, <2>4 DEF Fits, Has
      <3> QED
        BY <1>4, <2>3, <3>1
    <2> QED
      BY <1>2, <1>4, <2>3, <2>4
  <1>6. n \in DOMAIN log /\ n <= Len(log) /\ n > 0 /\ Len(log) \in Nat
    BY <1>2, <1>5, OwnIsInLog
  <1> HIDE DEF n
  <1>7. t = [term EXCEPT !.lastSeq = n]
    <2> DEFINE x == Max({n, term.lastSeq})
    <2>2. x \in Nat /\ n <= x /\ (x = n \/ x = term.lastSeq)
      BY <1>2, <1>4, LargerOf
    <2> HIDE DEF x
    <2>3. x = n
      BY <1>2, <1>4, <1>5, <2>2
    <2>1. Max({n, term.lastSeq}) = n
      BY <2>3 DEF x
    <2> QED
      BY <2>1
  <1>8. /\ t \in TermState /\ t.lastSeq = n /\ t.at = term.at /\ t.start = term.start
        /\ t.applied = term.applied /\ t.buffer = term.buffer /\ t.loads = term.loads
        /\ t.asked = term.asked /\ t.shows = term.shows
    BY <1>2, <1>4, <1>7 DEF TermState
  <1> HIDE DEF t
  <1>9. Append(term.buffer, n) \in Seq(Nat)
    BY <1>2, <1>4
  <1>10. term.applied \o Append(term.buffer, n) = Append(got, n) /\ Append(got, n) \in Seq(Nat)
    <2>1. term.applied \o Append(term.buffer, n) = Append(term.applied \o term.buffer, n)
      <3>1. term.applied \in Seq(Nat) /\ term.buffer \in Seq(Nat) /\ n \in Nat
        BY <1>2, <1>4
      <3> QED
        BY <3>1, JoinedOn
    <2>2. got = term.applied \o term.buffer
      OBVIOUS
    <2> HIDE DEF got
    <2>3. Append(got, n) \in Seq(Nat)
      BY <1>2, <1>4
    <2> QED
      BY <2>1, <2>2, <2>3
  <1>11. Fits(Append(got, n), term.start, n, {}, link'["term"])
    <2>1. n = Head(l.pipe)
      BY DEF n
    <2>2. term.lastSeq <= n /\ n <= n
      BY <1>2, <1>4, <1>5
    <2> HIDE DEF got
    <2> QED
      BY <1>1, <1>2, <1>3, <1>4, <2>1, <2>2, FitsReceived
  <1>12. term.at = "open"
    BY <1>1 DEF StreamInv, TermFits, Nothing
  <1> HIDE DEF got
  <1>13. ASSUME term' \in TermState, term'.at = "open", term'.start = term.start, term'.lastSeq = n,
                term'.applied \o term'.buffer = Append(got, n), LoadsFit'
         PROVE  StreamInv'
    <2>1. StreamTypes'
      BY <1>1, <1>4, <1>13 DEF StreamInv, StreamTypes, LogIs
    <2>2. Fits(term.applied \o term.buffer, term.start, term.lastSeq, {}, link["term"])'
      <3>1. Fits(term'.applied \o term'.buffer, term'.start, term'.lastSeq, {}, link'["term"])
        BY <1>11, <1>13
      <3> QED
        BY <1>1, <3>1, FitsKept
    <2>3. TermFits'
      BY <1>1, <1>6, <1>13, <2>2 DEF TermFits
    <2> QED
      BY <1>1, <1>4, <1>13, <2>1, <2>3, TurnKept, WebKept DEF StreamInv
  <1>14. CASE log[n] = "delta"
    <2>1. /\ term' \in TermState /\ term'.lastSeq = n /\ term'.at = term.at /\ term'.start = term.start
          /\ term'.applied = term.applied /\ term'.buffer = Append(term.buffer, n)
          /\ term'.loads = term.loads /\ term'.asked = term.asked /\ term'.shows = term.shows
      BY <1>1, <1>8, <1>9, <1>14 DEF TermState
    <2>2. ~ Calm'
      BY <1>1, <1>14, <2>1 DEF Calm
    <2>3. LoadsFit'
      BY <1>1, <1>6, <1>14, <2>1, <2>2 DEF StreamInv, LoadsFit
    <2> QED
      BY <1>10, <1>12, <1>13, <2>1, <2>3
  <1>15. CASE log[n] # "delta"
    <2>1. log[n] = "end"
      BY <1>2, <1>5, <1>6, <1>15 DEF LogIs, Own
    <2>2. \E i \in DOMAIN Append(term.buffer, n) : log[Append(term.buffer, n)[i]] = "end"
      <3>1. /\ Len(term.buffer) + 1 \in DOMAIN Append(term.buffer, n)
            /\ Append(term.buffer, n)[Len(term.buffer) + 1] = n
        BY <1>2, <1>4
      <3> QED
        BY <2>1, <3>1
    <2>3. /\ u \in TermState /\ u.at = term.at /\ u.start = term.start /\ u.lastSeq = n
          /\ u.shows = term.shows /\ u.applied = Append(got, n) /\ u.asked = term.asked + 1
          /\ u.loads = term.loads \cup {[no |-> term.asked + 1, text |-> {0}]}
      <3>1. u = Applied(t, Append(term.buffer, n))
        BY <1>8 DEF n
      <3> HIDE DEF u
      <3> DEFINE v == Append(term.buffer, n)
      <3>2. v \in Seq(Nat) /\ term.applied \o v = Append(got, n) /\ u = Applied(t, v)
            /\ \E i \in DOMAIN v : log[v[i]] = "end"
        BY <1>9, <1>10, <2>2, <3>1
      <3> HIDE DEF v
      <3>3. /\ u \in TermState /\ u.at = t.at /\ u.start = t.start /\ u.lastSeq = t.lastSeq
            /\ u.shows = t.shows /\ u.applied = t.applied \o v /\ u.asked = t.asked + 1
            /\ u.loads = t.loads \cup {[no |-> t.asked + 1, text |-> {0}]}
        BY <1>8, <3>2, AppliedIs
      <3> QED
        BY <1>8, <3>2, <3>3
    <2> HIDE DEF u
    <2>4. /\ term' \in TermState /\ term'.at = term.at /\ term'.start = term.start /\ term'.lastSeq = n
          /\ term'.shows = term.shows /\ term'.applied = Append(got, n) /\ term'.asked = term.asked + 1
          /\ term'.loads = term.loads \cup {[no |-> term.asked + 1, text |-> {0}]} /\ term'.buffer = <<>>
      BY <1>1, <1>15, <2>3, NothingAscends DEF TermState
    <2>5. term'.applied \o term'.buffer = Append(got, n)
      BY <1>10, <2>4
    <2>6. \A load \in term.loads : load.no \in Nat /\ load.no <= term.asked
      BY <1>2 DEF StreamInv, LoadsFit, Loads
    <2>7. \A load \in term'.loads : /\ load.no <= term'.asked
                                    /\ load.no = term'.asked => load.text = {0}
      BY <1>2, <2>4, <2>6
    <2>8. term'.shows < term'.asked
      BY <1>2, <2>4 DEF StreamInv, LoadsFit
    <2>9. LoadsFit'
      <3>1. term'.shows <= term'.asked /\ term'.shows # term'.asked
        BY <1>2, <2>4, <2>8
      <3>2. term'.lastSeq \in DOMAIN log' /\ term'.buffer = <<>>
        BY <1>1, <1>6, <2>4
      <3> QED
        <4>1. \A load \in term'.loads : load.no = term'.asked => load.text \in {{0}, answered'}
          BY <2>7
        <4>2. \A load \in term'.loads : load.no <= term'.asked
          BY <2>7
        <4> QED
          BY <3>1, <3>2, <4>1, <4>2 DEF LoadsFit
    <2> QED
      BY <1>12, <1>13, <2>4, <2>5, <2>9
  <1> QED
    BY <1>14, <1>15

LEMMA TimelineKeeps ==
  ASSUME StreamInv, NEW load \in term.loads, ReadTimeline(load) \/ ReplaceTimeline(load)
  PROVE  StreamInv'
  <1>1. UNCHANGED <<log, answered, turnRun, link, web>>
    BY DEF ReadTimeline, ReplaceTimeline
  <1>2. /\ term \in TermState /\ answered \in SUBSET Nat /\ streamTroubles \in Nat
        /\ term.asked \in Nat /\ load \in Loads /\ load.no \in Nat /\ load.text \in SUBSET Nat
    BY DEF StreamInv, StreamTypes, TermState, Loads
  <1>3. streamTroubles' \in Nat
    BY <1>2 DEF ReadTimeline, ReplaceTimeline, StreamTrouble
  <1>4. term.at = "open" \/ term.loads = term.loads
    OBVIOUS
  <1>5. load.no <= term.asked /\ (Calm /\ load.no = term.asked => load.text \in {{0}, answered})
    BY DEF StreamInv, LoadsFit
  <1>6. ASSUME term' \in TermState, term'.at = term.at, term'.start = term.start,
               term'.lastSeq = term.lastSeq, term'.applied = term.applied, term'.buffer = term.buffer,
               term'.asked = term.asked, term'.shows <= term.asked,
               \A other \in term'.loads :
                 other.no <= term.asked /\ (Calm /\ other.no = term.asked => other.text \in {{0}, answered}),
               Calm /\ term'.shows = term.asked => term'.screen = answered
        PROVE  StreamInv'
    <2>1. StreamTypes'
      BY <1>1, <1>3, <1>6 DEF StreamInv, StreamTypes, LogIs
    <2>2. Fits(term.applied \o term.buffer, term.start, term.lastSeq, {}, link["term"])
      BY DEF StreamInv, TermFits
    <2>3. Fits(term.applied \o term.buffer, term.start, term.lastSeq, {}, link["term"])'
      BY <1>1, <1>6, <2>2 DEF Fits, Has, FollowsOn, Reaches, Own
    <2>4. TermFits'
      BY <1>1, <1>6, <2>3 DEF StreamInv, TermFits, Nothing
    <2>5. Calm' => Calm
      BY <1>1, <1>6 DEF Calm, LatestSeq, Own
    <2>6. LoadsFit'
      BY <1>1, <1>6, <2>5 DEF StreamInv, LoadsFit
    <2> QED
      BY <1>1, <2>1, <2>4, <2>6, TurnKept, WebKept DEF StreamInv
  <1>7. CASE ReplaceTimeline(load)
    <2>1. term' = [term EXCEPT !.screen = load.text, !.loads = @ \ {load}, !.shows = load.no] /\ load.text # {0}
      BY <1>7 DEF ReplaceTimeline
    <2>2. /\ term' \in TermState /\ term'.at = term.at /\ term'.start = term.start
          /\ term'.lastSeq = term.lastSeq /\ term'.applied = term.applied /\ term'.buffer = term.buffer
          /\ term'.asked = term.asked /\ term'.shows = load.no /\ term'.loads = term.loads \ {load}
          /\ term'.screen = load.text
      BY <1>2, <2>1 DEF TermState
    <2>3. Calm /\ term'.shows = term.asked => term'.screen = answered
      BY <1>5, <2>1, <2>2
    <2>4. \A other \in term'.loads :
            other.no <= term.asked /\ (Calm /\ other.no = term.asked => other.text \in {{0}, answered})
      BY <2>2 DEF StreamInv, LoadsFit
    <2> QED
      BY <1>5, <1>6, <2>2, <2>3, <2>4
  <1>8. ASSUME NEW ls \in SUBSET Loads, term' = [term EXCEPT !.loads = ls],
               \A other \in ls : other \in term.loads \/ (other.no = load.no /\ other.text = answered)
        PROVE  StreamInv'
    <2>1. /\ term' \in TermState /\ term'.at = term.at /\ term'.start = term.start
          /\ term'.lastSeq = term.lastSeq /\ term'.applied = term.applied /\ term'.buffer = term.buffer
          /\ term'.asked = term.asked /\ term'.shows = term.shows /\ term'.loads = ls
          /\ term'.screen = term.screen
      BY <1>2, <1>8 DEF TermState
    <2>2. Calm /\ term'.shows = term.asked => term'.screen = answered
      BY <2>1 DEF StreamInv, LoadsFit
    <2>3. \A other \in term'.loads :
            other.no <= term.asked /\ (Calm /\ other.no = term.asked => other.text \in {{0}, answered})
      BY <1>5, <1>8, <2>1 DEF StreamInv, LoadsFit
    <2>4. term'.shows <= term.asked
      BY <2>1 DEF StreamInv, LoadsFit
    <2> QED
      BY <1>6, <2>1, <2>2, <2>3, <2>4
  <1>9. CASE ReadTimeline(load)
    <2>1. CASE term' = [term EXCEPT !.loads = (@ \ {load}) \cup {[load EXCEPT !.text = answered]}]
      <3> DEFINE new == [load EXCEPT !.text = answered]
                 ls == (term.loads \ {load}) \cup {new}
      <3>1. new \in Loads /\ new.no = load.no /\ new.text = answered
        BY <1>2 DEF Loads
      <3>2. ls \in SUBSET Loads
        BY <1>2, <3>1 DEF TermState
      <3>3. term' = [term EXCEPT !.loads = ls]
        BY <1>2, <2>1 DEF TermState
      <3>4. \A other \in ls : other \in term.loads \/ (other.no = load.no /\ other.text = answered)
        BY <3>1
      <3> HIDE DEF ls
      <3> QED
        BY <1>8, <3>2, <3>3, <3>4
    <2>2. CASE term' = [term EXCEPT !.loads = @ \ {load}]
      <3> DEFINE ls == term.loads \ {load}
      <3>1. ls \in SUBSET Loads /\ term' = [term EXCEPT !.loads = ls]
        BY <1>2, <2>2 DEF TermState
      <3>2. \A other \in ls : other \in term.loads
        OBVIOUS
      <3> HIDE DEF ls
      <3> QED
        BY <1>8, <3>1, <3>2
    <2> QED
      BY <1>9, <2>1, <2>2 DEF ReadTimeline
  <1> QED
    BY <1>7, <1>9

LEMMA WebKeeps ==
  ASSUME StreamInv, OpenChat \/ LeaveChat \/ WebEvent \/ WebSend
  PROVE  StreamInv'
  <1> DEFINE l == link["web"]
  <1>1. UNCHANGED <<log, answered, turnRun, term>>
    BY DEF OpenChat, LeaveChat, WebEvent, WebSend
  <1>2. /\ LogIs /\ web \in WebState /\ web.applied \in Seq(Nat) /\ web.claimed \in SUBSET Nat
        /\ web.start \in Nat /\ web.latestSeq \in Nat /\ web.cached \in SUBSET Nat
        /\ link \in [Clients -> LinkState] /\ l \in LinkState /\ streamTroubles \in Nat
        /\ LatestSeq \in Nat
    BY LatestIs DEF StreamInv, StreamTypes, WebState, Clients
  <1>3. streamTroubles' \in Nat
    <2>1. streamTroubles' \in {streamTroubles, streamTroubles + 1}
      BY DEF OpenChat, LeaveChat, WebEvent, WebSend, StreamTrouble
    <2> QED
      BY <1>2, <2>1
  <1>4. Fits(web.applied, web.start, web.latestSeq, web.claimed, l)
    BY DEF StreamInv, WebFits
  <1>5. ASSUME web' \in WebState, link' \in [Clients -> LinkState], link'["term"] = link["term"],
               Fits(web'.applied, web'.start, web'.latestSeq, web'.claimed, link'["web"]),
               ~ web'.open => ~ link'["web"].up /\ link'["web"].pipe = <<>> /\ web'.applied = <<>> /\ web'.claimed = {}
        PROVE  StreamInv'
    <2>1. StreamTypes'
      BY <1>1, <1>3, <1>5 DEF StreamInv, StreamTypes, LogIs
    <2>2. Fits(web.applied, web.start, web.latestSeq, web.claimed, link["web"])'
      BY <1>1, <1>5 DEF Fits, Has, FollowsOn, Reaches, Own
    <2>3. WebFits'
      BY <1>5, <2>2 DEF WebFits, Nothing
    <2> QED
      BY <1>1, <1>5, <2>1, <2>3, TurnKept, TermKept, LoadsKept DEF StreamInv
  <1>6. CASE OpenChat
    <2>1. PICK n \in web.cached \cup {LatestSeq} :
            web' = [web EXCEPT !.open = TRUE, !.start = n, !.latestSeq = n, !.cached = {n}]
      BY <1>6 DEF OpenChat
    <2>2. ~ web.open /\ link' = link
      BY <1>6 DEF OpenChat
    <2>3. ~ l.up /\ l.pipe = <<>> /\ web.applied = <<>> /\ web.claimed = {}
      BY <2>2 DEF StreamInv, WebFits, Nothing
    <2>4. n \in Nat
      BY <1>2, <2>1
    <2>5. /\ web' \in WebState /\ web'.open /\ web'.start = n /\ web'.latestSeq = n
          /\ web'.applied = <<>> /\ web'.claimed = {}
      BY <1>2, <2>1, <2>3, <2>4 DEF WebState
    <2>6. Fits(<<>>, n, n, {}, l)
      BY <1>2, <2>3, <2>4, FitsAtFirst
    <2>7. link' \in [Clients -> LinkState] /\ link'["web"] = l /\ link'["term"] = link["term"]
      BY <1>2, <2>2
    <2>8. Fits(web'.applied, web'.start, web'.latestSeq, web'.claimed, link'["web"])
      BY <2>5, <2>6, <2>7
    <2> QED
      BY <1>5, <2>5, <2>7, <2>8
  <1>7. CASE LeaveChat
    <2>1. /\ web' = [web EXCEPT !.open = FALSE, !.start = 0, !.latestSeq = 0, !.applied = <<>>, !.claimed = {}]
          /\ link' = [link EXCEPT !["web"] = NoLink]
      BY <1>7 DEF LeaveChat
    <2>2. /\ web' \in WebState /\ web'.start = 0 /\ web'.latestSeq = 0
          /\ web'.applied = <<>> /\ web'.claimed = {}
      BY <1>2, <2>1, NothingAscends DEF WebState
    <2>3. NoLink \in LinkState /\ ~ NoLink.up /\ NoLink.pipe = <<>>
      BY NothingAscends DEF NoLink, LinkState
    <2>4. link' \in [Clients -> LinkState] /\ link'["web"] = NoLink /\ link'["term"] = link["term"]
      BY <1>2, <2>1, <2>3 DEF Clients
    <2>5. Fits(<<>>, 0, 0, {}, NoLink)
      BY <2>3, FitsAtFirst
    <2> QED
      BY <1>5, <2>2, <2>3, <2>4, <2>5
  <1>8. CASE WebEvent
    <2> DEFINE n == Head(l.pipe)
               k == Max({n, web.latestSeq})
    <2>1. /\ l.pipe # <<>> /\ link' = [link EXCEPT !["web"].pipe = Tail(@)]
          /\ web' = [web EXCEPT !.applied = Append(@, n), !.latestSeq = k]
      BY <1>8 DEF WebEvent
    <2>2. Ascends(l.pipe)
      BY <1>4 DEF Fits
    <2>3. /\ link' \in [Clients -> LinkState] /\ link'["term"] = link["term"]
          /\ link'["web"].up = l.up /\ link'["web"].after = l.after
          /\ link'["web"].pipe = Tail(l.pipe) /\ n \in Nat /\ link'["web"] \in LinkState
      BY <1>2, <2>1, <2>2, Taken DEF Clients
    <2>4. k \in Nat /\ web.latestSeq <= k /\ n <= k /\ (k = n \/ k = web.latestSeq)
      BY <1>2, <2>3, LargerOf
    <2> HIDE DEF k
    <2>5. Fits(Append(web.applied, n), web.start, k, web.claimed, link'["web"])
      BY <1>2, <1>4, <2>1, <2>3, <2>4, FitsReceived
    <2>6. Append(web.applied, n) \in Seq(Nat)
      BY <1>2, <2>3
    <2> HIDE DEF n
    <2>7. /\ web' \in WebState /\ web'.start = web.start /\ web'.latestSeq = k /\ web'.open = web.open
          /\ web'.applied = Append(web.applied, n) /\ web'.claimed = web.claimed
      BY <1>2, <2>1, <2>4, <2>6 DEF WebState
    <2>8. web.open
      BY <2>1 DEF StreamInv, WebFits, Nothing
    <2>9. Fits(web'.applied, web'.start, web'.latestSeq, web'.claimed, link'["web"])
      BY <2>5, <2>7
    <2> QED
      BY <1>5, <2>3, <2>7, <2>8, <2>9
  <1>9. CASE WebSend
    <2>1. /\ web.open /\ link' = link
          /\ web' = [web EXCEPT !.latestSeq = @ + 1, !.claimed = @ \cup {web.latestSeq + 1}]
      BY <1>9 DEF WebSend
    <2>2. /\ web' \in WebState /\ web'.start = web.start /\ web'.latestSeq = web.latestSeq + 1
          /\ web'.open /\ web'.applied = web.applied /\ web'.claimed = web.claimed \cup {web.latestSeq + 1}
      <3>1. web.latestSeq + 1 \in Nat /\ web.claimed \cup {web.latestSeq + 1} \in SUBSET Nat
        BY <1>2
      <3> QED
        BY <1>2, <2>1, <3>1 DEF WebState
    <2>3. Fits(web.applied, web.start, web.latestSeq + 1, web.claimed \cup {web.latestSeq + 1}, l)
      BY <1>2, <1>4, FitsClaimed
    <2>4. link' \in [Clients -> LinkState] /\ link'["web"] = l /\ link'["term"] = link["term"]
      BY <1>2, <2>1
    <2>5. Fits(web'.applied, web'.start, web'.latestSeq, web'.claimed, link'["web"])
      BY <2>2, <2>3, <2>4
    <2> QED
      BY <1>5, <2>2, <2>4, <2>5
  <1> QED
    BY <1>6, <1>7, <1>8, <1>9

LEMMA StreamIsExact == StreamInv => StreamsAreExact
  <1> SUFFICES ASSUME StreamInv PROVE StreamsAreExact
    OBVIOUS
  <1> DEFINE got == term.applied \o term.buffer
             From(start, last) == {n \in Own : n > start /\ n <= last}
  <1>1. LogIs /\ \A m \in Own : m \in Nat
    BY OwnIsInLog DEF StreamInv, StreamTypes
  <1>2. ASSUME NEW g, NEW s, NEW k, NEW v, NEW l, Fits(g, s, k, v, l)
        PROVE  /\ Ascends(g) /\ ToSet(g) \subseteq From(s, k) /\ From(s, k) \ ToSet(g) \subseteq v
    <2>1. Ascends(g) /\ Has(ToSet(g), s, k, v)
      BY <1>2 DEF Fits
    <2>2. ToSet(g) \subseteq From(s, k)
      BY <2>1 DEF Has
    <2>3. From(s, k) \ ToSet(g) \subseteq v
      BY <1>1, <2>1 DEF Has
    <2> QED
      BY <2>1, <2>2, <2>3
  <1>3. Ascends(got) /\ ToSet(got) = From(term.start, term.lastSeq)
    <2>1. Fits(got, term.start, term.lastSeq, {}, link["term"])
      BY DEF StreamInv, TermFits
    <2> HIDE DEF got, From
    <2> QED
      BY <1>2, <2>1
  <1>4. /\ Ascends(web.applied) /\ ToSet(web.applied) \subseteq From(web.start, web.latestSeq)
        /\ From(web.start, web.latestSeq) \ ToSet(web.applied) \subseteq web.claimed
    BY <1>2 DEF StreamInv, WebFits
  <1> QED
    BY <1>3, <1>4 DEF StreamsAreExact

LEMMA ScreenHolds == StreamInv => ScreenIsWhole
  <1> SUFFICES ASSUME StreamInv, term.asked > 0, term.shows = term.asked, term.lastSeq = LatestSeq,
                      log[LatestSeq] = "end", ~ turnRun.stored
               PROVE  term.screen = answered
    BY DEF ScreenIsWhole
  <1> QED
    BY DEF StreamInv, LoadsFit, Calm

\* What a client has, what is on its way to it and what the server still has to
\* send join up without a gap, over any number of broken connections and restarts,
\* and a terminal that has the end of a turn shows or is owed what is stored
\* (app/routes.go, client/client.go, tui/cmdqueue.go, web/console/src/api/events.ts).
THEOREM StreamInvariant == StreamSpec => []StreamInv
  <1>1. StreamInit => StreamInv
    BY StreamInitially
  <1>2. StreamInv /\ [StreamNext]_streamVars => StreamInv'
    <2> SUFFICES ASSUME StreamInv, [StreamNext]_streamVars PROVE StreamInv'
      OBVIOUS
    <2>1. CASE UNCHANGED streamVars
      <3>1. UNCHANGED <<log, answered, turnRun, link, term, web, streamTroubles>>
        BY <2>1 DEF streamVars
      <3>2. StreamTypes'
        BY <3>1 DEF StreamInv, StreamTypes, LogIs
      <3> QED
        BY <3>1, <3>2, TermKept, WebKept, TurnKept, LoadsKept DEF StreamInv
    <2>2. CASE EmitDelta \/ StoreAnswer \/ EmitEnd
      BY <2>2, AgentKeeps
    <2>3. ASSUME NEW c \in Clients, Connect(c) \/ WriteAvailableEvents(c) \/ ConnectionBreaks(c)
          PROVE  StreamInv'
      BY <2>3, ConnectKeeps, WritesKeep, BreakKeeps
    <2>4. CASE DaemonRestarts \/ OpenTerminal \/ Receive \/ FlushBuffer
      BY <2>4, DaemonRestartKeeps, OpenTerminalKeeps, ReceiveKeeps, FlushKeeps
    <2>5. ASSUME NEW load \in term.loads, ReadTimeline(load) \/ ReplaceTimeline(load)
          PROVE  StreamInv'
      BY <2>5, TimelineKeeps
    <2>6. CASE OpenChat \/ LeaveChat \/ WebEvent \/ WebSend
      BY <2>6, WebKeeps
    <2> QED
      BY <2>1, <2>2, <2>3, <2>4, <2>5, <2>6 DEF StreamNext
  <1> QED
    BY <1>1, <1>2, PTL DEF StreamSpec

\* Reconnecting repeats no event and leaves none out, but for the numbers that the
\* web console has given away, for any page size and any log (app/routes.go,
\* tui/cmdqueue.go, ChatPage.tsx).
THEOREM StreamsStayExact == StreamSpec => []StreamsAreExact
  BY StreamInvariant, StreamIsExact, PTL

\* When a turn has ended and the terminal has loaded what it asked for last, its
\* screen holds the answers of the store (tui/stream.go, agent/agent.go).
THEOREM ScreensEndWhole == StreamSpec => []ScreenIsWhole
  BY StreamInvariant, ScreenHolds, PTL

-----------------------------------------------------------------------------
\* ModelStream

Pieces(n) == [p \in 1 .. n |-> p]
KnownCall == [known : BOOLEAN, deltas : Seq(Nat), done : {<<>>, Whole}]
SentCall == [begun : BOOLEAN, parts : 0 .. Parts, done : BOOLEAN, cut : BOOLEAN]
MadeCall == [id : Items, args : Arguments]

ModelStreamTypes ==
  /\ protocol \in {"openai", "anthropic"}
  /\ sent \in [Items -> SentCall]
  /\ tracker \in [calls : [Items -> KnownCall], order : Seq(Items)]
  /\ sawEnd \in BOOLEAN
  /\ collected \in Seq(MadeCall) /\ ran \in Seq(MadeCall)
  /\ reader \in {"streaming", "running", "done", "failed"}
  /\ callTroubles \in 0 .. CallTroubles

Listening == reader = "streaming" /\ ~ sawEnd
HandedIn(i) == \E k \in DOMAIN collected : collected[k].id = i

\* What the tracker has of a call that it still works on is what was sent, ...
InTheMaking(i) ==
  [known |-> TRUE, deltas |-> Pieces(sent[i].parts),
   done |-> IF protocol = "openai" /\ sent[i].done THEN Whole ELSE <<>>]

\* ... and what comes of a call that was handed on begins in its middle, so that it
\* can be handed on no more.
TooLate(had) == had.done = <<>> /\ had.deltas # <<>> /\ had.deltas[1] > 1

Fresh(i) == sent[i] = Unsent /\ tracker.calls[i] = Unknown /\ ~ HandedIn(i)

StillMade(i) ==
  tracker.calls[i] = InTheMaking(i) /\ (protocol = "anthropic" => ~ sent[i].done)

Passed(i) ==
  /\ sent[i].done
  /\ protocol = "openai" => sent[i].parts >= 1
  /\ tracker.calls[i] = Unknown \/ (protocol = "openai" /\ TooLate(tracker.calls[i]))

ItemFits(i) ==
  /\ ~ sent[i].begun => Fresh(i)
  /\ protocol = "openai" => ~ sent[i].cut
  /\ Listening /\ sent[i].begun /\ ~ HandedIn(i) => StillMade(i)
  /\ Listening /\ HandedIn(i) => Passed(i)

\* Whoever is collected was sent, and once.
CallsFit ==
  \A k \in DOMAIN collected :
    /\ sent[collected[k].id].begun
    /\ collected[k].args = IF sent[collected[k].id].cut THEN "none" ELSE "whole"
    /\ \A j \in 1 .. k - 1 : collected[j].id # collected[k].id

\* Calls are run in their order, when all are there.
RanFits ==
  /\ Len(ran) <= Len(collected) /\ \A k \in DOMAIN ran : ran[k] = collected[k]
  /\ reader = "streaming" => ran = <<>>
  /\ reader = "done" => Len(ran) = Len(collected)
  /\ ran # <<>> \/ reader \in {"running", "done"} => sawEnd

AllHandedIn ==
  sawEnd /\ reader # "failed" => \A i \in Items : sent[i].begun => HandedIn(i)

CallInv == ModelStreamTypes /\ (\A i \in Items : ItemFits(i)) /\ CallsFit /\ RanFits /\ AllHandedIn

-----------------------------------------------------------------------------

\* Pieces that come one by one.
LEMMA PieceBy ==
  /\ Pieces(0) = <<>>
  /\ \A n \in Nat : Pieces(n) \in Seq(Nat) /\ Append(Pieces(n), n + 1) = Pieces(n + 1)
  /\ Whole = Pieces(Parts) /\ Whole # <<>>
  /\ \A n \in Nat : Pieces(n) = Whole <=> n = Parts
  <1>1. Pieces(0) = <<>>
    BY DEF Pieces
  <1>2. ASSUME NEW n \in Nat PROVE Pieces(n) \in Seq(Nat) /\ Len(Pieces(n)) = n
    BY <1>2 DEF Pieces
  <1>3. ASSUME NEW n \in Nat PROVE Append(Pieces(n), n + 1) = Pieces(n + 1)
    <2>1. Len(Append(Pieces(n), n + 1)) = n + 1 /\ Append(Pieces(n), n + 1) \in Seq(Nat)
      BY <1>2, <1>3
    <2>2. \A p \in 1 .. n + 1 : Append(Pieces(n), n + 1)[p] = p
      BY <1>2, <1>3 DEF Pieces
    <2>3. Pieces(n + 1) \in Seq(Nat) /\ Len(Pieces(n + 1)) = n + 1 /\ \A p \in 1 .. n + 1 : Pieces(n + 1)[p] = p
      BY <1>2, <1>3 DEF Pieces
    <2> QED BY <2>1, <2>2, <2>3, SeqEqual
  <1>4. Whole = Pieces(Parts) /\ Parts \in Nat \ {0}
    BY ModelStreamParameters DEF Whole, Pieces
  <1>5. \A n \in Nat : Pieces(n) = Whole <=> n = Parts
    BY <1>2, <1>4
  <1>6. Whole # <<>>
    BY <1>1, <1>4, <1>5
  <1> QED BY <1>1, <1>2, <1>3, <1>4, <1>5, <1>6

\* The states of a call have their types, and the bounds are numbers.
LEMMA StatesAre ==
  /\ Parts \in Nat \ {0} /\ CallTroubles \in Nat
  /\ Unsent \in SentCall /\ Unknown \in KnownCall
  /\ SentCall = [begun : BOOLEAN, parts : 0 .. Parts, done : BOOLEAN, cut : BOOLEAN]
  <1>1. Parts \in Nat \ {0} /\ CallTroubles \in Nat
    BY ModelStreamParameters
  <1>2. 0 \in 0 .. Parts
    BY <1>1
  <1>3. Unsent \in SentCall
    BY <1>2 DEF Unsent, SentCall
  <1>4. <<>> \in Seq(Nat)
    OBVIOUS
  <1>5. Unknown \in KnownCall
    BY <1>4 DEF Unknown, KnownCall
  <1> QED BY <1>1, <1>3, <1>5 DEF SentCall

\* A record by its parts, and what it is with some of them replaced.
LEMMA CallIs ==
  ASSUME NEW known, NEW deltas, NEW done,
         NEW had \in [known : {known}, deltas : {deltas}, done : {done}]
  PROVE  had = [known |-> known, deltas |-> deltas, done |-> done]
  OBVIOUS

LEMMA CallWith ==
  ASSUME NEW had \in KnownCall, NEW d
  PROVE  /\ [had EXCEPT !.known = TRUE, !.deltas = d] = [known |-> TRUE, deltas |-> d, done |-> had.done]
         /\ [had EXCEPT !.done = d] = [known |-> had.known, deltas |-> had.deltas, done |-> d]
  <1>1. PICK known \in BOOLEAN, deltas \in Seq(Nat), done \in {<<>>, Whole} :
          had = [known |-> known, deltas |-> deltas, done |-> done]
    BY DEF KnownCall
  <1>2. had.known = known /\ had.deltas = deltas /\ had.done = done
    BY <1>1
  <1>3. [had EXCEPT !.known = TRUE, !.deltas = d] = [known |-> TRUE, deltas |-> d, done |-> done]
    <2>1. [had EXCEPT !.known = TRUE, !.deltas = d] \in [known : {TRUE}, deltas : {d}, done : {done}]
      BY <1>1
    <2> QED BY <2>1, CallIs
  <1>4. [had EXCEPT !.done = d] = [known |-> known, deltas |-> deltas, done |-> d]
    BY <1>1
  <1> QED BY <1>2, <1>3, <1>4

\* What can be made of the arguments of a call.
LEMMA ParsedAre ==
  /\ \A n \in Nat : Parsed(Pieces(n), Whole) = {"whole"}
  /\ Parsed(Whole, <<>>) = {"whole"}
  /\ \A had \in KnownCall : TooLate(had) => Parsed(had.deltas, had.done) = {}
  <1>1. (\A n \in Nat : Parsed(Pieces(n), Whole) = {"whole"}) /\ Parsed(Whole, <<>>) = {"whole"}
    BY DEF Parsed
  <1>2. ASSUME NEW had \in KnownCall, TooLate(had) PROVE Parsed(had.deltas, had.done) = {}
    <2>1. had.deltas \in Seq(Nat) /\ had.deltas # <<>> /\ had.deltas[1] # 1 /\ had.done = <<>>
      BY <1>2 DEF KnownCall, TooLate
    <2>2. Whole[1] = 1
      BY StatesAre DEF Whole
    <2>4. Whole # <<>>
      BY PieceBy
    <2>3. had.deltas \o had.done = had.deltas
      BY <2>1
    <2> QED BY <2>1, <2>2, <2>3, <2>4 DEF Parsed
  <1> QED BY <1>1, <1>2

\* The lists that a response can be handed on as: every known call once.
LEMMA HandedOnAre ==
  ASSUME ModelStreamTypes, NEW calls \in HandedOn(tracker)
  PROVE  /\ calls \in Seq(MadeCall)
         /\ \A k \in DOMAIN calls :
              /\ tracker.calls[calls[k].id].known
              /\ calls[k].args \in Parsed(tracker.calls[calls[k].id].deltas, tracker.calls[calls[k].id].done)
              /\ \A j \in 1 .. k - 1 : calls[j].id # calls[k].id
         /\ \A i \in Items : tracker.calls[i].known =>
              /\ \E k \in DOMAIN calls : calls[k].id = i
              /\ Parsed(tracker.calls[i].deltas, tracker.calls[i].done) # {}
  <1> DEFINE known == KnownIn(tracker)
             Comes(i, j) ==
               \E p \in DOMAIN tracker.order :
                 tracker.order[p] = i /\ \A q \in 1 .. p : tracker.order[q] # j
  <1>1. PICK l \in OrdersOf(tracker), args \in ParsingsOf(tracker) :
          calls = [k \in DOMAIN l |-> Call(l[k], args[l[k]])]
    BY DEF HandedOn
  <1>2. Cardinality(known) \in Nat
    <2>1. IsFiniteSet(known)
      BY ModelStreamParameters, FS_Subset DEF KnownIn
    <2> QED BY <2>1, FS_CardinalityType
  <1>3. DOMAIN l = 1 .. Cardinality(known) /\ (\A k \in DOMAIN l : l[k] \in known)
    BY DEF OrdersOf
  <1>4. \A i \in known : \E k \in DOMAIN l : l[k] = i
    BY DEF OrdersOf, ToSet
  <1>5. \A j, k \in DOMAIN l : j < k => Comes(l[j], l[k])
    BY DEF OrdersOf
  <1>6. ASSUME NEW i \in known PROVE ~ Comes(i, i)
    <2> SUFFICES ASSUME NEW p \in DOMAIN tracker.order, tracker.order[p] = i,
                        \A q \in 1 .. p : tracker.order[q] # i
                 PROVE  FALSE
      OBVIOUS
    <2>1. tracker.order \in Seq(Items)
      BY DEF ModelStreamTypes
    <2>2. p \in 1 .. p
      BY <2>1
    <2> QED BY <2>2
  <1>7. ASSUME NEW k \in DOMAIN l, NEW j \in 1 .. k - 1 PROVE l[j] # l[k] /\ j \in DOMAIN l
    <2>1. j \in DOMAIN l /\ j < k
      BY <1>2, <1>3
    <2>2. Comes(l[j], l[k])
      BY <1>5, <2>1
    <2> HIDE DEF Comes
    <2> QED BY <2>1, <2>2, <1>3, <1>6
  <1>8. \A i \in known : args[i] \in Arguments /\ args[i] \in Parsed(tracker.calls[i].deltas, tracker.calls[i].done)
    BY DEF ParsingsOf
  <1>9. \A i \in Items : i \in known <=> tracker.calls[i].known
    BY DEF KnownIn
  <1>10. known \subseteq Items
    BY DEF KnownIn
  <1> HIDE DEF known, Comes
  <1>11. /\ DOMAIN calls = DOMAIN l
         /\ \A k \in DOMAIN l : calls[k].id = l[k] /\ calls[k].args = args[l[k]] /\ calls[k] \in MadeCall
    BY <1>1, <1>3, <1>8, <1>10 DEF Call, MadeCall
  <1>12. calls \in [1 .. Cardinality(known) -> MadeCall]
    BY <1>1, <1>3, <1>11
  <1>13. calls \in Seq(MadeCall)
    BY <1>2, <1>12
  <1>14. ASSUME NEW k \in DOMAIN calls
         PROVE  /\ tracker.calls[calls[k].id].known
                /\ calls[k].args \in Parsed(tracker.calls[calls[k].id].deltas, tracker.calls[calls[k].id].done)
                /\ \A j \in 1 .. k - 1 : calls[j].id # calls[k].id
    <2>1. calls[k].id = l[k] /\ l[k] \in known
      BY <1>3, <1>11
    <2>2. \A j \in 1 .. k - 1 : calls[j].id # calls[k].id
      BY <1>7, <1>11
    <2> QED BY <2>1, <2>2, <1>8, <1>9, <1>10, <1>11
  <1>15. ASSUME NEW i \in Items, tracker.calls[i].known
         PROVE  /\ \E k \in DOMAIN calls : calls[k].id = i
                /\ Parsed(tracker.calls[i].deltas, tracker.calls[i].done) # {}
    BY <1>15, <1>4, <1>8, <1>9, <1>11
  <1> QED BY <1>13, <1>14, <1>15

-----------------------------------------------------------------------------

\* Nothing was sent, and nothing is known.
LEMMA ModelStreamInitially == ModelStreamInit => CallInv
  <1> SUFFICES ASSUME ModelStreamInit PROVE CallInv
    OBVIOUS
  <1>1. ModelStreamTypes
    <2>1. sent \in [Items -> SentCall] /\ [i \in Items |-> Unknown] \in [Items -> KnownCall]
      BY StatesAre DEF ModelStreamInit
    <2>2. <<>> \in Seq(Items) /\ <<>> \in Seq(MadeCall) /\ callTroubles \in 0 .. CallTroubles
      BY StatesAre DEF ModelStreamInit
    <2> QED BY <2>1, <2>2 DEF ModelStreamInit, ModelStreamTypes
  <1>2. \A i \in Items : ItemFits(i)
    BY DEF ModelStreamInit, ItemFits, Fresh, HandedIn, Unsent
  <1>3. CallsFit /\ RanFits /\ AllHandedIn
    BY DEF ModelStreamInit, CallsFit, RanFits, AllHandedIn
  <1> QED BY <1>1, <1>2, <1>3 DEF CallInv

\* Nothing is run while the stream is read.
LEMMA StillReading ==
  ASSUME CallInv, Frame, collected' \in Seq(MadeCall), reader' \in {"streaming", "failed"}
  PROVE  RanFits'
  <1>1. ran' = <<>>
    BY DEF CallInv, RanFits, Frame
  <1> QED BY <1>1 DEF RanFits

\* A frame of one call leaves the others as they were, ...
LEMMA OthersFit ==
  ASSUME CallInv, Frame, NEW i \in Items,
         \A j \in Items \ {i} :
           sent'[j] = sent[j] /\ tracker'.calls[j] = tracker.calls[j] /\ (HandedIn(j)' <=> HandedIn(j))
  PROVE  \A j \in Items \ {i} : ItemFits(j)'
  <1> TAKE j \in Items \ {i}
  <1>1. Listening /\ protocol' = protocol
    BY DEF Frame, Listening
  <1>2. InTheMaking(j)' = InTheMaking(j)
    BY <1>1 DEF InTheMaking
  <1>3. ItemFits(j)
    BY DEF CallInv
  <1>4. ~ sent'[j].begun => Fresh(j)'
    BY <1>3 DEF ItemFits, Fresh
  <1>5. (Passed(j)' <=> Passed(j)) /\ (StillMade(j)' <=> StillMade(j))
    BY <1>1, <1>2 DEF Passed, StillMade
  <1> QED BY <1>1, <1>3, <1>4, <1>5 DEF ItemFits

\* ... and what was collected before.
LEMMA CollectedFit ==
  ASSUME CallInv, collected' = collected,
         \A j \in Items : HandedIn(j) => sent'[j].begun = sent[j].begun /\ sent'[j].cut = sent[j].cut
  PROVE  CallsFit'
  <1> SUFFICES ASSUME NEW k \in DOMAIN collected
               PROVE  /\ sent'[collected[k].id].begun
                      /\ collected[k].args = IF sent'[collected[k].id].cut THEN "none" ELSE "whole"
                      /\ \A j \in 1 .. k - 1 : collected[j].id # collected[k].id
    BY DEF CallsFit
  <1>1. collected[k] \in MadeCall
    BY DEF CallInv, ModelStreamTypes
  <1>2. collected[k].id \in Items /\ HandedIn(collected[k].id)
    BY <1>1 DEF MadeCall, HandedIn
  <1>3. CallsFit
    BY DEF CallInv
  <1> QED BY <1>2, <1>3 DEF CallsFit

\* A call that a frame names is registered, if it was not.
LEMMA EnsureCallIs ==
  ASSUME ModelStreamTypes, NEW i \in Items
  PROVE  /\ EnsureCall(tracker, i) \in [calls : [Items -> KnownCall], order : Seq(Items)]
         /\ EnsureCall(tracker, i).calls[i] = [tracker.calls[i] EXCEPT !.known = TRUE]
         /\ \A j \in Items \ {i} : EnsureCall(tracker, i).calls[j] = tracker.calls[j]
  <1> DEFINE order == IF tracker.calls[i].known THEN tracker.order ELSE Append(tracker.order, i)
             had == [tracker.calls[i] EXCEPT !.known = TRUE]
  <1>1. tracker.calls \in [Items -> KnownCall] /\ tracker.order \in Seq(Items)
    BY DEF ModelStreamTypes
  <1>2. order \in Seq(Items)
    BY <1>1
  <1>3. had \in KnownCall
    BY <1>1 DEF KnownCall
  <1>4. EnsureCall(tracker, i) = [tracker EXCEPT !.order = order, !.calls[i] = had]
    BY DEF EnsureCall
  <1> HIDE DEF order, had
  <1>5. tracker = [calls |-> tracker.calls, order |-> tracker.order]
    BY DEF ModelStreamTypes
  <1>6. EnsureCall(tracker, i) = [calls |-> [tracker.calls EXCEPT ![i] = had], order |-> order]
    BY <1>4, <1>5
  <1>7. [tracker.calls EXCEPT ![i] = had] \in [Items -> KnownCall]
    BY <1>1, <1>3
  <1>8. EnsureCall(tracker, i).calls[i] = had
        /\ \A j \in Items \ {i} : EnsureCall(tracker, i).calls[j] = tracker.calls[j]
    BY <1>1, <1>6
  <1> QED BY <1>2, <1>6, <1>7, <1>8 DEF had

\* What has begun is known, and nothing of it was sent.
LEMMA BeginKeepsCalls == ASSUME CallInv, NEW i \in Items, BeginItem(i) PROVE CallInv'
  <1>1. /\ Frame /\ Listening /\ ~ sent[i].begun /\ UNCHANGED <<protocol, sawEnd, ran, collected, reader, callTroubles>>
        /\ sent' = [sent EXCEPT ![i].begun = TRUE] /\ tracker' = EnsureCall(tracker, i)
    BY DEF BeginItem, Frame, NoNewCall, Listening
  <1>2. ModelStreamTypes /\ ItemFits(i)
    BY DEF CallInv
  <1>3. Fresh(i)
    BY <1>1, <1>2 DEF ItemFits
  <1>4. /\ tracker' \in [calls : [Items -> KnownCall], order : Seq(Items)]
        /\ tracker'.calls[i] = [Unknown EXCEPT !.known = TRUE]
        /\ \A j \in Items \ {i} : tracker'.calls[j] = tracker.calls[j]
    BY <1>1, <1>2, <1>3, EnsureCallIs DEF Fresh
  <1>5. sent \in [Items -> SentCall]
    BY <1>2 DEF ModelStreamTypes
  <1>6. sent'[i] = [Unsent EXCEPT !.begun = TRUE] /\ \A j \in Items \ {i} : sent'[j] = sent[j]
    BY <1>1, <1>3, <1>5 DEF Fresh
  <1>7. sent'[i] = [begun |-> TRUE, parts |-> 0, done |-> FALSE, cut |-> FALSE] /\ sent'[i] \in SentCall
    BY <1>6, StatesAre DEF Unsent
  <1>8. sent' \in [Items -> SentCall]
    BY <1>1, <1>5, <1>7
  <1>9. \A j \in Items : HandedIn(j)' <=> HandedIn(j)
    BY <1>1 DEF HandedIn
  <1>10. ModelStreamTypes'
    BY <1>1, <1>2, <1>4, <1>8 DEF ModelStreamTypes
  <1>11. \A j \in Items \ {i} : ItemFits(j)'
    BY <1>1, <1>4, <1>6, <1>9, OthersFit
  <1>12. InTheMaking(i)' = tracker'.calls[i]
    <2>1. Pieces(0) = <<>>
      BY PieceBy
    <2>2. tracker'.calls[i] = [known |-> TRUE, deltas |-> <<>>, done |-> <<>>]
      BY <1>4 DEF Unknown
    <2>3. sent'[i].parts = 0 /\ ~ sent'[i].done
      BY <1>7
    <2> QED BY <2>1, <2>2, <2>3 DEF InTheMaking
  <1>13. ItemFits(i)'
    BY <1>3, <1>7, <1>9, <1>12 DEF ItemFits, Fresh, StillMade
  <1>14. CallsFit'
    BY <1>1, <1>3, <1>6, CollectedFit DEF Fresh
  <1>15. RanFits'
    BY <1>1, <1>10, StillReading DEF ModelStreamTypes, Listening
  <1>16. AllHandedIn'
    BY <1>1 DEF AllHandedIn, Listening
  <1> QED BY <1>10, <1>11, <1>13, <1>14, <1>15, <1>16 DEF CallInv

\* One more call is collected, or the turn fails.
LEMMA CollectsOne ==
  ASSUME CallInv, Frame, sawEnd' = sawEnd, NEW i \in Items, ~ HandedIn(i), NEW args \in Arguments,
         Collect(<<Call(i, args)>>),
         \A j \in Items : sent'[j].begun = sent[j].begun,
         sent[i].begun, args = IF sent'[i].cut THEN "none" ELSE "whole",
         \A j \in Items \ {i} : sent'[j].cut = sent[j].cut
  PROVE  /\ collected' \in Seq(MadeCall) /\ reader' \in {"streaming", "failed"}
         /\ callTroubles' \in 0 .. CallTroubles
         /\ \A j \in Items \ {i} : HandedIn(j)' <=> HandedIn(j)
         /\ Listening' => HandedIn(i)'
         /\ CallsFit'
  <1>1. Call(i, args) \in MadeCall /\ collected \in Seq(MadeCall) /\ callTroubles \in 0 .. CallTroubles
    BY DEF Call, MadeCall, CallInv, ModelStreamTypes
  <1>2. CASE collected' = collected \o <<Call(i, args)>> /\ UNCHANGED <<reader, callTroubles>>
    <2> DEFINE n == Len(collected)
    <2>1. n \in Nat /\ DOMAIN collected = 1 .. n
      BY <1>1
    <2>2. /\ collected' \in Seq(MadeCall) /\ DOMAIN collected' = 1 .. n + 1
          /\ collected'[n + 1] = Call(i, args) /\ \A k \in 1 .. n : collected'[k] = collected[k]
      BY <1>1, <1>2
    <2> HIDE DEF n
    <2>3. \A j \in Items : HandedIn(j)' <=> HandedIn(j) \/ j = i
      <3>1. Call(i, args).id = i
        BY DEF Call
      <3>2. DOMAIN collected' = DOMAIN collected \cup {n + 1}
        BY <2>1, <2>2
      <3> QED BY <3>1, <3>2, <2>1, <2>2 DEF HandedIn
    <2>4. CallsFit'
      <3> SUFFICES ASSUME NEW k \in 1 .. n + 1
                   PROVE  /\ sent'[collected'[k].id].begun
                          /\ collected'[k].args = IF sent'[collected'[k].id].cut THEN "none" ELSE "whole"
                          /\ \A j \in 1 .. k - 1 : collected'[j].id # collected'[k].id
        BY <2>2 DEF CallsFit
      <3>1. CASE k = n + 1
        <4>1. collected'[k].id = i /\ collected'[k].args = args
          BY <2>2, <3>1 DEF Call
        <4>2. \A j \in 1 .. k - 1 : collected'[j] = collected[j] /\ j \in DOMAIN collected
          BY <2>1, <2>2, <3>1
        <4>3. \A j \in 1 .. k - 1 : collected'[j].id # i
          BY <4>2 DEF HandedIn
        <4> QED BY <4>1, <4>3
      <3>2. CASE k # n + 1
        <4>1. k \in 1 .. n /\ \A j \in 1 .. k - 1 : j \in 1 .. n
          BY <2>1, <3>2
        <4>2. collected'[k] = collected[k] /\ \A j \in 1 .. k - 1 : collected'[j] = collected[j]
          BY <2>2, <4>1
        <4>3. collected[k] \in MadeCall /\ HandedIn(collected[k].id)
          BY <1>1, <2>1, <4>1 DEF HandedIn
        <4>4. collected[k].id \in Items \ {i}
          BY <4>3 DEF MadeCall
        <4>5. CallsFit
          BY DEF CallInv
        <4> QED BY <2>1, <4>1, <4>2, <4>4, <4>5 DEF CallsFit
      <3> QED BY <3>1, <3>2
    <2> QED BY <1>1, <1>2, <2>2, <2>3, <2>4 DEF Frame
  <1>3. CASE callTroubles < CallTroubles /\ callTroubles' = callTroubles + 1 /\ FailStream /\ UNCHANGED collected
    <2>1. callTroubles' \in 0 .. CallTroubles
      BY <1>1, <1>3, StatesAre
    <2>2. \A j \in Items : HandedIn(j)' <=> HandedIn(j)
      BY <1>3 DEF HandedIn
    <2>3. CallsFit'
      BY <1>3, CollectedFit
    <2> QED BY <1>1, <1>3, <2>1, <2>2, <2>3 DEF FailStream, Listening
  <1> QED BY <1>2, <1>3 DEF Collect

\* A piece is added to a call still made; the one after its done event hands it on,
\* and any later one is too late.
LEMMA DeltaKeeps == ASSUME CallInv, NEW i \in Items, ArgumentsDelta(i) PROVE CallInv'
  <1> DEFINE p == sent[i].parts + 1
             had == tracker.calls[i]
             late == [had EXCEPT !.known = TRUE, !.deltas = Append(@, p)]
             got == [EnsureCall(tracker, i) EXCEPT !.calls[i] = late]
  <1>1. /\ Frame /\ Listening /\ sent[i].begun /\ p <= Parts /\ UNCHANGED <<protocol, ran, sawEnd>>
        /\ protocol = "anthropic" => ~ sent[i].done
        /\ sent' = [sent EXCEPT ![i].parts = p]
    BY DEF ArgumentsDelta, Frame, Listening
  <1>2. /\ ModelStreamTypes /\ ItemFits(i) /\ sent \in [Items -> SentCall]
        /\ protocol \in {"openai", "anthropic"}
    BY DEF CallInv, ModelStreamTypes
  <1>3. sent[i] \in SentCall /\ sent[i].parts \in Nat /\ p \in 1 .. Parts
    BY <1>1, <1>2, StatesAre
  <1>4. sent'[i] = [sent[i] EXCEPT !.parts = p] /\ \A j \in Items \ {i} : sent'[j] = sent[j]
    BY <1>1, <1>2
  <1>5. /\ sent'[i].parts = p /\ sent'[i].begun = sent[i].begun
        /\ sent'[i].done = sent[i].done /\ sent'[i].cut = sent[i].cut
    BY <1>3, <1>4, StatesAre
  <1>6. sent' \in [Items -> SentCall]
    <2>1. [sent[i] EXCEPT !.parts = p] \in SentCall
      BY <1>3, StatesAre
    <2> QED BY <1>1, <1>2, <2>1
  <1>7. had \in KnownCall
    BY <1>2 DEF ModelStreamTypes
  <1>8. late = [known |-> TRUE, deltas |-> Append(had.deltas, p), done |-> had.done] /\ late \in KnownCall
    <2>1. had.deltas \in Seq(Nat) /\ p \in Nat
      BY <1>3, <1>7 DEF KnownCall
    <2>2. Append(had.deltas, p) \in Seq(Nat)
      BY <2>1
    <2>3. late = [known |-> TRUE, deltas |-> Append(had.deltas, p), done |-> had.done]
      <3> HIDE DEF had, p
      <3> QED BY <1>7, CallWith
    <2>4. had.done \in {<<>>, Whole}
      BY <1>7 DEF KnownCall
    <2> QED BY <2>2, <2>3, <2>4 DEF KnownCall
  <1> HIDE DEF late
  <1>9. /\ got \in [calls : [Items -> KnownCall], order : Seq(Items)]
        /\ got.calls[i] = late /\ \A j \in Items \ {i} : got.calls[j] = tracker.calls[j]
    BY <1>2, <1>8, EnsureCallIs
  <1> HIDE DEF got
  <1>10. /\ Finalize(got, i) \in [calls : [Items -> KnownCall], order : Seq(Items)]
         /\ Finalize(got, i).calls[i] = Unknown /\ \A j \in Items \ {i} : Finalize(got, i).calls[j] = tracker.calls[j]
    BY <1>9, StatesAre DEF Finalize
  <1>11. late.deltas = Append(had.deltas, p) /\ late.done = had.done /\ late.known
    BY <1>8
  <1>12. had = InTheMaking(i) => late.deltas = Pieces(p)
    <2> SUFFICES ASSUME had = InTheMaking(i) PROVE late.deltas = Pieces(p)
      OBVIOUS
    <2>1. had.deltas = Pieces(sent[i].parts)
      BY DEF InTheMaking
    <2> QED BY <1>3, <1>11, <2>1, PieceBy
  <1>13. CASE (late.done = <<>> \/ Parsed(late.deltas, late.done) = {}) /\ tracker' = got /\ NoNewCall
    <2>1. UNCHANGED <<collected, reader, callTroubles>>
      BY <1>13 DEF NoNewCall
    <2>2. ModelStreamTypes'
      BY <1>1, <1>2, <1>6, <1>9, <1>13, <2>1 DEF ModelStreamTypes
    <2>3. \A j \in Items : HandedIn(j)' <=> HandedIn(j)
      BY <2>1 DEF HandedIn
    <2>9. tracker'.calls[i] = late
      BY <1>9, <1>13
    <2>4. \A j \in Items \ {i} : ItemFits(j)'
      BY <1>1, <1>4, <1>9, <1>13, <2>3, OthersFit
    <2>5. ASSUME ~ HandedIn(i) PROVE ItemFits(i)'
      <3>1. had = InTheMaking(i)
        BY <1>1, <1>2, <2>5 DEF ItemFits, StillMade
      <3>2. late = InTheMaking(i)'
        <4>1. had.done = IF protocol = "openai" /\ sent[i].done THEN Whole ELSE <<>>
          BY <3>1 DEF InTheMaking
        <4>2. late = [known |-> TRUE, deltas |-> Pieces(p), done |-> had.done]
          BY <1>8, <1>11, <1>12, <3>1
        <4> HIDE DEF p, had
        <4> QED BY <1>1, <1>5, <4>1, <4>2 DEF InTheMaking
      <3>3. StillMade(i)'
        BY <1>1, <1>5, <2>9, <3>2 DEF StillMade
      <3> QED BY <1>1, <1>2, <1>5, <2>3, <2>5, <3>3 DEF ItemFits
    <2>6. ASSUME HandedIn(i) PROVE ItemFits(i)'
      <3>1. Passed(i)
        BY <1>1, <1>2, <2>6 DEF ItemFits
      <3>2. protocol = "openai" /\ sent[i].parts >= 1 /\ sent[i].done
        BY <1>1, <1>2, <3>1 DEF Passed
      <3>3. TooLate(late)
        <4>1. CASE had = Unknown
          <5>1. late.deltas = <<p>> /\ late.done = <<>>
            BY <1>11, <4>1 DEF Unknown
          <5> QED BY <5>1, <3>2, <1>3 DEF TooLate
        <4>2. CASE TooLate(had)
          <5>1. had.deltas \in Seq(Nat) /\ had.deltas # <<>> /\ had.done = <<>> /\ had.deltas[1] > 1
            BY <1>7, <4>2 DEF KnownCall, TooLate
          <5>2. Append(had.deltas, p) # <<>> /\ Append(had.deltas, p)[1] = had.deltas[1]
            BY <5>1, <1>3
          <5> QED BY <1>11, <5>1, <5>2 DEF TooLate
        <4> QED BY <3>1, <4>1, <4>2 DEF Passed
      <3>4. Passed(i)'
        BY <1>1, <1>3, <1>5, <2>9, <3>2, <3>3 DEF Passed
      <3> QED BY <1>1, <1>2, <1>5, <2>3, <2>6, <3>4 DEF ItemFits
    <2>7. CallsFit'
      BY <1>4, <1>5, <2>1, CollectedFit
    <2>8. RanFits'
      BY <1>1, <2>1, <2>2, StillReading DEF ModelStreamTypes, Listening
    <2> QED BY <1>1, <2>1, <2>2, <2>4, <2>5, <2>6, <2>7, <2>8 DEF AllHandedIn, Listening,
               CallInv
  <1>14. CASE /\ late.done # <<>>
              /\ tracker' = Finalize(got, i)
              /\ \E args \in Parsed(late.deltas, late.done) : Collect(<<Call(i, args)>>)
    <2>1. ~ HandedIn(i)
      BY <1>1, <1>2, <1>11, <1>14 DEF ItemFits, Passed, TooLate, Unknown
    <2>2. had = InTheMaking(i)
      BY <1>1, <1>2, <2>1 DEF ItemFits, StillMade
    <2>3. late.done = Whole /\ protocol = "openai" /\ sent[i].done
      <3>1. had.done = IF protocol = "openai" /\ sent[i].done THEN Whole ELSE <<>>
        BY <2>2 DEF InTheMaking
      <3> QED BY <1>11, <1>14, <3>1
    <2>4. Parsed(late.deltas, late.done) = {"whole"}
      <3>1. p \in Nat
        BY <1>3
      <3> QED BY <1>12, <2>2, <2>3, <3>1, ParsedAre
    <2>5. Collect(<<Call(i, "whole")>>) /\ "whole" \in Arguments
      BY <1>14, <2>4 DEF Arguments
    <2>6. ~ sent[i].cut
      BY <1>2, <2>3 DEF ItemFits
    <2>7. /\ collected' \in Seq(MadeCall) /\ reader' \in {"streaming", "failed"}
          /\ callTroubles' \in 0 .. CallTroubles
          /\ \A j \in Items \ {i} : HandedIn(j)' <=> HandedIn(j)
          /\ Listening' => HandedIn(i)'
          /\ CallsFit'
      BY <1>1, <1>4, <1>5, <2>1, <2>5, <2>6, CollectsOne
    <2>8. ModelStreamTypes'
      BY <1>1, <1>2, <1>6, <1>10, <1>14, <2>7 DEF ModelStreamTypes
    <2>9. \A j \in Items \ {i} : ItemFits(j)'
      BY <1>1, <1>4, <1>10, <1>14, <2>7, OthersFit
    <2>10. Passed(i)'
      BY <1>1, <1>3, <1>5, <1>10, <1>14, <2>3 DEF Passed
    <2>11. ItemFits(i)'
      BY <1>1, <1>5, <2>6, <2>7, <2>10 DEF ItemFits
    <2>12. RanFits'
      BY <1>1, <2>7, StillReading
    <2> QED BY <1>1, <2>7, <2>8, <2>9, <2>11, <2>12 DEF AllHandedIn, Listening, CallInv
  <1> QED BY <1>13, <1>14 DEF ArgumentsDelta, late, got

\* The copy of a done event is kept beside the pieces.
LEMMA DoneKeeps == ASSUME CallInv, NEW i \in Items, ArgumentsDone(i) PROVE CallInv'
  <1> DEFINE got == [EnsureCall(tracker, i) EXCEPT !.calls[i].done = Whole]
  <1>1. /\ Frame /\ Listening /\ protocol = "openai" /\ sent[i].begun /\ ~ sent[i].done
        /\ UNCHANGED <<protocol, sawEnd, ran, collected, reader, callTroubles>>
        /\ sent' = [sent EXCEPT ![i].done = TRUE] /\ tracker' = got
    BY DEF ArgumentsDone, Frame, NoNewCall, Listening
  <1>2. ModelStreamTypes /\ ItemFits(i) /\ sent \in [Items -> SentCall]
    BY DEF CallInv, ModelStreamTypes
  <1>3. ~ HandedIn(i) /\ tracker.calls[i] = InTheMaking(i)
    BY <1>1, <1>2 DEF ItemFits, Passed, StillMade
  <1>4. tracker.calls[i] = [known |-> TRUE, deltas |-> Pieces(sent[i].parts), done |-> <<>>]
    BY <1>1, <1>3 DEF InTheMaking
  <1>5. /\ got.calls[i] = [known |-> TRUE, deltas |-> Pieces(sent[i].parts), done |-> Whole]
        /\ got \in [calls : [Items -> KnownCall], order : Seq(Items)]
        /\ \A j \in Items \ {i} : got.calls[j] = tracker.calls[j]
    <2> DEFINE e == EnsureCall(tracker, i)
    <2>1. e \in [calls : [Items -> KnownCall], order : Seq(Items)]
          /\ e.calls[i] = [known |-> TRUE, deltas |-> Pieces(sent[i].parts), done |-> <<>>]
          /\ \A j \in Items \ {i} : e.calls[j] = tracker.calls[j]
      BY <1>2, <1>4, EnsureCallIs
    <2> HIDE DEF e
    <2>2. got = [e EXCEPT !.calls[i] = [e.calls[i] EXCEPT !.done = Whole]]
      BY DEF e
    <2>3. [e.calls[i] EXCEPT !.done = Whole] = [known |-> TRUE, deltas |-> Pieces(sent[i].parts), done |-> Whole]
      <3> DEFINE c == e.calls[i]
      <3>1. c \in KnownCall /\ c.known = TRUE /\ c.deltas = Pieces(sent[i].parts)
        BY <2>1
      <3> HIDE DEF c
      <3>2. [c EXCEPT !.done = Whole] = [known |-> c.known, deltas |-> c.deltas, done |-> Whole]
        BY <3>1, CallWith
      <3> QED BY <3>1, <3>2 DEF c
    <2>4. [known |-> TRUE, deltas |-> Pieces(sent[i].parts), done |-> Whole] \in KnownCall
      <3>1. sent[i].parts \in Nat
        BY <1>2, StatesAre
      <3>2. Pieces(sent[i].parts) \in Seq(Nat)
        BY <3>1, PieceBy
      <3> QED BY <3>2 DEF KnownCall
    <2> HIDE DEF got
    <2> QED BY <2>1, <2>2, <2>3, <2>4
  <1> HIDE DEF got
  <1>6. sent'[i] = [sent[i] EXCEPT !.done = TRUE] /\ \A j \in Items \ {i} : sent'[j] = sent[j]
    BY <1>1, <1>2
  <1>7. /\ sent' \in [Items -> SentCall]
        /\ sent'[i].parts = sent[i].parts /\ sent'[i].begun /\ sent'[i].done /\ sent'[i].cut = sent[i].cut
    <2>1. [sent[i] EXCEPT !.done = TRUE] \in SentCall
      BY <1>2, StatesAre
    <2> QED BY <1>1, <1>2, <1>6, <2>1, StatesAre
  <1>8. \A j \in Items : HandedIn(j)' <=> HandedIn(j)
    BY <1>1 DEF HandedIn
  <1>9. ModelStreamTypes'
    BY <1>1, <1>2, <1>5, <1>7 DEF ModelStreamTypes
  <1>10. \A j \in Items \ {i} : ItemFits(j)'
    BY <1>1, <1>5, <1>6, <1>8, OthersFit
  <1>11. InTheMaking(i)' = tracker'.calls[i]
    BY <1>1, <1>5, <1>7 DEF InTheMaking
  <1>12. ItemFits(i)'
    BY <1>1, <1>2, <1>3, <1>7, <1>8, <1>11 DEF ItemFits, StillMade
  <1>13. CallsFit'
    BY <1>1, <1>6, <1>7, CollectedFit
  <1>14. RanFits'
    BY <1>1, <1>9, StillReading DEF ModelStreamTypes, Listening
  <1>15. AllHandedIn'
    BY <1>1 DEF AllHandedIn, Listening
  <1> QED BY <1>9, <1>10, <1>12, <1>13, <1>14, <1>15 DEF CallInv

\* A block's end hands its call on, whole or without arguments.
LEMMA BlockStopKeeps == ASSUME CallInv, NEW i \in Items, BlockStop(i) PROVE CallInv'
  <1> DEFINE args == AnthropicInput(tracker.calls[i].deltas)
             part == sent[i].parts < Parts
  <1>1. /\ Frame /\ Listening /\ protocol = "anthropic" /\ sent[i].begun /\ ~ sent[i].done
        /\ UNCHANGED <<protocol, sawEnd, ran>>
        /\ sent' = [sent EXCEPT ![i].done = TRUE, ![i].cut = part]
        /\ tracker' = Finalize(tracker, i)
        /\ Collect(<<Call(i, args)>>)
    BY DEF BlockStop, Frame, Listening
  <1>2. ModelStreamTypes /\ ItemFits(i) /\ sent \in [Items -> SentCall]
    BY DEF CallInv, ModelStreamTypes
  <1>3. ~ HandedIn(i) /\ tracker.calls[i] = InTheMaking(i)
    BY <1>1, <1>2 DEF ItemFits, Passed, StillMade
  <1>4. sent[i] \in SentCall /\ sent[i].parts \in 0 .. Parts
    BY <1>2, StatesAre
  <1>5. args = IF part THEN "none" ELSE "whole"
    <2>1. tracker.calls[i].deltas = Pieces(sent[i].parts)
      BY <1>3 DEF InTheMaking
    <2>2. sent[i].parts \in Nat /\ (part <=> sent[i].parts # Parts)
      BY <1>4, StatesAre
    <2>3. Pieces(sent[i].parts) = Whole <=> sent[i].parts = Parts
      BY <2>2, PieceBy
    <2> QED BY <2>1, <2>2, <2>3 DEF AnthropicInput
  <1> HIDE DEF args
  <1>6. part \in BOOLEAN
    OBVIOUS
  <1> HIDE DEF part
  <1>7. sent'[i] = [sent[i] EXCEPT !.done = TRUE, !.cut = part] /\ \A j \in Items \ {i} : sent'[j] = sent[j]
    BY <1>1, <1>2
  <1>8. /\ sent' \in [Items -> SentCall]
        /\ sent'[i].begun = sent[i].begun /\ sent'[i].done /\ sent'[i].cut = part
    <2>1. [sent[i] EXCEPT !.done = TRUE, !.cut = part] \in SentCall
      BY <1>4, <1>6, StatesAre
    <2>2. sent' = [sent EXCEPT ![i] = [sent[i] EXCEPT !.done = TRUE, !.cut = part]]
      BY <1>1, <1>2
    <2> QED BY <1>2, <1>4, <1>7, <2>1, <2>2, StatesAre
  <1>9. /\ tracker' \in [calls : [Items -> KnownCall], order : Seq(Items)]
        /\ tracker'.calls[i] = Unknown /\ \A j \in Items \ {i} : tracker'.calls[j] = tracker.calls[j]
    BY <1>1, <1>2, StatesAre DEF Finalize, ModelStreamTypes
  <1>10. args \in Arguments
    BY <1>5 DEF Arguments
  <1>11. /\ collected' \in Seq(MadeCall) /\ reader' \in {"streaming", "failed"}
         /\ callTroubles' \in 0 .. CallTroubles
         /\ \A j \in Items \ {i} : HandedIn(j)' <=> HandedIn(j)
         /\ Listening' => HandedIn(i)'
         /\ CallsFit'
    BY <1>1, <1>3, <1>5, <1>7, <1>8, <1>10, CollectsOne
  <1>12. ModelStreamTypes'
    BY <1>1, <1>2, <1>8, <1>9, <1>11 DEF ModelStreamTypes
  <1>13. \A j \in Items \ {i} : ItemFits(j)'
    BY <1>1, <1>7, <1>9, <1>11, OthersFit
  <1>14. ItemFits(i)'
    BY <1>1, <1>8, <1>9, <1>11 DEF ItemFits, Passed
  <1>15. RanFits'
    BY <1>1, <1>11, StillReading
  <1>16. AllHandedIn'
    BY <1>1 DEF AllHandedIn, Listening
  <1> QED BY <1>11, <1>12, <1>13, <1>14, <1>15, <1>16 DEF CallInv

\* All blocks have ended by then, and were handed on.
LEMMA MessageStopKeeps == ASSUME CallInv, MessageStop PROVE CallInv'
  <1>1. /\ Frame /\ Listening /\ protocol = "anthropic" /\ \A i \in Items : sent[i].begun => sent[i].done
        /\ sawEnd' /\ sawEnd' \in BOOLEAN /\ UNCHANGED <<protocol, ran, sent, tracker, collected, reader, callTroubles>>
    BY DEF MessageStop, Frame, NoNewCall, Listening
  <1>2. \A i \in Items : HandedIn(i)' <=> HandedIn(i)
    BY <1>1 DEF HandedIn
  <1>3. ModelStreamTypes'
    BY <1>1 DEF CallInv, ModelStreamTypes
  <1>4. \A i \in Items : ItemFits(i)'
    BY <1>1, <1>2 DEF CallInv, ItemFits, Fresh, Listening
  <1>5. AllHandedIn'
    BY <1>1, <1>2 DEF CallInv, ItemFits, StillMade, AllHandedIn
  <1>6. CallsFit'
    BY <1>1, CollectedFit
  <1>7. RanFits'
    BY <1>1, <1>3, StillReading DEF ModelStreamTypes, Listening
  <1> QED BY <1>3, <1>4, <1>5, <1>6, <1>7 DEF CallInv

\* Calls are run only after a complete response.
LEMMA StreamEndsKeeps == ASSUME CallInv, StreamEnds PROVE CallInv'
  <1>1. /\ reader = "streaming" /\ (reader' = "failed" \/ (sawEnd /\ reader' = "running"))
        /\ UNCHANGED <<protocol, sent, tracker, sawEnd, collected, ran, callTroubles>>
    BY DEF StreamEnds, FailStream
  <1>2. \A i \in Items : HandedIn(i)' <=> HandedIn(i)
    BY <1>1 DEF HandedIn
  <1>3. ModelStreamTypes'
    BY <1>1 DEF CallInv, ModelStreamTypes
  <1>4. \A i \in Items : ItemFits(i)'
    BY <1>1, <1>2 DEF CallInv, ItemFits, Fresh, Listening
  <1>5. AllHandedIn'
    BY <1>1, <1>2 DEF CallInv, AllHandedIn
  <1>6. CallsFit'
    BY <1>1, CollectedFit
  <1>7. RanFits'
    BY <1>1 DEF CallInv, RanFits
  <1> QED BY <1>3, <1>4, <1>5, <1>6, <1>7 DEF CallInv

\* The next call is run, or all have been.
LEMMA RunToolKeeps == ASSUME CallInv, RunTool PROVE CallInv'
  <1>1. reader = "running" /\ sawEnd /\ UNCHANGED <<protocol, sent, tracker, sawEnd, collected>>
    BY DEF RunTool, CallInv, RanFits
  <1>2. \A i \in Items : HandedIn(i)' <=> HandedIn(i)
    BY <1>1 DEF HandedIn
  <1>3. \A i \in Items : ItemFits(i)'
    BY <1>1, <1>2 DEF CallInv, ItemFits, Fresh, Listening
  <1>4. CallsFit'
    BY <1>1, CollectedFit
  <1>5. AllHandedIn'
    BY <1>1, <1>2 DEF CallInv, AllHandedIn
  <1>6. ran \in Seq(MadeCall) /\ collected \in Seq(MadeCall) /\ RanFits /\ callTroubles \in 0 .. CallTroubles
    BY DEF CallInv, ModelStreamTypes
  <1>7. CASE /\ Len(ran) < Len(collected) /\ ran' = Append(ran, collected[Len(ran) + 1])
             /\ \/ UNCHANGED <<reader, callTroubles>>
                \/ callTroubles < CallTroubles /\ callTroubles' = callTroubles + 1 /\ FailStream
    <2>1. Len(ran) \in Nat /\ Len(collected) \in Nat /\ Len(ran) + 1 \in DOMAIN collected
      BY <1>6, <1>7
    <2>2. collected[Len(ran) + 1] \in MadeCall
      BY <1>6, <2>1
    <2>3. ran' \in Seq(MadeCall) /\ Len(ran') = Len(ran) + 1 /\ ran' # <<>>
      BY <1>6, <1>7, <2>1, <2>2
    <2>4. \A k \in DOMAIN ran' : ran'[k] = collected[k]
      BY <1>6, <1>7, <2>1, <2>2 DEF RanFits
    <2>5. callTroubles' \in 0 .. CallTroubles /\ reader' \in {"running", "failed"}
      BY <1>1, <1>6, <1>7, StatesAre DEF FailStream
    <2>6. ModelStreamTypes'
      BY <1>1, <2>3, <2>5 DEF CallInv, ModelStreamTypes
    <2>7. RanFits'
      BY <1>1, <1>7, <2>1, <2>3, <2>4, <2>5 DEF RanFits
    <2> QED BY <1>3, <1>4, <1>5, <2>6, <2>7 DEF CallInv
  <1>8. CASE ~ (Len(ran) < Len(collected)) /\ reader' = "done" /\ UNCHANGED <<ran, callTroubles>>
    <2>1. Len(ran) = Len(collected)
      BY <1>6, <1>8 DEF RanFits
    <2>2. ModelStreamTypes'
      BY <1>1, <1>8 DEF CallInv, ModelStreamTypes
    <2>3. RanFits'
      BY <1>1, <1>6, <1>8, <2>1 DEF RanFits
    <2> QED BY <1>3, <1>4, <1>5, <2>2, <2>3 DEF CallInv
  <1> QED BY <1>7, <1>8 DEF RunTool

\* What is still made when the response is complete is handed on, and nothing else.
LEMMA CompletedKeeps == ASSUME CallInv, Completed PROVE CallInv'
  <1>1. /\ Frame /\ Listening /\ protocol = "openai" /\ UNCHANGED <<protocol, ran, sent>>
        /\ \A i \in Items : sent[i].begun =>
             sent[i].parts = Parts \/ (sent[i].parts = 0 /\ sent[i].done)
    BY DEF Completed, Frame, Listening
  <1>2. ModelStreamTypes /\ \A i \in Items : ItemFits(i)
    BY DEF CallInv
  <1>3. CASE FailStream /\ UNCHANGED <<sawEnd, tracker, collected, callTroubles>>
    <2>1. reader' = "failed" /\ ~ Listening'
      BY <1>3 DEF FailStream, Listening
    <2>2. \A i \in Items : HandedIn(i)' <=> HandedIn(i)
      BY <1>3 DEF HandedIn
    <2>3. ModelStreamTypes'
      BY <1>1, <1>2, <1>3, <2>1 DEF ModelStreamTypes
    <2>4. \A i \in Items : ItemFits(i)'
      BY <1>1, <1>2, <1>3, <2>1, <2>2 DEF ItemFits, Fresh
    <2>5. CallsFit'
      BY <1>1, <1>3, CollectedFit
    <2>6. RanFits' /\ AllHandedIn'
      BY <1>1, <2>1, <2>3, StillReading DEF ModelStreamTypes, AllHandedIn
    <2> QED BY <2>3, <2>4, <2>5, <2>6 DEF CallInv
  <1>4. ASSUME NEW calls \in HandedOn(tracker), sawEnd' = TRUE,
               tracker' = [tracker EXCEPT !.calls = [i \in Items |-> Unknown]],
               Collect(calls)
        PROVE  CallInv'
    <2>1. /\ calls \in Seq(MadeCall)
          /\ \A k \in DOMAIN calls :
               /\ tracker.calls[calls[k].id].known
               /\ calls[k].args \in Parsed(tracker.calls[calls[k].id].deltas, tracker.calls[calls[k].id].done)
               /\ \A j \in 1 .. k - 1 : calls[j].id # calls[k].id
          /\ \A i \in Items : tracker.calls[i].known =>
               /\ \E k \in DOMAIN calls : calls[k].id = i
               /\ Parsed(tracker.calls[i].deltas, tracker.calls[i].done) # {}
      BY <1>2, <1>4, HandedOnAre
    <2>2. ASSUME NEW i \in Items, tracker.calls[i].known
          PROVE  ~ HandedIn(i) /\ sent[i].begun /\ Parsed(tracker.calls[i].deltas, tracker.calls[i].done) = {"whole"}
      <3>1. tracker.calls[i] \in KnownCall /\ tracker.calls[i] # Unknown /\ sent[i] \in SentCall
        BY <1>2, <2>2 DEF ModelStreamTypes, Unknown
      <3>2. ~ TooLate(tracker.calls[i])
        BY <2>1, <2>2, <3>1, ParsedAre
      <3>3. ~ HandedIn(i) /\ sent[i].begun
        BY <1>1, <1>2, <3>1, <3>2 DEF ItemFits, Fresh, Passed
      <3>4. tracker.calls[i] = InTheMaking(i)
        BY <1>1, <1>2, <3>3 DEF ItemFits, StillMade
      <3>5. /\ tracker.calls[i].deltas = Pieces(sent[i].parts)
            /\ tracker.calls[i].done = IF protocol = "openai" /\ sent[i].done THEN Whole ELSE <<>>
        BY <3>4 DEF InTheMaking
      <3>6. sent[i].parts \in Nat
        BY <3>1, StatesAre
      <3>7. CASE sent[i].done
        BY <1>1, <3>3, <3>5, <3>6, <3>7, ParsedAre
      <3>8. CASE ~ sent[i].done
        <4>1. sent[i].parts = Parts
          BY <1>1, <3>3, <3>8
        <4>2. tracker.calls[i].deltas = Whole
          BY <3>5, <3>6, <4>1, PieceBy
        <4> QED BY <3>3, <3>5, <3>8, <4>2, ParsedAre
      <3> QED BY <3>7, <3>8
    <2>3. ASSUME NEW k \in DOMAIN calls PROVE calls[k] \in MadeCall /\ calls[k].id \in Items
      <3>1. calls[k] \in MadeCall
        BY <2>1
      <3> QED BY <3>1 DEF MadeCall
    <2>4. ASSUME NEW k \in DOMAIN calls
          PROVE  ~ HandedIn(calls[k].id) /\ sent[calls[k].id].begun /\ calls[k].args = "whole"
      <3> DEFINE i == calls[k].id
      <3>1. i \in Items /\ tracker.calls[i].known /\ calls[k].args \in Parsed(tracker.calls[i].deltas, tracker.calls[i].done)
        BY <2>1, <2>3
      <3> HIDE DEF i
      <3>2. ~ HandedIn(i) /\ sent[i].begun /\ Parsed(tracker.calls[i].deltas, tracker.calls[i].done) = {"whole"}
        BY <2>2, <3>1
      <3>3. calls[k].args = "whole"
        BY <3>1, <3>2
      <3> QED BY <3>2, <3>3 DEF i
    <2>5. \A i \in Items : sent[i].begun => HandedIn(i) \/ tracker.calls[i].known
      <3> SUFFICES ASSUME NEW i \in Items, sent[i].begun, ~ HandedIn(i) PROVE tracker.calls[i].known
        OBVIOUS
      <3>1. tracker.calls[i] = InTheMaking(i)
        BY <1>1, <1>2 DEF ItemFits, StillMade
      <3> QED BY <3>1 DEF InTheMaking
    <2>6. /\ tracker' \in [calls : [Items -> KnownCall], order : Seq(Items)]
          /\ \A i \in Items : tracker'.calls[i] = Unknown
      <3>1. [i \in Items |-> Unknown] \in [Items -> KnownCall]
        BY StatesAre
      <3> QED BY <1>2, <1>4, <3>1 DEF ModelStreamTypes
    <2>7. collected \in Seq(MadeCall) /\ callTroubles \in 0 .. CallTroubles /\ ~ Listening' /\ sawEnd' \in BOOLEAN
      BY <1>2, <1>4 DEF ModelStreamTypes, Listening
    <2>8. CASE /\ calls # <<>> /\ callTroubles < CallTroubles
               /\ callTroubles' = callTroubles + 1
               /\ FailStream /\ UNCHANGED collected
      <3>1. reader' = "failed" /\ callTroubles' \in 0 .. CallTroubles
        BY <2>7, <2>8, StatesAre DEF FailStream
      <3>2. \A i \in Items : HandedIn(i)' <=> HandedIn(i)
        BY <2>8 DEF HandedIn
      <3>3. ModelStreamTypes'
        BY <1>1, <1>2, <2>6, <2>7, <2>8, <3>1 DEF ModelStreamTypes
      <3>4. \A i \in Items : ItemFits(i)'
        BY <1>1, <1>2, <2>6, <2>7, <3>2 DEF ItemFits, Fresh
      <3>5. CallsFit'
        BY <1>1, <2>8, CollectedFit
      <3>6. RanFits' /\ AllHandedIn'
        BY <1>1, <3>1, <3>3, StillReading DEF ModelStreamTypes, AllHandedIn
      <3> QED BY <3>3, <3>4, <3>5, <3>6 DEF CallInv
    <2>9. CASE collected' = collected \o calls /\ UNCHANGED <<reader, callTroubles>>
      <3> DEFINE n == Len(collected)
                 m == Len(calls)
      <3>1. n \in Nat /\ DOMAIN collected = 1 .. n /\ m \in Nat /\ DOMAIN calls = 1 .. m
        BY <2>1, <2>7
      <3>2. /\ collected' \in Seq(MadeCall) /\ DOMAIN collected' = 1 .. n + m
            /\ \A k \in 1 .. n : collected'[k] = collected[k]
            /\ \A k \in n + 1 .. n + m : collected'[k] = calls[k - n]
        BY <2>1, <2>7, <2>9
      <3> HIDE DEF n, m
      <3>3. \A k \in 1 .. m : n + k \in DOMAIN collected' /\ collected'[n + k] = calls[k]
        BY <3>1, <3>2
      <3>4. \A k \in DOMAIN collected' : k \in 1 .. n \/ (k \in n + 1 .. n + m /\ k - n \in 1 .. m)
        BY <3>1, <3>2
      <3>5. ASSUME NEW i \in Items, sent[i].begun PROVE HandedIn(i)'
        <4>1. CASE HandedIn(i)
          <5>1. PICK k \in 1 .. n : collected[k].id = i
            BY <3>1, <4>1 DEF HandedIn
          <5>2. k \in DOMAIN collected' /\ collected'[k].id = i
            BY <3>1, <3>2, <5>1
          <5> QED BY <5>2 DEF HandedIn
        <4>2. CASE tracker.calls[i].known
          <5>1. PICK k \in 1 .. m : calls[k].id = i
            BY <2>1, <3>1, <4>2
          <5> QED BY <3>3, <5>1 DEF HandedIn
        <4> QED BY <2>5, <3>5, <4>1, <4>2
      <3>6. ASSUME NEW i \in Items, ~ sent[i].begun PROVE ~ HandedIn(i)'
        <4> SUFFICES ASSUME NEW k \in DOMAIN collected', collected'[k].id = i PROVE FALSE
          BY DEF HandedIn
        <4>1. CASE k \in 1 .. n
          <5>1. HandedIn(i)
            BY <3>1, <3>2, <4>1 DEF HandedIn
          <5> QED BY <1>2, <3>6, <5>1 DEF ItemFits, Fresh
        <4>2. CASE k \in n + 1 .. n + m /\ k - n \in 1 .. m
          BY <2>4, <3>1, <3>2, <3>6, <4>2
        <4> QED BY <3>4, <4>1, <4>2
      <3>7. ModelStreamTypes'
        BY <1>1, <1>2, <2>6, <2>7, <2>9, <3>2 DEF ModelStreamTypes
      <3>8. \A i \in Items : ItemFits(i)'
        BY <1>1, <1>2, <2>6, <2>7, <3>6 DEF ItemFits, Fresh
      <3>9. CallsFit'
        <4> SUFFICES ASSUME NEW k \in DOMAIN collected'
                     PROVE  /\ sent[collected'[k].id].begun
                            /\ collected'[k].args = IF sent[collected'[k].id].cut THEN "none" ELSE "whole"
                            /\ \A j \in 1 .. k - 1 : collected'[j].id # collected'[k].id
          BY <1>1 DEF CallsFit
        <4>1. CASE k \in 1 .. n
          <5>1. \A j \in 1 .. k - 1 : j \in 1 .. n
            BY <3>1, <4>1
          <5>2. CallsFit
            BY DEF CallInv
          <5>3. collected'[k] = collected[k] /\ \A j \in 1 .. k - 1 : collected'[j] = collected[j]
            BY <3>2, <4>1, <5>1
          <5>4. k \in DOMAIN collected
            BY <3>1, <4>1
          <5> QED BY <5>2, <5>3, <5>4 DEF CallsFit
        <4>2. CASE k \in n + 1 .. n + m /\ k - n \in 1 .. m
          <5>1. collected'[k] = calls[k - n] /\ k - n \in DOMAIN calls
            BY <3>1, <3>2, <4>2
          <5>2. ~ HandedIn(calls[k - n].id) /\ sent[calls[k - n].id].begun /\ calls[k - n].args = "whole"
                /\ calls[k - n].id \in Items
            BY <2>3, <2>4, <5>1
          <5>3. ~ sent[calls[k - n].id].cut
            BY <1>1, <1>2, <5>2 DEF ItemFits
          <5>4. ASSUME NEW j \in 1 .. k - 1 PROVE collected'[j].id # collected'[k].id
            <6>1. CASE j \in 1 .. n
              <7>1. collected'[j] = collected[j] /\ j \in DOMAIN collected
                BY <3>1, <3>2, <6>1
              <7> QED BY <5>1, <5>2, <7>1 DEF HandedIn
            <6>2. CASE j \notin 1 .. n
              <7>1. j \in n + 1 .. n + m /\ j - n \in 1 .. (k - n) - 1
                BY <3>1, <4>2, <6>2
              <7>2. collected'[j] = calls[j - n]
                BY <3>2, <7>1
              <7> QED BY <2>1, <5>1, <7>1, <7>2
            <6> QED BY <6>1, <6>2
          <5> QED BY <5>1, <5>2, <5>3, <5>4
        <4> QED BY <3>4, <4>1, <4>2
      <3>10. RanFits'
        BY <1>1, <2>9, <3>2, StillReading DEF Listening
      <3>11. AllHandedIn'
        BY <1>1, <3>5 DEF AllHandedIn
      <3> QED BY <3>7, <3>8, <3>9, <3>10, <3>11 DEF CallInv
    <2> QED BY <1>4, <2>8, <2>9 DEF Collect
  <1> QED BY <1>3, <1>4 DEF Completed

\* Each frame and each step of the agent keeps the invariant.
LEMMA ModelStreamStep == CallInv /\ [ModelStreamNext]_modelStreamVars => CallInv'
  <1> SUFFICES ASSUME CallInv, [ModelStreamNext]_modelStreamVars PROVE CallInv'
    OBVIOUS
  <1>1. ASSUME NEW i \in Items, BeginItem(i) PROVE CallInv'
    BY <1>1, BeginKeepsCalls
  <1>2. ASSUME NEW i \in Items, ArgumentsDelta(i) PROVE CallInv'
    BY <1>2, DeltaKeeps
  <1>3. ASSUME NEW i \in Items, ArgumentsDone(i) PROVE CallInv'
    BY <1>3, DoneKeeps
  <1>4. ASSUME NEW i \in Items, BlockStop(i) PROVE CallInv'
    BY <1>4, BlockStopKeeps
  <1>5. CASE UNCHANGED modelStreamVars
    BY <1>5 DEF modelStreamVars, CallInv, ModelStreamTypes, ItemFits, Fresh, StillMade,
       Passed, InTheMaking,
                Listening, HandedIn, CallsFit, RanFits, AllHandedIn
  <1> QED BY <1>1, <1>2, <1>3, <1>4, <1>5, CompletedKeeps, MessageStopKeeps, StreamEndsKeeps,
             RunToolKeeps
          DEF ModelStreamNext

\* What was run is the beginning of what was collected.
LEMMA CallInvSuffices == CallInv => CallsRunWhole
  <1> SUFFICES ASSUME CallInv PROVE CallsRunWhole
    OBVIOUS
  <1>1. /\ RanFits /\ CallsFit /\ AllHandedIn
        /\ ran \in Seq(MadeCall) /\ collected \in Seq(MadeCall)
    BY DEF CallInv, ModelStreamTypes
  <1>2. ran # <<>> => sawEnd
    BY <1>1 DEF RanFits
  <1>3. ASSUME NEW k \in DOMAIN ran
        PROVE  /\ \A j \in 1 .. k - 1 : ran[j].id # ran[k].id
               /\ ran[k].args = IF sent[ran[k].id].cut THEN "none" ELSE "whole"
    <2>1. k \in DOMAIN collected /\ \A j \in 1 .. k - 1 : j \in DOMAIN ran
      BY <1>1 DEF RanFits
    <2>2. ran[k] = collected[k] /\ \A j \in 1 .. k - 1 : ran[j] = collected[j]
      BY <1>1, <2>1 DEF RanFits
    <2> QED BY <1>1, <2>1, <2>2 DEF CallsFit
  <1>4. ASSUME reader = "done", NEW i \in Items, sent[i].begun PROVE \E k \in DOMAIN ran : ran[k].id = i
    <2>1. HandedIn(i)
      BY <1>1, <1>4 DEF RanFits, AllHandedIn
    <2>2. DOMAIN ran = DOMAIN collected
      BY <1>1, <1>4 DEF RanFits
    <2> QED BY <1>1, <2>1, <2>2 DEF HandedIn, RanFits
  <1> QED BY <1>2, <1>3, <1>4 DEF CallsRunWhole

\* What the readers of both streams have of each call is what was sent of it, until
\* it is handed on, and whatever comes of it later can be handed on no more
\* (provider_openai_compatible.go, provider_anthropic.go, agent/agent.go).
THEOREM CallsInvariant == ModelStreamSpec => []CallInv
  BY ModelStreamInitially, ModelStreamStep, PTL DEF ModelStreamSpec

\* Nothing of an incomplete response is run; of a complete one every call is, once
\* and with all its arguments, for any number of calls and pieces and any order of
\* deltas and done events (functionCallTracker, executeToolCalls).
THEOREM CallsAreRunWhole == ModelStreamSpec => []CallsRunWhole
  BY CallsInvariant, CallInvSuffices, PTL

-----------------------------------------------------------------------------
\* Knowledge

\* The notes there can be: what a client or memory_write gives a note, with any
\* id and score.
Owners == Postings \cup {DefaultScope(s) : s \in Scopes}
Notes == {Note(id, o, v, s) : id \in Nat, o \in Owners, v \in Int, s \in Scopes \cup {NoReader}}

LEMMA NoteIs ==
  ASSUME NEW id \in Nat, NEW o \in Owners, NEW v \in Int, NEW s \in Scopes \cup {NoReader}
  PROVE  LET n == Note(id, o, v, s) IN
           /\ n \in Notes
           /\ n.id = id /\ n.by = s /\ n.score = v
           /\ n.owner = o.owner /\ n.role = o.role /\ n.visibility = o.visibility
           /\ \A w \in Int : [n EXCEPT !.score = w] = Note(id, o, w, s)
  <1> DEFINE n == Note(id, o, v, s)
  <1>1. n \in Notes
    BY DEF Notes
  <1>2. ASSUME NEW w \in Int PROVE [n EXCEPT !.score = w] = Note(id, o, w, s)
    BY DEF Note
  <1> QED
    BY <1>1, <1>2 DEF Note

LEMMA NotesHave ==
  ASSUME NEW n \in Notes
  PROVE  /\ n.id \in Nat /\ n.score \in Int
         /\ \A w \in Int : LET m == [n EXCEPT !.score = w] IN
              /\ m \in Notes /\ m.id = n.id /\ m.by = n.by
              /\ m.owner = n.owner /\ m.role = n.role /\ m.visibility = n.visibility
  <1>1. PICK id \in Nat, o \in Owners, v \in Int, s \in Scopes \cup {NoReader} : n = Note(id, o, v, s)
    BY DEF Notes
  <1> QED
    BY <1>1, NoteIs

\* By age or by score, the notes of a list stand in line.
LEMMA AheadIsAnOrder ==
  ASSUME NEW by, NEW notes \in Seq(Notes),
         NEW i \in DOMAIN notes, NEW j \in DOMAIN notes, NEW k \in DOMAIN notes
  PROVE  /\ ~ Ahead(by, notes, i, i)
         /\ Ahead(by, notes, i, j) /\ Ahead(by, notes, j, k) => Ahead(by, notes, i, k)
         /\ i # j => Ahead(by, notes, i, j) \/ Ahead(by, notes, j, i)
  <1>1. i \in Nat /\ j \in Nat /\ k \in Nat
    BY LenProperties
  <1>2. notes[i].score \in Int /\ notes[j].score \in Int /\ notes[k].score \in Int
    <2>1. notes[i] \in Notes /\ notes[j] \in Notes /\ notes[k] \in Notes
      BY ElementOfSeq, LenProperties
    <2> QED
      BY <2>1, NotesHave
  <1> QED
    BY <1>1, <1>2 DEF Ahead

\* Those ahead of one place, among some places.
Before(i, places, by, notes) == {j \in places : Ahead(by, notes, j, i)}

LEMMA BeforeIsFinite ==
  ASSUME NEW by, NEW notes \in Seq(Notes), NEW places \in SUBSET DOMAIN notes, NEW i
  PROVE  /\ IsFiniteSet(places) /\ IsFiniteSet(Before(i, places, by, notes))
         /\ Cardinality(Before(i, places, by, notes)) \in Nat
  <1>1. IsFiniteSet(places)
    BY LenProperties, FS_Interval, FS_Subset
  <1> QED
    BY <1>1, FS_Subset, FS_CardinalityType DEF Before

\* Who is ahead of somebody has fewer ahead of it.
LEMMA FewerBefore ==
  ASSUME NEW by, NEW notes \in Seq(Notes), NEW places \in SUBSET DOMAIN notes,
         NEW i \in places, NEW j \in Before(i, places, by, notes)
  PROVE  Cardinality(Before(j, places, by, notes)) < Cardinality(Before(i, places, by, notes))
  <1> DEFINE B(x) == Before(x, places, by, notes)
  <1>1. B(j) \subseteq B(i) /\ j \in B(i) /\ j \notin B(j)
    BY AheadIsAnOrder DEF Before
  <1>2. IsFiniteSet(B(i)) /\ Cardinality(B(i)) \in Nat /\ Cardinality(B(j)) \in Nat
    BY BeforeIsFinite DEF Before
  <1>3. Cardinality(B(j)) <= Cardinality(B(i)) /\ (Cardinality(B(i)) = Cardinality(B(j)) => B(i) = B(j))
    BY <1>1, <1>2, FS_Subset
  <1> HIDE DEF B
  <1>4. Cardinality(B(j)) < Cardinality(B(i))
    BY <1>1, <1>2, <1>3
  <1> QED
    BY <1>4 DEF B

\* When somebody does not lead, as many as were asked for do.
LEMMA LeadersAreEnough ==
  ASSUME NEW by, NEW notes \in Seq(Notes), NEW places \in SUBSET DOMAIN notes, NEW limit \in Nat,
         NEW x \in places, x \notin Leading(limit, places, places, by, notes)
  PROVE  Cardinality(Leading(limit, places, places, by, notes)) >= limit
  <1> DEFINE L == Leading(limit, places, places, by, notes)
             C(i) == Cardinality(Before(i, places, by, notes))
             Counts == {C(i) : i \in places \ L}
  <1>1. \A i \in places : C(i) \in Nat /\ (i \in L <=> C(i) < limit)
    BY BeforeIsFinite DEF Leading, Before
  <1>2. Counts \in SUBSET Nat /\ Counts # {}
    BY <1>1
  <1>3. PICK c \in Counts : \A d \in Counts : c <= d
    BY <1>2, LeastNumber
  <1>4. PICK i \in places \ L : c = C(i)
    BY <1>3
  <1>5. Before(i, places, by, notes) \subseteq L
    <2> SUFFICES ASSUME NEW j \in Before(i, places, by, notes), j \notin L PROVE FALSE
      OBVIOUS
    <2>1. j \in places \ L
      BY DEF Before
    <2>2. C(j) < C(i)
      BY <1>4, FewerBefore
    <2>3. C(i) <= C(j)
      BY <2>1, <1>3, <1>4
    <2>4. C(i) \in Nat /\ C(j) \in Nat
      BY <1>1, <1>4, <2>1
    <2> HIDE DEF C
    <2> QED
      BY <2>2, <2>3, <2>4
  <1>6. IsFiniteSet(L)
    BY BeforeIsFinite, FS_Subset DEF Leading
  <1>7. C(i) <= Cardinality(L) /\ Cardinality(L) \in Nat
    BY <1>5, <1>6, FS_Subset, FS_CardinalityType
  <1>8. C(i) \in Nat /\ ~ (C(i) < limit)
    BY <1>1, <1>4
  <1> HIDE DEF C
  <1>9. Cardinality(L) >= limit
    BY <1>7, <1>8
  <1> QED
    BY <1>9

\* ... and more than were asked for never lead.
LEMMA LeadersAreFew ==
  ASSUME NEW by, NEW notes \in Seq(Notes), NEW places \in SUBSET DOMAIN notes, NEW limit \in Nat
  PROVE  Cardinality(Leading(limit, places, places, by, notes)) <= limit
  <1> DEFINE L == Leading(limit, places, places, by, notes)
             C(i) == Cardinality(Before(i, places, by, notes))
             T == 0 .. limit - 1
             f == [i \in L |-> C(i)]
  <1>1. L \subseteq places /\ \A i \in L : C(i) \in Nat /\ C(i) < limit
    BY BeforeIsFinite DEF Leading, Before
  <1>2. ASSUME NEW i \in L, NEW j \in L, C(i) = C(j) PROVE i = j
    <2> SUFFICES ASSUME i # j PROVE FALSE
      OBVIOUS
    <2>1. i \in Before(j, places, by, notes) \/ j \in Before(i, places, by, notes)
      BY <1>1, AheadIsAnOrder DEF Before
    <2>2. C(i) < C(j) \/ C(j) < C(i)
      BY <2>1, <1>1, FewerBefore
    <2>3. C(i) \in Nat /\ C(j) \in Nat
      BY <1>1
    <2> HIDE DEF C
    <2> QED
      BY <2>2, <2>3, <1>2
  <1> HIDE DEF C
  <1>3. f \in Injection(L, T)
    BY <1>1, <1>2 DEF Injection, IsInjective
  <1>4. IsFiniteSet(T) /\ Cardinality(T) = limit
    BY FS_Interval
  <1> HIDE DEF f, T
  <1>5. Cardinality(L) <= limit
    BY <1>3, <1>4, FS_Injection
  <1> QED
    BY <1>5

\* No two notes of a list share their id.
Keyed(notes) == \A i, j \in DOMAIN notes : notes[i].id = notes[j].id => i = j

\* Such a list has as many notes at some places as there are places.
LEMMA NotesAtPlaces ==
  ASSUME NEW notes \in Seq(Notes), Keyed(notes), NEW places \in SUBSET DOMAIN notes
  PROVE  /\ IsFiniteSet({notes[i] : i \in places})
         /\ Cardinality({notes[i] : i \in places}) = Cardinality(places)
  <1> DEFINE T == {notes[i] : i \in places}
             f == [i \in places |-> notes[i]]
  <1>1. IsFiniteSet(places)
    BY LenProperties, FS_Interval, FS_Subset
  <1>2. f \in Bijection(places, T)
    BY DEF Keyed, Bijection, Injection, IsInjective, Surjection
  <1> HIDE DEF f, T
  <1>3. ExistsBijection(places, T)
    BY <1>2 DEF ExistsBijection
  <1>4. IsFiniteSet(T) /\ Cardinality(T) = Cardinality(places)
    BY <1>1, <1>3, FS_Bijection
  <1> QED
    BY <1>4 DEF T

\* Cutting one position out of a list keeps the others in their order.
LEMMA RemoveAtProperties ==
  ASSUME NEW S, NEW q \in Seq(S), NEW i \in 1 .. Len(q)
  PROVE  /\ RemoveAt(q, i) \in Seq(S)
         /\ Len(RemoveAt(q, i)) = Len(q) - 1
         /\ \A j \in 1 .. Len(q) - 1 :
              RemoveAt(q, i)[j] = q[IF j < i THEN j ELSE j + 1]
<1> DEFINE a == SubSeq(q, 1, i - 1)
           b == SubSeq(q, i + 1, Len(q))
<1>1. Len(q) \in Nat /\ \A j \in 1 .. Len(q) : q[j] \in S
  BY LenProperties, ElementOfSeq
<1>2. /\ a \in Seq(S)
      /\ Len(a) = i - 1
      /\ \A j \in 1 .. i - 1 : a[j] = q[j]
  <2>1. 1 \in Int /\ i - 1 \in Int /\ \A j \in 1 .. i - 1 : q[j] \in S
    BY <1>1
  <2> HIDE DEF a
  <2>2. /\ a \in Seq(S)
        /\ Len(a) = IF 1 <= i - 1 THEN (i - 1) - 1 + 1 ELSE 0
        /\ \A j \in 1 .. (i - 1) - 1 + 1 : a[j] = q[1 + j - 1]
    BY <2>1, SubSeqProperties DEF a
  <2> QED
    BY <2>2, <1>1
<1>3. /\ b \in Seq(S)
      /\ Len(b) = Len(q) - i
      /\ \A j \in 1 .. Len(q) - i : b[j] = q[i + j]
  <2>1. i + 1 \in Int /\ Len(q) \in Int /\ \A j \in i + 1 .. Len(q) : q[j] \in S
    BY <1>1
  <2> HIDE DEF b
  <2>2. /\ b \in Seq(S)
        /\ Len(b) = IF i + 1 <= Len(q) THEN Len(q) - (i + 1) + 1 ELSE 0
        /\ \A j \in 1 .. Len(q) - (i + 1) + 1 : b[j] = q[i + 1 + j - 1]
    BY <2>1, SubSeqProperties DEF b
  <2> QED
    BY <2>2, <1>1
<1> HIDE DEF a, b
<1>4. /\ a \o b \in Seq(S)
      /\ Len(a \o b) = Len(a) + Len(b)
      /\ \A j \in 1 .. Len(a) + Len(b) :
           (a \o b)[j] = IF j <= Len(a) THEN a[j] ELSE b[j - Len(a)]
  BY <1>2, <1>3, ConcatProperties
<1>5. RemoveAt(q, i) = a \o b
  BY DEF RemoveAt, a, b
<1>6. Len(a) + Len(b) = Len(q) - 1
  BY <1>1, <1>2, <1>3
<1>7. ASSUME NEW j \in 1 .. Len(q) - 1
      PROVE  (a \o b)[j] = q[IF j < i THEN j ELSE j + 1]
  <2>1. CASE j < i
    BY <2>1, <1>1, <1>2, <1>4, <1>6
  <2>2. CASE ~ (j < i)
    <3>1. j - (i - 1) \in 1 .. Len(q) - i /\ ~ (j <= Len(a))
      BY <2>2, <1>1, <1>2
    <3>2. (a \o b)[j] = b[j - (i - 1)]
      BY <3>1, <1>2, <1>4, <1>6
    <3>3. b[j - (i - 1)] = q[i + (j - (i - 1))]
      BY <3>1, <1>3
    <3>4. i + (j - (i - 1)) = j + 1
      BY <1>1
    <3> QED
      BY <3>2, <3>3, <3>4, <2>2
  <2> QED
    BY <2>1, <2>2
<1> QED
  BY <1>4, <1>5, <1>6, <1>7

\* What a list has when a note is taken out, or put in somewhere.
LEMMA WithoutIs ==
  ASSUME NEW notes \in Seq(Notes), Keyed(notes), NEW id
  PROVE  /\ Without(notes, id) \in Seq(Notes) /\ Keyed(Without(notes, id))
         /\ ToSet(Without(notes, id)) = {n \in ToSet(notes) : n.id # id}
  <1>1. CASE PlacesOf(notes, id) = {}
    BY <1>1 DEF Without, PlacesOf, ToSet
  <1>2. CASE PlacesOf(notes, id) # {}
    <2> DEFINE k == CHOOSE i \in PlacesOf(notes, id) : TRUE
               r == RemoveAt(notes, k)
               old(j) == IF j < k THEN j ELSE j + 1
    <2>1. k \in PlacesOf(notes, id) /\ Without(notes, id) = r
      BY <1>2 DEF Without
    <2>2. k \in 1 .. Len(notes) /\ notes[k].id = id /\ DOMAIN notes = 1 .. Len(notes) /\ Len(notes) \in Nat
      BY <2>1, LenProperties DEF PlacesOf
    <2> HIDE DEF k
    <2>3. r \in Seq(Notes) /\ Len(r) = Len(notes) - 1
            /\ \A j \in 1 .. Len(notes) - 1 : r[j] = notes[old(j)]
      BY <2>2, RemoveAtProperties
    <2> HIDE DEF r
    <2>4. DOMAIN r = 1 .. Len(notes) - 1
      BY <2>2, <2>3, LenProperties
    <2>5. \A j \in DOMAIN r : old(j) \in DOMAIN notes /\ old(j) # k /\ r[j] = notes[old(j)]
      BY <2>2, <2>3, <2>4
    <2>6. \A i, j \in DOMAIN r : old(i) = old(j) => i = j
      BY <2>2, <2>4
    <2>7. \A i \in DOMAIN notes : i # k => \E j \in DOMAIN r : old(j) = i
      <3> SUFFICES ASSUME NEW i \in DOMAIN notes, i # k PROVE \E j \in DOMAIN r : old(j) = i
        OBVIOUS
      <3>1. CASE i < k
        <4>1. i \in DOMAIN r /\ old(i) = i
          BY <3>1, <2>2, <2>4
        <4> QED
          BY <4>1
      <3>2. CASE ~ (i < k)
        <4>1. i - 1 \in DOMAIN r /\ old(i - 1) = i
          BY <3>2, <2>2, <2>4
        <4> QED
          BY <4>1
      <3> QED
        BY <3>1, <3>2
    <2> HIDE DEF old
    <2>8. Keyed(r)
      BY <2>5, <2>6 DEF Keyed
    <2>9. ToSet(r) \subseteq {n \in ToSet(notes) : n.id # id}
      BY <2>2, <2>5 DEF ToSet, Keyed
    <2>10. {n \in ToSet(notes) : n.id # id} \subseteq ToSet(r)
      <3> SUFFICES ASSUME NEW i \in DOMAIN notes, notes[i].id # id PROVE notes[i] \in ToSet(r)
        BY DEF ToSet
      <3>1. PICK j \in DOMAIN r : old(j) = i
        BY <2>2, <2>7
      <3> QED
        BY <3>1, <2>5 DEF ToSet
    <2> QED
      BY <2>1, <2>3, <2>8, <2>9, <2>10
  <1> QED
    BY <1>1, <1>2

LEMMA JoinedIs ==
  ASSUME NEW a \in Seq(Notes), NEW b \in Seq(Notes), Keyed(a), Keyed(b),
         \A m \in ToSet(a), n \in ToSet(b) : m.id # n.id
  PROVE  a \o b \in Seq(Notes) /\ Keyed(a \o b) /\ ToSet(a \o b) = ToSet(a) \cup ToSet(b)
  <1> DEFINE c == a \o b
  <1>1. /\ Len(a) \in Nat /\ DOMAIN a = 1 .. Len(a)
        /\ Len(b) \in Nat /\ DOMAIN b = 1 .. Len(b)
    BY LenProperties
  <1>2. /\ c \in Seq(Notes) /\ Len(c) = Len(a) + Len(b)
        /\ \A i \in 1 .. Len(a) + Len(b) : c[i] = IF i <= Len(a) THEN a[i] ELSE b[i - Len(a)]
    BY ConcatProperties
  <1>3. DOMAIN c = 1 .. Len(a) + Len(b)
    BY <1>2, LenProperties
  <1> HIDE DEF c
  <1>4. \A i \in DOMAIN a : i \in DOMAIN c /\ c[i] = a[i]
    BY <1>1, <1>2, <1>3
  <1>5. ASSUME NEW i \in DOMAIN b PROVE i + Len(a) \in DOMAIN c /\ c[i + Len(a)] = b[i]
    <2>1. i + Len(a) \in 1 .. Len(a) + Len(b) /\ ~ (i + Len(a) <= Len(a)) /\ (i + Len(a)) - Len(a) = i
      BY <1>1
    <2> QED
      BY <2>1, <1>2, <1>3
  <1>6. \A i \in DOMAIN c : \/ i \in DOMAIN a /\ c[i] = a[i]
                            \/ i - Len(a) \in DOMAIN b /\ c[i] = b[i - Len(a)]
    BY <1>1, <1>2, <1>3
  <1>7. ToSet(c) = ToSet(a) \cup ToSet(b)
    BY <1>4, <1>5, <1>6 DEF ToSet
  <1>8. Keyed(c)
    <2> SUFFICES ASSUME NEW i \in DOMAIN c, NEW j \in DOMAIN c, c[i].id = c[j].id PROVE i = j
      BY DEF Keyed
    <2>1. CASE i \in DOMAIN a /\ c[i] = a[i] /\ j \in DOMAIN a /\ c[j] = a[j]
      BY <2>1 DEF Keyed
    <2>2. CASE i - Len(a) \in DOMAIN b /\ c[i] = b[i - Len(a)] /\ j - Len(a) \in DOMAIN b /\ c[j] = b[j - Len(a)]
      <3>1. i - Len(a) = j - Len(a)
        BY <2>2 DEF Keyed
      <3> QED
        BY <3>1, <1>1, <1>3
    <2>3. CASE i \in DOMAIN a /\ c[i] = a[i] /\ j - Len(a) \in DOMAIN b /\ c[j] = b[j - Len(a)]
      BY <2>3 DEF ToSet
    <2>4. CASE i - Len(a) \in DOMAIN b /\ c[i] = b[i - Len(a)] /\ j \in DOMAIN a /\ c[j] = a[j]
      BY <2>4 DEF ToSet
    <2> QED
      BY <2>1, <2>2, <2>3, <2>4, <1>6
  <1> QED
    BY <1>2, <1>7, <1>8 DEF c

LEMMA OneNote ==
  ASSUME NEW n \in Notes
  PROVE  <<n>> \in Seq(Notes) /\ Keyed(<<n>>) /\ ToSet(<<n>>) = {n}
  <1>1. <<n>> \in Seq(Notes) /\ DOMAIN <<n>> = {1} /\ <<n>>[1] = n
    OBVIOUS
  <1> QED
    BY <1>1 DEF Keyed, ToSet

\* A list falls into what comes before a place and the rest.
LEMMA SplitIs ==
  ASSUME NEW notes \in Seq(Notes), Keyed(notes), NEW k \in 1 .. Len(notes) + 1
  PROVE  LET a == SubSeq(notes, 1, k - 1)
             b == SubSeq(notes, k, Len(notes)) IN
           /\ a \in Seq(Notes) /\ Keyed(a) /\ b \in Seq(Notes) /\ Keyed(b)
           /\ ToSet(a) \cup ToSet(b) = ToSet(notes)
           /\ \A m \in ToSet(a), n \in ToSet(b) : m.id # n.id
  <1> DEFINE a == SubSeq(notes, 1, k - 1)
             b == SubSeq(notes, k, Len(notes))
  <1>1. Len(notes) \in Nat /\ DOMAIN notes = 1 .. Len(notes) /\ \A j \in 1 .. Len(notes) : notes[j] \in Notes
    BY LenProperties, ElementOfSeq
  <1> HIDE DEF a, b
  <1>2. a \in Seq(Notes) /\ Len(a) = k - 1 /\ \A j \in 1 .. k - 1 : a[j] = notes[j]
    <2>1. 1 \in Int /\ k - 1 \in Int /\ \A j \in 1 .. k - 1 : notes[j] \in Notes
      BY <1>1
    <2>2. /\ a \in Seq(Notes)
          /\ Len(a) = IF 1 <= k - 1 THEN (k - 1) - 1 + 1 ELSE 0
          /\ \A j \in 1 .. (k - 1) - 1 + 1 : a[j] = notes[1 + j - 1]
      BY <2>1, SubSeqProperties DEF a
    <2>3. k \in Nat /\ 1 <= k /\ (k - 1) - 1 + 1 = k - 1
      BY <1>1
    <2>4. Len(a) = k - 1 /\ \A j \in 1 .. k - 1 : a[j] = notes[1 + j - 1]
      BY <2>2, <2>3
    <2>5. \A j \in 1 .. k - 1 : 1 + j - 1 = j
      BY <2>3
    <2> QED
      BY <2>2, <2>4, <2>5
  <1>3. b \in Seq(Notes) /\ Len(b) = Len(notes) + 1 - k /\ \A j \in 1 .. Len(notes) + 1 - k : b[j] = notes[k + j - 1]
    <2>1. k \in Int /\ Len(notes) \in Int /\ \A j \in k .. Len(notes) : notes[j] \in Notes
      BY <1>1
    <2>2. /\ b \in Seq(Notes)
          /\ Len(b) = IF k <= Len(notes) THEN Len(notes) - k + 1 ELSE 0
          /\ \A j \in 1 .. Len(notes) - k + 1 : b[j] = notes[k + j - 1]
      BY <2>1, SubSeqProperties DEF b
    <2>3. k \in Nat /\ k <= Len(notes) + 1 /\ Len(notes) \in Nat /\ Len(notes) - k + 1 = Len(notes) + 1 - k
      BY <1>1
    <2>4. Len(b) = Len(notes) + 1 - k /\ \A j \in 1 .. Len(notes) + 1 - k : b[j] = notes[k + j - 1]
      BY <2>2, <2>3
    <2> QED
      BY <2>2, <2>4
  <1>4. DOMAIN a = 1 .. k - 1 /\ DOMAIN b = 1 .. Len(notes) + 1 - k
    BY <1>2, <1>3, LenProperties
  <1>5. \A i \in DOMAIN a : i \in DOMAIN notes /\ a[i] = notes[i]
    BY <1>1, <1>2, <1>4
  <1>6. \A i \in DOMAIN b : k + i - 1 \in DOMAIN notes /\ b[i] = notes[k + i - 1]
    BY <1>1, <1>3, <1>4
  <1>7. \A i \in DOMAIN notes : i \in DOMAIN a \/ (i + 1 - k \in DOMAIN b /\ k + (i + 1 - k) - 1 = i)
    BY <1>1, <1>4
  <1>8. Keyed(a) /\ Keyed(b)
    <2>1. Keyed(a)
      BY <1>5 DEF Keyed
    <2>2. ASSUME NEW i \in DOMAIN b, NEW j \in DOMAIN b, b[i].id = b[j].id PROVE i = j
      <3>1. k + i - 1 = k + j - 1
        BY <2>2, <1>6 DEF Keyed
      <3> QED
        BY <3>1, <1>4
    <2> QED
      BY <2>1, <2>2 DEF Keyed
  <1>9. ToSet(a) \cup ToSet(b) = ToSet(notes)
    <2>1. ToSet(a) \cup ToSet(b) \subseteq ToSet(notes)
      BY <1>5, <1>6 DEF ToSet
    <2>2. ASSUME NEW i \in DOMAIN notes PROVE notes[i] \in ToSet(a) \cup ToSet(b)
      BY <1>5, <1>6, <1>7 DEF ToSet
    <2> QED
      BY <2>1, <2>2 DEF ToSet
  <1>10. \A m \in ToSet(a), n \in ToSet(b) : m.id # n.id
    <2> SUFFICES ASSUME NEW i \in DOMAIN a, NEW j \in DOMAIN b, a[i].id = b[j].id PROVE FALSE
      BY DEF ToSet
    <2>1. i = k + j - 1
      BY <1>5, <1>6 DEF Keyed
    <2> QED
      BY <2>1, <1>4
  <1> QED
    BY <1>2, <1>3, <1>8, <1>9, <1>10 DEF a, b

LEMMA BlockOrderIs ==
  ASSUME NEW b \in Notes, NEW others \in Seq(Notes), Keyed(others),
         \A n \in ToSet(others) : n.id # b.id
  PROVE  /\ BlockOrder(b, others) \in Seq(Notes) /\ Keyed(BlockOrder(b, others))
         /\ ToSet(BlockOrder(b, others)) = ToSet(others) \cup {b}
  <1> DEFINE better == {i \in DOMAIN others : others[i].score > b.score}
             k == Cardinality(better) + 1
             x == SubSeq(others, 1, k - 1)
             y == SubSeq(others, k, Len(others))
  <1>1. Len(others) \in Nat /\ IsFiniteSet(DOMAIN others) /\ Cardinality(DOMAIN others) = Len(others)
    <2>1. Len(others) \in Nat /\ DOMAIN others = 1 .. Len(others)
      BY LenProperties
    <2>2. IsFiniteSet(1 .. Len(others)) /\ Cardinality(1 .. Len(others)) = Len(others)
      BY <2>1, FS_Interval
    <2> QED
      BY <2>1, <2>2
  <1>2. k \in 1 .. Len(others) + 1
    <2>1. IsFiniteSet(better) /\ Cardinality(better) <= Len(others) /\ Cardinality(better) \in Nat
      BY <1>1, FS_Subset, FS_CardinalityType
    <2> HIDE DEF better
    <2> QED
      BY <2>1, <1>1
  <1>3. BlockOrder(b, others) = (x \o <<b>>) \o y
    BY DEF BlockOrder, InsertAt
  <1> HIDE DEF k
  <1>4. /\ x \in Seq(Notes) /\ Keyed(x) /\ y \in Seq(Notes) /\ Keyed(y)
        /\ ToSet(x) \cup ToSet(y) = ToSet(others)
        /\ \A m \in ToSet(x), n \in ToSet(y) : m.id # n.id
    BY <1>2, SplitIs
  <1> HIDE DEF x, y
  <1>5. x \o <<b>> \in Seq(Notes) /\ Keyed(x \o <<b>>) /\ ToSet(x \o <<b>>) = ToSet(x) \cup {b}
    <2>1. \A m \in ToSet(x), n \in ToSet(<<b>>) : m.id # n.id
      BY <1>4, OneNote
    <2>2. x \in Seq(Notes) /\ Keyed(x) /\ <<b>> \in Seq(Notes) /\ Keyed(<<b>>) /\ ToSet(<<b>>) = {b}
      BY <1>4, OneNote
    <2>3. x \o <<b>> \in Seq(Notes) /\ Keyed(x \o <<b>>) /\ ToSet(x \o <<b>>) = ToSet(x) \cup ToSet(<<b>>)
      BY <2>1, <2>2, JoinedIs
    <2> QED
      BY <2>2, <2>3
  <1> DEFINE z == x \o <<b>>
  <1>6. z \in Seq(Notes) /\ Keyed(z) /\ ToSet(z) = ToSet(x) \cup {b}
    BY <1>5
  <1> HIDE DEF z
  <1>7. \A m \in ToSet(z), n \in ToSet(y) : m.id # n.id
    BY <1>4, <1>6
  <1>8. z \o y \in Seq(Notes) /\ Keyed(z \o y) /\ ToSet(z \o y) = ToSet(z) \cup ToSet(y)
    BY <1>4, <1>6, <1>7, JoinedIs
  <1>9. ToSet(z) \cup ToSet(y) = ToSet(others) \cup {b}
    BY <1>4, <1>6
  <1> QED
    BY <1>3, <1>8, <1>9 DEF z

KnowledgeTypes ==
  /\ memories \in Seq(Notes) /\ blocks \in Seq(Notes) /\ edit \in Notes \cup {NoEdit}
  /\ written \in Nat /\ erased \in SUBSET (0 .. written)
  /\ cleaner \in [at : {"idle", "list", "delete"}, listed : SUBSET Notes, doomed : SUBSET Nat]

\* Each note was given its id when it was new, and one that a turn has noted is
\* marked as memory_write marks it, whatever has become of it since.
AsWritten(n, count) ==
  /\ n.id <= count
  /\ n.by # NoReader =>
       LET o == DefaultScope(n.by) IN
         n.owner = o.owner /\ n.role = o.role /\ n.visibility = o.visibility

NotesFit ==
  /\ Keyed(memories) /\ Keyed(blocks)
  /\ \A n \in ToSet(memories) \cup ToSet(blocks) : AsWritten(n, written)
  /\ AsWritten(edit, written)

ErasedAreGone == \A n \in ToSet(blocks) : n.id \notin erased

\* What the clean-up is about to delete was in its list, behind KeepCount others.
EnoughAreAsGood(id, listed) ==
  \E l \in listed :
    /\ l.id = id
    /\ Cardinality({k \in listed : k.score >= l.score} \ {l}) >= KeepCount

DoomedCanGo == \A id \in cleaner.doomed : EnoughAreAsGood(id, cleaner.listed)

KnowledgeInv == KnowledgeTypes /\ NotesFit /\ ErasedAreGone /\ DoomedCanGo /\ RecallIsRight

LEMMA KnowledgeInitially == KnowledgeInit => KnowledgeInv
  <1> SUFFICES ASSUME KnowledgeInit PROVE KnowledgeInv
    OBVIOUS
  <1>1. KnowledgeTypes /\ ToSet(memories) = {} /\ ToSet(blocks) = {}
    <2>1. <<>> \in Seq(Notes) /\ ToSet(<<>>) = {}
      BY DEF ToSet
    <2> QED
      BY <2>1 DEF KnowledgeInit, KnowledgeTypes, NothingToClean
  <1>2. NotesFit
    <2>1. AsWritten(NoEdit, 0)
      BY DEF AsWritten, NoEdit, NoReader
    <2>2. Keyed(<<>>)
      BY DEF Keyed
    <2> QED
      BY <1>1, <2>1, <2>2 DEF KnowledgeInit, NotesFit
  <1> QED
    BY <1>1, <1>2 DEF KnowledgeInit, KnowledgeInv, ErasedAreGone, DoomedCanGo,
       NothingToClean, RecallIsRight

LEMMA NotesAreNotes ==
  ASSUME KnowledgeTypes
  PROVE  ToSet(memories) \subseteq Notes /\ ToSet(blocks) \subseteq Notes
  BY ElementOfSeq, LenProperties DEF KnowledgeTypes, ToSet

\* A step that brings only notes that are as they were written keeps them so.
LEMMA NotesFitOn ==
  ASSUME KnowledgeInv, written' \in {written, written + 1}, Keyed(memories)', Keyed(blocks)',
         \A n \in ToSet(memories)' : n \in ToSet(memories) \/ AsWritten(n, written'),
         \A n \in ToSet(blocks)' : n \in ToSet(blocks) \/ AsWritten(n, written'),
         edit' \in {edit, NoEdit}
  PROVE  NotesFit'
  <1>1. written \in Nat /\ written' \in Nat /\ written <= written'
    BY DEF KnowledgeInv, KnowledgeTypes
  <1>2. ASSUME NEW n \in Notes \cup {NoEdit}, AsWritten(n, written) PROVE AsWritten(n, written')
    <2>1. n.id \in Nat
      <3>1. NoEdit.id = 0
        BY DEF NoEdit
      <3> QED
        BY <3>1, NotesHave
    <2> QED
      BY <2>1, <1>1, <1>2 DEF AsWritten
  <1>3. AsWritten(NoEdit, written')
    <2>1. NoEdit.id = 0 /\ NoEdit.by = NoReader
      BY DEF NoEdit
    <2> QED
      BY <2>1, <1>1 DEF AsWritten
  <1>4. /\ ToSet(memories) \subseteq Notes /\ ToSet(blocks) \subseteq Notes /\ edit \in Notes \cup {NoEdit}
        /\ \A n \in ToSet(memories) \cup ToSet(blocks) : AsWritten(n, written)
        /\ AsWritten(edit, written)
    BY NotesAreNotes DEF KnowledgeInv, KnowledgeTypes, NotesFit
  <1>5. \A n \in ToSet(memories)' \cup ToSet(blocks)' : AsWritten(n, written')
    BY <1>2, <1>4
  <1>6. AsWritten(edit, written)'
    BY <1>2, <1>3, <1>4
  <1> QED
    BY <1>5, <1>6 DEF NotesFit

\* A note that has been written is the one note with its id.
LEMMA RememberKeeps ==
  ASSUME KnowledgeInv, answer = NoAnswer, NEW n \in Notes, Remember(n),
         written' \in {written, written + 1}, AsWritten(n, written')
  PROVE  KnowledgeInv'
  <1> DEFINE old == Without(memories, n.id)
  <1>1. /\ old \in Seq(Notes) /\ Keyed(old)
        /\ ToSet(old) = {m \in ToSet(memories) : m.id # n.id}
    BY WithoutIs DEF KnowledgeInv, KnowledgeTypes, NotesFit
  <1>2. memories' = <<n>> \o old
    BY DEF Remember
  <1> HIDE DEF old
  <1>3. memories' \in Seq(Notes) /\ Keyed(memories)' /\ ToSet(memories)' = {n} \cup ToSet(old)
    <2>1. <<n>> \in Seq(Notes) /\ Keyed(<<n>>) /\ ToSet(<<n>>) = {n}
      BY OneNote
    <2>2. \A m \in ToSet(<<n>>), k \in ToSet(old) : m.id # k.id
      BY <2>1, <1>1
    <2>3. <<n>> \o old \in Seq(Notes) /\ Keyed(<<n>> \o old) /\ ToSet(<<n>> \o old) = ToSet(<<n>>) \cup ToSet(old)
      BY <2>1, <2>2, <1>1, JoinedIs
    <2> QED
      BY <2>1, <2>3, <1>2
  <1>4. UNCHANGED <<blocks, answer, cleaner, edit, erased>> /\ written \in Nat /\ written' \in Nat /\ written <= written'
    BY DEF Remember, KnowledgeInv, KnowledgeTypes
  <1>5. KnowledgeTypes'
    BY <1>3, <1>4 DEF KnowledgeInv, KnowledgeTypes
  <1>7. NotesFit'
    <2>1. Keyed(blocks)' /\ ToSet(blocks)' = ToSet(blocks) /\ edit' = edit
      BY <1>4 DEF KnowledgeInv, NotesFit, Keyed, ToSet
    <2>2. \A m \in ToSet(memories)' : m \in ToSet(memories) \/ m = n
      BY <1>1, <1>3
    <2> QED
      BY <1>3, <2>1, <2>2, NotesFitOn
  <1>8. ErasedAreGone' /\ DoomedCanGo' /\ RecallIsRight'
    BY <1>4 DEF KnowledgeInv, ErasedAreGone, DoomedCanGo, EnoughAreAsGood, RecallIsRight, ToSet
  <1> QED
    BY <1>5, <1>7, <1>8 DEF KnowledgeInv

LEMMA MemoryWriteKeeps == ASSUME KnowledgeInv, answer = NoAnswer, MemoryWrite PROVE KnowledgeInv'
  <1>1. PICK s \in Scopes, v \in Scores :
          written' = written + 1 /\ Remember(Note(written', DefaultScope(s), v, s))
    BY DEF MemoryWrite, FreshNote
  <1> DEFINE n == Note(written', DefaultScope(s), v, s)
  <1>2. written \in Nat /\ written' \in Nat
    BY <1>1 DEF KnowledgeInv, KnowledgeTypes
  <1>3. s \in Scopes \cup {NoReader} /\ DefaultScope(s) \in Owners /\ v \in Int
    BY KnowledgeParameters DEF Owners
  <1>4. /\ n \in Notes /\ n.id = written' /\ n.by = s /\ n.owner = DefaultScope(s).owner
        /\ n.role = DefaultScope(s).role /\ n.visibility = DefaultScope(s).visibility
    BY <1>2, <1>3, NoteIs
  <1>5. AsWritten(n, written')
    <2> HIDE DEF n
    <2> QED
      BY <1>2, <1>4 DEF AsWritten
  <1>6. PICK m \in Notes : m = n
    BY <1>4
  <1>7. Remember(m) /\ AsWritten(m, written')
    BY <1>1, <1>5, <1>6
  <1> QED
    BY <1>1, <1>7, RememberKeeps

LEMMA PostKeeps == ASSUME KnowledgeInv, answer = NoAnswer, PostMemory PROVE KnowledgeInv'
  <1>1. PICK o \in Postings, v \in Scores :
          \/ FreshNote /\ Remember(Note(written', o, v, NoReader))
          \/ \E i \in DOMAIN memories :
               Remember(Note(memories[i].id, o, v, NoReader)) /\ UNCHANGED written
    BY DEF PostMemory
  <1>2. PICK id \in Nat :
          id <= written' /\ written' \in {written, written + 1} /\ Remember(Note(id, o, v, NoReader))
    <2>1. CASE FreshNote /\ Remember(Note(written', o, v, NoReader))
      BY <2>1 DEF FreshNote, KnowledgeInv, KnowledgeTypes
    <2>2. ASSUME NEW i \in DOMAIN memories, Remember(Note(memories[i].id, o, v, NoReader)), UNCHANGED written
          PROVE  \E id \in Nat :
            id <= written' /\ written' \in {written, written + 1} /\ Remember(Note(id, o, v, NoReader))
      <3>1. memories[i] \in Notes /\ memories[i] \in ToSet(memories)
        BY ElementOfSeq, LenProperties DEF KnowledgeInv, KnowledgeTypes, ToSet
      <3>2. memories[i].id \in Nat /\ memories[i].id <= written
        BY <3>1, NotesHave DEF KnowledgeInv, NotesFit, AsWritten
      <3> QED
        BY <3>2, <2>2
    <2> QED
      BY <1>1, <2>1, <2>2
  <1> DEFINE n == Note(id, o, v, NoReader)
  <1>3. n \in Notes /\ n.id = id /\ n.by = NoReader
    <2>1. o \in Owners /\ v \in Int /\ NoReader \in Scopes \cup {NoReader}
      BY KnowledgeParameters DEF Owners
    <2> QED
      BY <2>1, NoteIs
  <1>4. Remember(n)
    BY <1>2
  <1> HIDE DEF n
  <1>5. AsWritten(n, written')
    BY <1>2, <1>3 DEF AsWritten
  <1> QED
    BY <1>2, <1>3, <1>4, <1>5, RememberKeeps

\* Taking memories away leaves the others as they are.
LEMMA ForgottenKeeps ==
  ASSUME KnowledgeInv, answer' = NoAnswer, NEW id, memories' = Without(memories, id),
         UNCHANGED <<blocks, written, edit, erased>>,
         cleaner'.listed = cleaner.listed, cleaner'.doomed \subseteq cleaner.doomed,
         cleaner' \in [at : {"idle", "list", "delete"}, listed : SUBSET Notes, doomed : SUBSET Nat]
  PROVE  KnowledgeInv'
  <1> DEFINE rest == Without(memories, id)
  <1>1. /\ rest \in Seq(Notes) /\ Keyed(rest)
        /\ ToSet(rest) = {m \in ToSet(memories) : m.id # id}
    BY WithoutIs DEF KnowledgeInv, KnowledgeTypes, NotesFit
  <1>2. memories' = rest
    OBVIOUS
  <1> HIDE DEF rest
  <1>3. memories' \in Seq(Notes) /\ Keyed(memories)' /\ ToSet(memories)' \subseteq ToSet(memories)
    BY <1>1, <1>2
  <1>4. KnowledgeTypes'
    BY <1>3 DEF KnowledgeInv, KnowledgeTypes
  <1>5. NotesFit'
    <2>1. Keyed(blocks)' /\ ToSet(blocks)' = ToSet(blocks)
      BY DEF KnowledgeInv, NotesFit, Keyed, ToSet
    <2> QED
      BY <1>3, <2>1, NotesFitOn
  <1>6. DoomedCanGo'
    BY DEF KnowledgeInv, DoomedCanGo, EnoughAreAsGood
  <1> QED
    BY <1>4, <1>5, <1>6 DEF KnowledgeInv, ErasedAreGone, RecallIsRight, ToSet

\* A step that touches only the clean-up's lists.
LEMMA CleanerKeeps ==
  ASSUME KnowledgeInv, answer = NoAnswer,
         UNCHANGED <<memories, blocks, written, answer, edit, erased>>,
         cleaner' \in [at : {"idle", "list", "delete"}, listed : SUBSET Notes, doomed : SUBSET Nat],
         DoomedCanGo'
  PROVE  KnowledgeInv'
  <1>1. KnowledgeTypes'
    BY DEF KnowledgeInv, KnowledgeTypes
  <1>2. NotesFit' /\ ErasedAreGone'
    BY DEF KnowledgeInv, NotesFit, ErasedAreGone, Keyed, ToSet
  <1> QED
    BY <1>1, <1>2 DEF KnowledgeInv, RecallIsRight

\* Those ahead by score of one that is to go are as good and in the list.
LEMMA ListsKeeps == ASSUME KnowledgeInv, answer = NoAnswer, CleanupLists PROVE KnowledgeInv'
  <1> DEFINE D == DOMAIN memories
             led == Leading(KeepCount, D, D, "score", memories)
             all == ToSet(memories)
  <1>1. /\ cleaner' = [at |-> "delete", listed |-> all, doomed |-> Doomed(memories)]
        /\ UNCHANGED <<memories, blocks, written, answer, edit, erased>>
    BY DEF CleanupLists, Cleans
  <1>2. memories \in Seq(Notes) /\ Keyed(memories) /\ KeepCount \in Nat /\ all \subseteq Notes
    BY KnowledgeParameters, NotesAreNotes DEF KnowledgeInv, KnowledgeTypes, NotesFit
  <1>3. ASSUME NEW i \in D \ led
        PROVE  EnoughAreAsGood(memories[i].id, all) /\ memories[i].id \in Nat
    <2> DEFINE l == memories[i]
               good == {k \in all : k.score >= l.score} \ {l}
               ahead == Before(i, D, "score", memories)
    <2>1. ~ (Cardinality(ahead) < KeepCount) /\ Cardinality(ahead) \in Nat /\ ahead \subseteq D
      BY <1>2, <1>3, BeforeIsFinite DEF Leading, Before
    <2>2. Cardinality({memories[j] : j \in ahead}) = Cardinality(ahead)
      BY <1>2, <2>1, NotesAtPlaces
    <2>3. {memories[j] : j \in ahead} \subseteq good
      <3> SUFFICES ASSUME NEW j \in ahead PROVE memories[j] \in good
        OBVIOUS
      <3>1. j \in D /\ Ahead("score", memories, j, i)
        BY DEF Before
      <3>2. j # i
        BY <3>1, <1>2, AheadIsAnOrder
      <3>3. memories[j] \in all /\ memories[i] \in all /\ memories[j] # memories[i]
        BY <3>1, <3>2, <1>2 DEF Keyed, ToSet
      <3>4. memories[j].score \in Int /\ memories[i].score \in Int
        BY <3>3, <1>2, NotesHave
      <3>5. memories[j].score >= memories[i].score
        BY <3>1, <3>4 DEF Ahead
      <3> QED
        BY <3>3, <3>5
    <2>4. IsFiniteSet(good) /\ Cardinality(good) \in Nat
      <3>1. IsFiniteSet({memories[j] : j \in D})
        BY <1>2, NotesAtPlaces
      <3>2. good \subseteq {memories[j] : j \in D}
        BY DEF ToSet
      <3> HIDE DEF good
      <3> QED
        BY <3>1, <3>2, FS_Subset, FS_CardinalityType
    <2>5. Cardinality({memories[j] : j \in ahead}) <= Cardinality(good)
      <3> HIDE DEF good, ahead
      <3> QED
        BY <2>3, <2>4, FS_Subset
    <2>6. Cardinality(good) >= KeepCount
      <3> HIDE DEF good, ahead
      <3> QED
        BY <2>1, <2>2, <2>4, <2>5, <1>2
    <2>7. l \in all /\ l.id \in Nat
      BY <1>2, <1>3, NotesHave DEF ToSet
    <2> HIDE DEF l, all
    <2>9. EnoughAreAsGood(l.id, all)
      BY <2>6, <2>7 DEF EnoughAreAsGood
    <2> QED
      BY <2>7, <2>9 DEF l
  <1>4. Doomed(memories) = {memories[i].id : i \in D \ led}
    BY DEF Doomed
  <1> HIDE DEF led
  <1>5. Doomed(memories) \in SUBSET Nat /\ cleaner'.doomed = Doomed(memories)
    BY <1>1, <1>3, <1>4
  <1>6. DoomedCanGo'
    <2>1. cleaner'.listed = all
      BY <1>1
    <2> HIDE DEF all
    <2> QED
      BY <1>3, <1>4, <1>5, <2>1 DEF DoomedCanGo
  <1> HIDE DEF all
  <1>7. cleaner' \in [at : {"idle", "list", "delete"}, listed : SUBSET Notes, doomed : SUBSET Nat]
    BY <1>1, <1>2, <1>5
  <1> QED
    BY <1>1, <1>6, <1>7, CleanerKeeps

LEMMA MemoryStepsKeep == ASSUME KnowledgeInv, answer = NoAnswer, MemorySteps PROVE KnowledgeInv'
  <1>0. cleaner \in [at : {"idle", "list", "delete"}, listed : SUBSET Notes, doomed : SUBSET Nat]
    BY DEF KnowledgeInv, KnowledgeTypes
  <1>1. CASE Forget
    <2>1. PICK id : memories' = Without(memories, id)
      BY <1>1 DEF Forget
    <2> QED
      BY <1>0, <1>1, <2>1, ForgottenKeeps DEF Forget
  <1>2. CASE CleanupCounts
    <2>1. DoomedCanGo'
      BY <1>0, <1>2 DEF CleanupCounts, KnowledgeInv, DoomedCanGo, EnoughAreAsGood
    <2> QED
      BY <1>0, <1>2, <2>1, CleanerKeeps DEF CleanupCounts, Cleans
  <1>3. CASE CleanupDeletes
    <2>1. ASSUME NEW id \in cleaner.doomed, memories' = Without(memories, id),
                 cleaner' = [cleaner EXCEPT !.doomed = @ \ {id}]
          PROVE  KnowledgeInv'
      BY <1>0, <1>3, <2>1, ForgottenKeeps DEF CleanupDeletes, Cleans
    <2>2. CASE cleaner' = NothingToClean /\ UNCHANGED memories
      <3>1. DoomedCanGo'
        BY <2>2 DEF DoomedCanGo, NothingToClean
      <3> QED
        BY <1>3, <2>2, <3>1, CleanerKeeps DEF CleanupDeletes, Cleans, NothingToClean
    <2> QED
      BY <1>3, <2>1, <2>2 DEF CleanupDeletes
  <1> QED
    BY <1>1, <1>2, <1>3, MemoryWriteKeeps, PostKeeps, ListsKeeps DEF MemorySteps

\* A block that has been written is not one that was deleted.
LEMMA WriteBlockKeeps ==
  ASSUME KnowledgeInv, answer = NoAnswer, NEW b \in Notes, b.id \notin erased, WriteBlock(b),
         written' \in {written, written + 1}, AsWritten(b, written'), edit' \in {edit, NoEdit}
  PROVE  KnowledgeInv'
  <1> DEFINE others == Without(blocks, b.id)
             new == BlockOrder(b, others)
  <1>1. /\ others \in Seq(Notes) /\ Keyed(others)
        /\ ToSet(others) = {m \in ToSet(blocks) : m.id # b.id}
    BY WithoutIs DEF KnowledgeInv, KnowledgeTypes, NotesFit
  <1>2. blocks' = new /\ UNCHANGED <<memories, answer, cleaner, erased>>
    BY DEF WriteBlock
  <1> HIDE DEF others
  <1>3. new \in Seq(Notes) /\ Keyed(new) /\ ToSet(new) = ToSet(others) \cup {b}
    BY <1>1, BlockOrderIs
  <1> HIDE DEF new
  <1>4. blocks' \in Seq(Notes) /\ Keyed(blocks)' /\ ToSet(blocks)' \subseteq ToSet(blocks) \cup {b}
    BY <1>1, <1>2, <1>3
  <1>5. KnowledgeTypes'
    BY <1>2, <1>4 DEF KnowledgeInv, KnowledgeTypes
  <1>6. NotesFit'
    <2>1. Keyed(memories)' /\ ToSet(memories)' = ToSet(memories)
      BY <1>2 DEF KnowledgeInv, NotesFit, Keyed, ToSet
    <2> QED
      BY <1>4, <2>1, NotesFitOn
  <1>7. ErasedAreGone'
    BY <1>2, <1>4 DEF KnowledgeInv, ErasedAreGone
  <1>8. DoomedCanGo' /\ RecallIsRight'
    BY <1>2 DEF KnowledgeInv, DoomedCanGo, EnoughAreAsGood, RecallIsRight
  <1> QED
    BY <1>5, <1>6, <1>7, <1>8 DEF KnowledgeInv

LEMMA CreateBlockKeeps == ASSUME KnowledgeInv, answer = NoAnswer, CreateBlock PROVE KnowledgeInv'
  <1>1. PICK o \in Postings, v \in Scores :
          written' = written + 1 /\ WriteBlock(Note(written', o, v, NoReader))
    BY DEF CreateBlock, FreshNote
  <1>2. written \in Nat /\ written' \in Nat /\ erased \in SUBSET (0 .. written)
    BY <1>1 DEF KnowledgeInv, KnowledgeTypes
  <1> DEFINE n == Note(written', o, v, NoReader)
  <1>3. n \in Notes /\ n.id = written' /\ n.by = NoReader
    <2>1. o \in Owners /\ v \in Int /\ NoReader \in Scopes \cup {NoReader}
      BY KnowledgeParameters DEF Owners
    <2> QED
      BY <1>2, <2>1, NoteIs
  <1>4. PICK b \in Notes : b = n
    BY <1>3
  <1>5. b.id = written' /\ b.by = NoReader /\ WriteBlock(b)
    BY <1>1, <1>3, <1>4
  <1>6. b.id \notin erased /\ AsWritten(b, written')
    BY <1>1, <1>2, <1>5 DEF AsWritten
  <1> QED
    BY <1>1, <1>5, <1>6, WriteBlockKeeps DEF CreateBlock

LEMMA BlockStepsKeep == ASSUME KnowledgeInv, answer = NoAnswer, BlockSteps PROVE KnowledgeInv'
  <1>0. /\ ToSet(blocks) \subseteq Notes /\ edit \in Notes \cup {NoEdit}
        /\ AsWritten(edit, written) /\ \A n \in ToSet(blocks) : AsWritten(n, written)
        /\ blocks \in Seq(Notes) /\ Keyed(blocks)
    BY NotesAreNotes DEF KnowledgeInv, KnowledgeTypes, NotesFit
  <1>1. CASE ReadBlock
    <2>1. PICK i \in DOMAIN blocks, v \in Scores : edit' = [blocks[i] EXCEPT !.score = v]
      BY <1>1 DEF ReadBlock
    <2>2. UNCHANGED <<memories, blocks, written, answer, cleaner, erased>>
      BY <1>1 DEF ReadBlock
    <2>3. blocks[i] \in Notes /\ AsWritten(blocks[i], written) /\ v \in Int
      BY <1>0, KnowledgeParameters DEF ToSet
    <2>4. edit' \in Notes /\ edit'.id = blocks[i].id /\ edit'.by = blocks[i].by /\ edit'.owner = blocks[i].owner
            /\ edit'.role = blocks[i].role /\ edit'.visibility = blocks[i].visibility
      BY <2>1, <2>3, NotesHave
    <2>5. AsWritten(edit, written)'
      BY <2>2, <2>3, <2>4 DEF AsWritten
    <2>6. KnowledgeTypes' /\ NotesFit'
      BY <2>2, <2>4, <2>5 DEF KnowledgeInv, KnowledgeTypes, NotesFit, Keyed, ToSet
    <2> QED
      BY <2>2, <2>6 DEF KnowledgeInv, ErasedAreGone, DoomedCanGo, EnoughAreAsGood,
         RecallIsRight, ToSet
  <1>2. CASE UpdateBlock
    <2>1. edit \in Notes /\ edit' = NoEdit /\ written' = written /\ written \in Nat
      BY <1>0, <1>2 DEF UpdateBlock, KnowledgeInv, KnowledgeTypes
    <2>2. CASE \E i \in DOMAIN blocks : blocks[i].id = edit.id
      <3>1. edit.id \notin erased
        BY <2>2 DEF KnowledgeInv, ErasedAreGone, ToSet
      <3>2. WriteBlock(edit) /\ AsWritten(edit, written')
        BY <1>0, <1>2, <2>1, <2>2 DEF UpdateBlock
      <3> QED
        BY <2>1, <3>1, <3>2, WriteBlockKeeps
    <2>3. CASE ~ \E i \in DOMAIN blocks : blocks[i].id = edit.id
      <3>1. UNCHANGED <<memories, blocks, answer, cleaner, erased>>
        BY <1>2, <2>3 DEF UpdateBlock
      <3>2. NotesFit'
        <4>1. /\ Keyed(memories)' /\ Keyed(blocks)'
              /\ ToSet(memories)' = ToSet(memories) /\ ToSet(blocks)' = ToSet(blocks)
          BY <3>1 DEF KnowledgeInv, NotesFit, Keyed, ToSet
        <4> QED
          BY <2>1, <4>1, NotesFitOn
      <3>3. KnowledgeTypes'
        BY <2>1, <3>1 DEF KnowledgeInv, KnowledgeTypes
      <3> QED
        BY <3>1, <3>2, <3>3 DEF KnowledgeInv, ErasedAreGone, DoomedCanGo, EnoughAreAsGood,
           RecallIsRight, ToSet
    <2> QED
      BY <2>2, <2>3
  <1>3. CASE DeleteBlock
    <2>1. PICK i \in DOMAIN blocks :
            /\ blocks' = Without(blocks, blocks[i].id)
            /\ erased' = erased \cup {blocks[i].id}
      BY <1>3 DEF DeleteBlock
    <2>2. UNCHANGED <<memories, written, answer, cleaner, edit>>
      BY <1>3 DEF DeleteBlock
    <2> DEFINE id == blocks[i].id
    <2>3. id \in 0 .. written /\ written \in Nat
      <3>1. blocks[i] \in ToSet(blocks)
        BY DEF ToSet
      <3> QED
        BY <1>0, <3>1, NotesHave DEF AsWritten, KnowledgeInv, KnowledgeTypes
    <2> HIDE DEF id
    <2>4. blocks' = Without(blocks, id) /\ erased' = erased \cup {id}
      BY <2>1 DEF id
    <2>5. blocks' \in Seq(Notes) /\ Keyed(blocks)' /\ ToSet(blocks)' = {m \in ToSet(blocks) : m.id # id}
      BY <1>0, <2>4, WithoutIs
    <2>6. KnowledgeTypes'
      BY <2>2, <2>3, <2>4, <2>5 DEF KnowledgeInv, KnowledgeTypes
    <2>7. NotesFit'
      <3>1. Keyed(memories)' /\ ToSet(memories)' = ToSet(memories)
        BY <2>2 DEF KnowledgeInv, NotesFit, Keyed, ToSet
      <3> QED
        BY <2>2, <2>5, <3>1, NotesFitOn
    <2>8. ErasedAreGone'
      BY <2>4, <2>5 DEF KnowledgeInv, ErasedAreGone
    <2> QED
      BY <2>2, <2>6, <2>7, <2>8 DEF KnowledgeInv, DoomedCanGo, EnoughAreAsGood, RecallIsRight
  <1> QED
    BY <1>1, <1>2, <1>3, CreateBlockKeeps DEF BlockSteps

\* What a scope sees is meant for it, ...
LEMMA SeenIsMeant ==
  ASSUME NEW s \in Scopes, NEW n \in Notes, AsWritten(n, written), VisibleTo(s, n)
  PROVE  /\ n.visibility # "private"
         /\ s.kind # "main" => n.visibility # "main_only"
         /\ s.kind = "main" => n.visibility \notin {"role_only", "task_only"}
         /\ n.by.role # "" => s.kind = "main" \/ s.role = n.by.role
         /\ n.owner = "role" /\ n.visibility \in {"role_only", "role_shared"} =>
              s.kind = "main" \/ s.role = n.role
  <1>1. n.visibility # "private" /\ (s.kind # "main" => n.visibility # "main_only")
    BY DEF VisibleTo
  <1>2. s.kind = "main" => n.visibility \notin {"role_only", "task_only"}
    BY DEF VisibleTo, SameTask
  <1>3. n.owner = "role" /\ n.visibility \in {"role_only", "role_shared"} => s.kind = "main" \/ s.role = n.role
    BY DEF VisibleTo, SameTask, SameRole
  <1>4. n.by.role # "" => n.owner = "role" /\ n.visibility = "role_shared" /\ n.role = n.by.role
    <2>1. NoReader.role = ""
      BY DEF NoReader
    <2> QED
      BY <2>1 DEF AsWritten, DefaultScope
  <1> QED
    BY <1>1, <1>2, <1>3, <1>4

\* ... and what is for everybody, or was noted by a turn of its role, it sees.
LEMMA MeantIsSeen ==
  ASSUME NEW s \in Scopes, NEW n \in Notes, AsWritten(n, written)
  PROVE  /\ n.by # NoReader /\ (n.by.role = "" \/ s.kind = "main" \/ s.role = n.by.role) => VisibleTo(s, n)
         /\ n.visibility \in {"global", "workspace"} => VisibleTo(s, n)
  <1>1. n.by # NoReader /\ n.by.role = "" => n.visibility = "workspace"
    BY DEF AsWritten, DefaultScope
  <1>2. n.by # NoReader /\ n.by.role # "" => n.owner = "role" /\ n.visibility = "role_shared" /\ n.role = n.by.role
    BY DEF AsWritten, DefaultScope
  <1> QED
    BY <1>1, <1>2 DEF VisibleTo, SameRole

\* A reader is shown what its scope sees of a list, all of it unless the limit is reached.
LEMMA ShownAre ==
  ASSUME NEW notes \in Seq(Notes), Keyed(notes), NEW places \in SUBSET DOMAIN notes,
         NEW s \in Scopes, NEW by, NEW limit \in Nat
  PROVE  LET shown == {notes[i] : i \in Pick(s, places, by, notes, limit)} IN
           /\ \A n \in shown : n \in ToSet(notes) /\ VisibleTo(s, n)
           /\ Cardinality(shown) <= limit
           /\ Cardinality(shown) < limit =>
                \A i \in places : VisibleTo(s, notes[i]) => notes[i] \in shown
  <1> DEFINE seen == Visible(s, places, notes)
             led == Leading(limit, seen, seen, by, notes)
             shown == {notes[i] : i \in led}
  <1>1. seen \in SUBSET DOMAIN notes /\ led \subseteq seen /\ Pick(s, places, by, notes, limit) = led
    BY DEF Visible, Leading, Pick
  <1>2. \A n \in shown : n \in ToSet(notes) /\ VisibleTo(s, n)
    BY <1>1 DEF Visible, ToSet
  <1>3. Cardinality(shown) = Cardinality(led)
    BY <1>1, NotesAtPlaces
  <1>4. Cardinality(led) <= limit
    BY <1>1, LeadersAreFew
  <1>5. ASSUME Cardinality(led) < limit, NEW i \in places, VisibleTo(s, notes[i])
        PROVE  notes[i] \in shown
    <2>1. IsFiniteSet(led) /\ Cardinality(led) \in Nat
      BY <1>1, BeforeIsFinite, FS_CardinalityType
    <2>2. i \in seen
      BY <1>5 DEF Visible
    <2>3. ASSUME i \notin led PROVE FALSE
      <3>1. Cardinality(led) >= limit
        BY <1>1, <2>2, <2>3, LeadersAreEnough
      <3> HIDE DEF led
      <3> QED
        BY <3>1, <2>1, <1>5
    <2> QED
      BY <2>3
  <1> QED
    BY <1>1, <1>2, <1>3, <1>4, <1>5

LEMMA ShowsKeeps ==
  ASSUME KnowledgeInv, NEW notes \in {memories, blocks}, NEW places \in SUBSET DOMAIN notes,
         NEW s \in Scopes, NEW by, NEW limit \in Nat, NEW about, Shows(s, places, by, notes, limit, about),
         about = "memories" => notes = memories /\ places = DOMAIN memories,
         about = "blocks" => notes = blocks /\ places = DOMAIN blocks
  PROVE  KnowledgeInv'
  <1> DEFINE shown == {notes[i] : i \in Pick(s, places, by, notes, limit)}
  <1>1. /\ answer' = [scope |-> s, limit |-> limit, about |-> about, shown |-> shown]
        /\ UNCHANGED <<memories, blocks, written, cleaner, edit, erased>>
    BY DEF Shows
  <1>2. notes \in Seq(Notes) /\ Keyed(notes) /\ ToSet(notes) \subseteq Notes
          /\ \A n \in ToSet(notes) : AsWritten(n, written)
    BY NotesAreNotes DEF KnowledgeInv, KnowledgeTypes, NotesFit
  <1>3. /\ \A n \in shown : n \in ToSet(notes) /\ VisibleTo(s, n)
        /\ Cardinality(shown) <= limit
        /\ Cardinality(shown) < limit => \A i \in places : VisibleTo(s, notes[i]) => notes[i] \in shown
    BY <1>2, ShownAre
  <1> HIDE DEF shown
  <1>4. answer'.scope = s /\ answer'.limit = limit /\ answer'.about = about /\ answer'.shown = shown
    BY <1>1
  <1>5. \A n \in shown : 
          /\ n.visibility # "private"
          /\ s.kind # "main" => n.visibility # "main_only"
          /\ s.kind = "main" => n.visibility \notin {"role_only", "task_only"}
          /\ n.by.role # "" => s.kind = "main" \/ s.role = n.by.role
          /\ n.owner = "role" /\ n.visibility \in {"role_only", "role_shared"} =>
               s.kind = "main" \/ s.role = n.role
    BY <1>2, <1>3, SeenIsMeant
  <1>6. ASSUME Cardinality(shown) < limit, about = "memories", NEW n \in ToSet(memories),
               n.by # NoReader /\ (n.by.role = "" \/ s.kind = "main" \/ s.role = n.by.role)
        PROVE  n \in shown
    <2>1. PICK i \in DOMAIN memories : n = memories[i]
      BY DEF ToSet
    <2>2. VisibleTo(s, n)
      BY <1>2, <1>6, MeantIsSeen
    <2> QED
      BY <1>3, <1>6, <2>1, <2>2
  <1>7. ASSUME Cardinality(shown) < limit, about = "blocks", NEW n \in ToSet(blocks),
               n.visibility \in {"global", "workspace"}
        PROVE  n \in shown
    <2>1. PICK i \in DOMAIN blocks : n = blocks[i]
      BY DEF ToSet
    <2>2. VisibleTo(s, n)
      BY <1>2, <1>7, MeantIsSeen
    <2> QED
      BY <1>3, <1>7, <2>1, <2>2
  <1>8. ToSet(memories)' = ToSet(memories) /\ ToSet(blocks)' = ToSet(blocks)
    BY <1>1 DEF ToSet
  <1>9. RecallIsRight'
    BY <1>3, <1>4, <1>5, <1>6, <1>7, <1>8 DEF RecallIsRight
  <1>10. KnowledgeTypes' /\ NotesFit' /\ ErasedAreGone' /\ DoomedCanGo'
    BY <1>1, <1>8 DEF KnowledgeInv, KnowledgeTypes, NotesFit, ErasedAreGone, DoomedCanGo, Keyed
  <1> QED
    BY <1>9, <1>10 DEF KnowledgeInv

LEMMA ReadStepsKeep == ASSUME KnowledgeInv, ReadSteps PROVE KnowledgeInv'
  <1>0. \A l \in Limits : l \in Nat
    BY KnowledgeParameters
  <1>1. CASE RecallArchive
    BY <1>0, <1>1, ShowsKeeps DEF RecallArchive
  <1>2. CASE LoadContext
    <2>1. PICK s \in Scopes, i \in DOMAIN memories : Shows(s, {i}, "age", memories, 1, "one")
      BY <1>2 DEF LoadContext
    <2>2. {i} \in SUBSET DOMAIN memories /\ 1 \in Nat
      OBVIOUS
    <2> QED
      BY <2>1, <2>2, ShowsKeeps
  <1>3. CASE AsMain
    <2>1. PICK s \in Scopes, l \in Limits : SearchAsMain(s, l) \/ PreviewMemories(s, l) \/ PreviewBlocks(s, l)
      BY <1>3 DEF AsMain
    <2>2. CASE SearchAsMain(s, l)
      BY <1>0, <2>2, ShowsKeeps DEF SearchAsMain
    <2>3. CASE PreviewMemories(s, l)
      <3> DEFINE latest == Leading(RecallLimit, DOMAIN memories, DOMAIN memories, "age", memories)
      <3>1. latest \in SUBSET DOMAIN memories /\ Shows(s, latest, "score", memories, l, "preview")
        BY <2>3 DEF PreviewMemories, Leading
      <3> HIDE DEF latest
      <3> QED
        BY <1>0, <3>1, ShowsKeeps
    <2>4. CASE PreviewBlocks(s, l)
      BY <1>0, <2>4, ShowsKeeps DEF PreviewBlocks
    <2> QED
      BY <2>1, <2>2, <2>3, <2>4
  <1> QED
    BY <1>1, <1>2, <1>3 DEF ReadSteps

\* Looking at an answer, and doing nothing, change no list.
LEMMA KnowledgeRests ==
  ASSUME KnowledgeInv, UNCHANGED <<memories, blocks, written, cleaner, edit, erased>>,
         answer' \in {answer, NoAnswer}
  PROVE  KnowledgeInv'
  <1>1. KnowledgeTypes' /\ NotesFit' /\ ErasedAreGone' /\ DoomedCanGo'
    BY DEF KnowledgeInv, KnowledgeTypes, NotesFit, ErasedAreGone, DoomedCanGo, Keyed, ToSet
  <1>2. RecallIsRight'
    <2>1. CASE answer' = answer
      BY <2>1 DEF KnowledgeInv, RecallIsRight, ToSet
    <2>2. CASE answer' = NoAnswer
      BY <2>2 DEF RecallIsRight
    <2> QED
      BY <2>1, <2>2
  <1> QED
    BY <1>1, <1>2 DEF KnowledgeInv

LEMMA KnowledgeStep == KnowledgeInv /\ [KnowledgeNext]_knowledgeVars => KnowledgeInv'
  <1> SUFFICES ASSUME KnowledgeInv, [KnowledgeNext]_knowledgeVars PROVE KnowledgeInv'
    OBVIOUS
  <1>1. CASE answer = NoAnswer /\ (MemorySteps \/ BlockSteps \/ ReadSteps)
    BY <1>1, MemoryStepsKeep, BlockStepsKeep, ReadStepsKeep
  <1>2. CASE Answered \/ UNCHANGED knowledgeVars
    BY <1>2, KnowledgeRests DEF Answered, knowledgeVars
  <1> QED
    BY <1>1, <1>2 DEF KnowledgeNext

\* What was said of notes, lists and answers, for any notes, readers and limits.
THEOREM KnowledgeInvariant == KnowledgeSpec => []KnowledgeInv
  BY KnowledgeInitially, KnowledgeStep, PTL DEF KnowledgeSpec

\* Readers are shown what is meant for them, all of it up to their limit
\* (tools/namespace_memory.go:216, contextasm/filter.go:62).
THEOREM ReadersAreShownTheirs == KnowledgeSpec => []RecallIsRight
  <1>1. KnowledgeInv => RecallIsRight
    BY DEF KnowledgeInv
  <1> QED
    BY <1>1, KnowledgeInvariant, PTL

\* Only the clean-up's own deletions touch what it is about to delete.
LEMMA DeletionsAre ==
  ASSUME KnowledgeInv, KnowledgeNext, cleaner'.doomed # cleaner.doomed, cleaner.at = "delete"
  PROVE  memories' = memories \/ \E id \in cleaner.doomed : memories' = Without(memories, id)
  <1>1. ASSUME UNCHANGED cleaner PROVE FALSE
    BY <1>1
  <1>2. CleanupDeletes
    BY <1>1 DEF KnowledgeNext, MemorySteps, BlockSteps, ReadSteps, Answered, MemoryWrite,
       PostMemory, Remember,
       Forget, CleanupCounts, CleanupLists, Cleans, CreateBlock, ReadBlock, UpdateBlock, DeleteBlock, WriteBlock,
       RecallArchive, LoadContext, AsMain, SearchAsMain, PreviewMemories, PreviewBlocks, Shows
  <1> QED
    BY <1>2 DEF CleanupDeletes

\* The clean-up deletes only what it had listed and what enough others were as good
\* as (memory/service.go:79), and a deleted block is never written again
\* (contextsvc/service.go:239).
THEOREM RemovalsStayRight == KnowledgeSpec => RemovalsAreRight
  <1>1. ASSUME KnowledgeInv, KnowledgeInv', [KnowledgeNext]_knowledgeVars
        PROVE  \/ UNCHANGED knowledgeVars
               \/ /\ cleaner'.doomed # cleaner.doomed /\ cleaner.at = "delete" =>
                       \A n \in Removed : EnoughAreAsGood(n.id, cleaner.listed)
                  /\ \A i \in DOMAIN blocks' : blocks'[i].id \notin erased'
    <2>1. \A i \in DOMAIN blocks' : blocks'[i].id \notin erased'
      BY <1>1 DEF KnowledgeInv, ErasedAreGone, ToSet
    <2>2. ASSUME KnowledgeNext, cleaner'.doomed # cleaner.doomed, cleaner.at = "delete", NEW n \in Removed
          PROVE  EnoughAreAsGood(n.id, cleaner.listed)
      <3>1. n \in ToSet(memories) /\ \A i \in DOMAIN memories' : memories'[i].id # n.id
        BY DEF Removed
      <3>2. memories' # memories
        BY <3>1 DEF ToSet
      <3>3. PICK id \in cleaner.doomed : memories' = Without(memories, id)
        BY <1>1, <2>2, <3>2, DeletionsAre
      <3>4. ToSet(memories)' = {m \in ToSet(memories) : m.id # id}
        BY <1>1, <3>3, WithoutIs DEF KnowledgeInv, KnowledgeTypes, NotesFit
      <3>5. n.id = id
        BY <3>1, <3>4 DEF ToSet
      <3> QED
        BY <1>1, <3>3, <3>5 DEF KnowledgeInv, DoomedCanGo
    <2> QED
      BY <1>1, <2>1, <2>2
  <1>2. KnowledgeInv /\ KnowledgeInv' /\ [KnowledgeNext]_knowledgeVars
          => [ /\ cleaner'.doomed # cleaner.doomed /\ cleaner.at = "delete" =>
                    \A n \in Removed :
                      \E l \in cleaner.listed :
                        /\ l.id = n.id
                        /\ Cardinality({k \in cleaner.listed : k.score >= l.score} \ {l}) >= KeepCount
               /\ \A i \in DOMAIN blocks' : blocks'[i].id \notin erased' ]_knowledgeVars
    BY <1>1 DEF EnoughAreAsGood
  <1> QED
    BY <1>2, KnowledgeInvariant, PTL DEF KnowledgeSpec, RemovalsAreRight

=============================================================================
