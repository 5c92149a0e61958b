------------------------ MODULE SessionManagerProofs ------------------------
(***************************************************************************)
(* Theorems about SessionManager, for any sets of sessions and turns.      *)
(***************************************************************************)
EXTENDS SessionManager, SequenceTheorems, FiniteSetTheorems, TLAPS

-----------------------------------------------------------------------------
(* What the queue operations return *)

\* The cached counters are three natural numbers.
LEMMA QueueCountersType ==
  ASSUME NEW q \in Seq(Turns)
  PROVE  QueueCounters(q) \in [depth : Nat, users : Nat, batches : Nat]
<1>1. Len(q) \in Nat
  BY LenProperties
<1>2. IsFiniteSet(1 .. Len(q))
  BY <1>1, FS_Interval
<1>3. \A S \in SUBSET (1 .. Len(q)) : Cardinality(S) \in Nat
  BY <1>2, FS_Subset, FS_CardinalityType
<1> QED
  BY <1>1, <1>3 DEF QueueCounters

\* Cutting one position out of a queue keeps the others in their order.
LEMMA RemoveAtProperties ==
  ASSUME NEW S, NEW q \in Seq(S), NEW i \in 1 .. Len(q)
  PROVE  /\ RemoveAt(q, i) \in Seq(S)
         /\ Len(RemoveAt(q, i)) = Len(q) - 1
         /\ \A j \in 1 .. Len(q) - 1 :
              RemoveAt(q, i)[j] = q[IF j < i THEN j ELSE j + 1]
<1> DEFINE a == SubSeq(q, 1, i - 1)
           b == SubSeq(q, i + 1, Len(q))
<1>1. Len(q) \in Nat /\ \A j \in 1 .. Len(q) : q[j] \in S
  BY LenProperties, ElementOfSeq
<1>2. /\ a \in Seq(S)
      /\ Len(a) = i - 1
      /\ \A j \in 1 .. i - 1 : a[j] = q[j]
  <2>1. 1 \in Int /\ i - 1 \in Int /\ \A j \in 1 .. i - 1 : q[j] \in S
    BY <1>1
  <2> HIDE DEF a
  <2>2. /\ a \in Seq(S)
        /\ Len(a) = IF 1 <= i - 1 THEN (i - 1) - 1 + 1 ELSE 0
        /\ \A j \in 1 .. (i - 1) - 1 + 1 : a[j] = q[1 + j - 1]
    BY <2>1, SubSeqProperties DEF a
  <2> QED
    BY <2>2, <1>1
<1>3. /\ b \in Seq(S)
      /\ Len(b) = Len(q) - i
      /\ \A j \in 1 .. Len(q) - i : b[j] = q[i + j]
  <2>1. i + 1 \in Int /\ Len(q) \in Int /\ \A j \in i + 1 .. Len(q) : q[j] \in S
    BY <1>1
  <2> HIDE DEF b
  <2>2. /\ b \in Seq(S)
        /\ Len(b) = IF i + 1 <= Len(q) THEN Len(q) - (i + 1) + 1 ELSE 0
        /\ \A j \in 1 .. Len(q) - (i + 1) + 1 : b[j] = q[i + 1 + j - 1]
    BY <2>1, SubSeqProperties DEF b
  <2> QED
    BY <2>2, <1>1
<1> HIDE DEF a, b
<1>4. /\ a \o b \in Seq(S)
      /\ Len(a \o b) = Len(a) + Len(b)
      /\ \A j \in 1 .. Len(a) + Len(b) :
           (a \o b)[j] = IF j <= Len(a) THEN a[j] ELSE b[j - Len(a)]
  BY <1>2, <1>3, ConcatProperties
<1>5. RemoveAt(q, i) = a \o b
  BY DEF RemoveAt, a, b
<1>6. Len(a) + Len(b) = Len(q) - 1
  BY <1>1, <1>2, <1>3
<1>7. ASSUME NEW j \in 1 .. Len(q) - 1
      PROVE  (a \o b)[j] = q[IF j < i THEN j ELSE j + 1]
  <2>1. CASE j < i
    BY <2>1, <1>1, <1>2, <1>4, <1>6
  <2>2. CASE ~ (j < i)
    <3>1. j - (i - 1) \in 1 .. Len(q) - i /\ ~ (j <= Len(a))
      BY <2>2, <1>1, <1>2
    <3>2. (a \o b)[j] = b[j - (i - 1)]
      BY <3>1, <1>2, <1>4, <1>6
    <3>3. b[j - (i - 1)] = q[i + (j - (i - 1))]
      BY <3>1, <1>3
    <3>4. i + (j - (i - 1)) = j + 1
      BY <1>1
    <3> QED
      BY <3>2, <3>3, <3>4, <2>2
  <2> QED
    BY <2>1, <2>2
<1> QED
  BY <1>4, <1>5, <1>6, <1>7

\* The same for a queue of turns, as the set of turns it holds.
LEMMA QueueEdits ==
  ASSUME NEW q \in Seq(Turns)
  PROVE  /\ \A t \in Turns : Append(q, t) \in Seq(Turns)
         /\ q # <<>> => Head(q) \in Turns /\ Tail(q) \in Seq(Turns)
         /\ \A i \in 1 .. Len(q) : q[i] \in Turns /\ RemoveAt(q, i) \in Seq(Turns)
  BY AppendProperties, HeadTailProperties, RemoveAtProperties, ElementOfSeq

-----------------------------------------------------------------------------
(* The inductive invariant.  LiveRunIsActive says nothing of queued turns, so  *)
(* a step that takes a turn out of the queue could break it; the strengthening *)
(* pins down where every submitted turn is.                                    *)

\* A turn has a session from its submission on, and needs one until its end.
HomeFits(h, state) ==
  /\ state = "new" => h = NoSession
  /\ state \in InFlight \cup {"queued"} => h # NoSession

Homes == \A t \in Turns : HomeFits(home[t], stage[t])

CancelIsActive == \A s \in Sessions : cancel[s] = active[s]

QueueContent ==
  \A s \in Sessions : \A i \in 1 .. Len(queue[s]) :
    home[queue[s][i]] = s /\ stage[queue[s][i]] = "queued"

QueueComplete ==
  \A t \in Turns : stage[t] = "queued" =>
    \E i \in 1 .. Len(queue[home[t]]) : queue[home[t]][i] = t

QueueDistinct ==
  \A s \in Sessions : \A i, j \in 1 .. Len(queue[s]) :
    i # j => /\ queue[s][i] # queue[s][j]
             /\ ~ (queue[s][i] \in BatchTurns /\ queue[s][j] \in BatchTurns)

BusyWhileQueued == \A s \in Sessions : queue[s] # <<>> => active[s] # NoTurn

LiveMeansActive ==
  \A s \in Sessions, t \in Turns :
    active[s] = t <=> home[t] = s /\ stage[t] \in InFlight /\ t \notin cancelled

CancelledHaveRun == \A t \in cancelled : stage[t] \in InFlight \cup {"done"}

Placement ==
  /\ Homes
  /\ CancelIsActive
  /\ QueueContent
  /\ QueueComplete
  /\ QueueDistinct
  /\ BusyWhileQueued
  /\ LiveMeansActive
  /\ CancelledHaveRun

IInv == TypeOK /\ Placement /\ CountersCurrent

-----------------------------------------------------------------------------
(* Type correctness *)

\* A hand-over keeps the types, provided the session had an active turn.
LEMMA HandOverTypes ==
  ASSUME TypeOK, NEW s \in Sessions, active[s] # NoTurn,
         HandOver(s), UNCHANGED registered
  PROVE  /\ NextTurn(s) \in Turns \cup {NoTurn}
         /\ active' \in [Sessions -> Turns \cup {NoTurn}]
         /\ cancel' \in [Sessions -> Turns \cup {NoTurn}]
         /\ queue' \in [Sessions -> Seq(Turns)]
         /\ counters' \in [Sessions -> [depth : Nat, users : Nat, batches : Nat]]
         /\ \A r \in Sessions \ registered' : active'[r] = NoTurn /\ queue'[r] = <<>>
<1>1. /\ queue[s] \in Seq(Turns)
      /\ NextTurn(s) \in Turns \cup {NoTurn}
      /\ queue[s] # <<>> => Tail(queue[s]) \in Seq(Turns)
  BY QueueEdits DEF TypeOK, NextTurn
<1>2. queue' \in [Sessions -> Seq(Turns)]
  BY <1>1 DEF HandOver, TypeOK
<1>3. counters' \in [Sessions -> [depth : Nat, users : Nat, batches : Nat]]
  BY <1>2, QueueCountersType DEF HandOver, RefreshQueueCounters, TypeOK
<1> QED
  BY <1>1, <1>2, <1>3 DEF HandOver, TypeOK

\* Every step keeps the types.
LEMMA TypeStep == TypeOK /\ Homes /\ [Next]_vars => TypeOK'
<1> USE DEF Stage
<1> SUFFICES ASSUME TypeOK, Homes, [Next]_vars
             PROVE  TypeOK'
  OBVIOUS
<1>q. \A s \in Sessions : queue[s] \in Seq(Turns)
  BY DEF TypeOK
<1>c. ASSUME NEW s \in Sessions, queue' \in [Sessions -> Seq(Turns)], RefreshQueueCounters(s)
      PROVE  counters' \in [Sessions -> [depth : Nat, users : Nat, batches : Nat]]
  BY <1>c, QueueCountersType DEF TypeOK, RefreshQueueCounters
<1>1. ASSUME NEW s \in Sessions, Register(s)
      PROVE  TypeOK'
  BY <1>1 DEF Register, TypeOK
<1>2. ASSUME NEW s \in Sessions, NEW t \in Turns, SubmitTurn(s, t)
      PROVE  TypeOK'
  <2>1. CASE StartIdle(s, t)
    BY <1>2, <2>1, <1>c DEF SubmitTurn, StartIdle, ActivateNew, TypeOK
  <2>2. CASE Preempt(s, t)
    BY <1>2, <2>2, <1>c DEF SubmitTurn, Preempt, ActivateNew, TypeOK
  <2>3. CASE Enqueue(s, t)
    <3>1. queue' \in [Sessions -> Seq(Turns)]
      <4>1. Append(queue[s], t) \in Seq(Turns)
        BY <1>q, QueueEdits
      <4> QED
        BY <2>3, <4>1 DEF Enqueue, TypeOK
    <3>2. counters' \in [Sessions -> [depth : Nat, users : Nat, batches : Nat]]
      BY <2>3, <3>1, <1>c DEF Enqueue
    <3>3. stage' \in [Turns -> Stage]
      BY <2>3 DEF Enqueue, TypeOK
    <3>4. \A r \in Sessions \ registered' : active'[r] = NoTurn /\ queue'[r] = <<>>
      BY <1>2, <2>3 DEF SubmitTurn, Enqueue, TypeOK
    <3> QED
      BY <1>2, <2>3, <3>1, <3>2, <3>3, <3>4 DEF SubmitTurn, Enqueue, TypeOK
  <2> QED
    BY <1>2, <2>1, <2>2, <2>3 DEF SubmitTurn
<1>3. ASSUME NEW s \in Sessions, CancelActive(s)
      PROVE  TypeOK'
  BY <1>3, HandOverTypes DEF CancelActive, TypeOK
<1>4. ASSUME NEW s \in Sessions, NEW i \in 1 .. Len(queue[s]), CancelQueued(s, i)
      PROVE  TypeOK'
  <2>1. queue' \in [Sessions -> Seq(Turns)]
    BY <1>4, <1>q, QueueEdits DEF CancelQueued, TypeOK
  <2>2. counters' \in [Sessions -> [depth : Nat, users : Nat, batches : Nat]]
    BY <1>4, <2>1, <1>c DEF CancelQueued
  <2>3. queue[s] # <<>>
    BY <1>q
  <2> QED
    BY <1>4, <2>1, <2>2, <2>3, QueueEdits DEF CancelQueued, TypeOK
<1>5. ASSUME NEW t \in Turns, Spawn(t) \/ AgentReturns(t) \/ FinishStale(t)
      PROVE  TypeOK'
  BY <1>5 DEF Spawn, AgentReturns, FinishStale, TypeOK
<1>6. ASSUME NEW t \in Turns, FinishActive(t)
      PROVE  TypeOK'
  <2>1. home[t] \in Sessions
    BY <1>6 DEF FinishActive, TypeOK, Homes, HomeFits, InFlight
  <2>2. active[home[t]] # NoTurn
    BY <1>6, TurnKinds DEF FinishActive, Turns
  <2> QED
    BY <1>6, <2>1, <2>2, HandOverTypes DEF FinishActive, TypeOK
<1>7. CASE UNCHANGED vars
  BY <1>7 DEF vars, TypeOK
<1> QED
  BY <1>1, <1>2, <1>3, <1>4, <1>5, <1>6, <1>7 DEF Next, FinishTurn

-----------------------------------------------------------------------------
(* Where the turns are *)

\* A queued turn belongs to the session that queues it.
LEMMA QueuedAre ==
  ASSUME TypeOK, Placement, NEW s \in Sessions, NEW i \in 1 .. Len(queue[s])
  PROVE  queue[s][i] \in Turns /\ home[queue[s][i]] = s /\ stage[queue[s][i]] = "queued"
  <1>1. queue[s] \in Seq(Turns)
    BY DEF TypeOK
  <1> QED
    BY <1>1, ElementOfSeq DEF Placement, QueueContent

\* A hand-over keeps every turn where Placement says it is: the head of the
\* queue becomes the live turn, and the old one is done or cancelled.
LEMMA HandOverKeeps ==
  ASSUME TypeOK, TypeOK', Placement, NEW s \in Sessions, active[s] # NoTurn,
         HandOver(s), UNCHANGED home,
         \A u \in Turns : u # active[s] /\ u # NextTurn(s) => stage'[u] = stage[u],
         NextTurn(s) # NoTurn => stage'[NextTurn(s)] = "spawning",
         \/ stage'[active[s]] = "done" /\ cancelled' = cancelled
         \/ stage'[active[s]] = stage[active[s]] /\ cancelled' = cancelled \cup {active[s]}
  PROVE  Placement'
<1> DEFINE a == active[s]
           n == NextTurn(s)
           q == queue[s]
<1>1. /\ a \in Turns /\ home[a] = s /\ stage[a] \in InFlight /\ a \notin cancelled
      /\ q \in Seq(Turns) /\ Len(q) \in Nat
  <2>1. a \in Turns /\ q \in Seq(Turns)
    BY DEF TypeOK
  <2> QED
    BY <2>1, LenProperties DEF Placement, LiveMeansActive
<1>2. /\ q = <<>> => n = NoTurn
      /\ q # <<>> => /\ n = q[1] /\ n \in Turns /\ n # NoTurn /\ 1 \in 1 .. Len(q)
                     /\ home[n] = s /\ stage[n] = "queued" /\ n # a /\ n \notin cancelled
  <2>1. CASE q = <<>>
    BY <2>1 DEF NextTurn
  <2>2. CASE q # <<>>
    <3>1. 1 \in 1 .. Len(q) /\ n = q[1]
      BY <1>1, <2>2, HeadTailProperties, EmptySeq DEF NextTurn
    <3>2. home[n] = s /\ stage[n] = "queued" /\ n \in Turns
      BY <3>1, <1>1, ElementOfSeq DEF Placement, QueueContent
    <3> QED
      BY <2>2, <3>1, <3>2, <1>1, TurnKinds
         DEF Placement, CancelledHaveRun, InFlight, Turns
  <2> QED
    BY <2>1, <2>2
<1>3. /\ q = <<>> => queue'[s] = <<>>
      /\ q # <<>> => /\ Len(queue'[s]) = Len(q) - 1
                     /\ \A i \in 1 .. Len(queue'[s]) : queue'[s][i] = q[i + 1]
      /\ \A r \in Sessions : r # s => queue'[r] = queue[r]
  <2>1. queue'[s] = IF q = <<>> THEN q ELSE Tail(q)
    BY DEF HandOver, TypeOK
  <2>2. \A r \in Sessions : r # s => queue'[r] = queue[r]
    BY DEF HandOver, TypeOK
  <2>3. q # <<>> => /\ Len(Tail(q)) = Len(q) - 1
                    /\ \A i \in 1 .. Len(Tail(q)) : Tail(q)[i] = q[i + 1]
    BY <1>1, HeadTailProperties
  <2> QED
    BY <2>1, <2>2, <2>3
<1>4. /\ active'[s] = n /\ cancel'[s] = n
      /\ \A r \in Sessions : r # s => active'[r] = active[r] /\ cancel'[r] = cancel[r]
  BY DEF HandOver, TypeOK
<1>5. /\ \A u \in Turns : u # a /\ u # n => stage'[u] = stage[u] /\ (u \in cancelled' <=> u \in cancelled)
      /\ n # NoTurn => stage'[n] = "spawning" /\ n \notin cancelled'
      /\ stage'[a] = "done" \/ (stage'[a] = stage[a] /\ a \in cancelled')
      /\ cancelled' \subseteq cancelled \cup {a}
  <2>1. cancelled' = cancelled \/ cancelled' = cancelled \cup {a}
    OBVIOUS
  <2>2. \A u \in Turns : u # a /\ u # n => stage'[u] = stage[u]
    OBVIOUS
  <2>3. n # NoTurn => n # a /\ n \notin cancelled /\ stage'[n] = "spawning"
    BY <1>2
  <2>4. stage'[a] = "done" \/ (stage'[a] = stage[a] /\ a \in cancelled')
    OBVIOUS
  <2> HIDE DEF a, n
  <2> QED
    BY <2>1, <2>2, <2>3, <2>4
<1>6. Len(<<>>) = 0
  OBVIOUS
<1> HIDE DEF a, n, q
<1>7. \A r \in Sessions : \A i \in 1 .. Len(queue'[r]) :
        \E k \in 1 .. Len(queue[r]) :
          /\ queue'[r][i] = queue[r][k]
          /\ r = s => k = i + 1
          /\ r # s => k = i
  <2> SUFFICES ASSUME NEW r \in Sessions, NEW i \in 1 .. Len(queue'[r])
               PROVE  \E k \in 1 .. Len(queue[r]) :
                        /\ queue'[r][i] = queue[r][k]
                        /\ r = s => k = i + 1
                        /\ r # s => k = i
    OBVIOUS
  <2>1. CASE r # s
    BY <2>1, <1>3
  <2>2. CASE r = s
    <3>1. q # <<>>
      BY <2>2, <1>3, <1>6
    <3>2. i + 1 \in 1 .. Len(queue[r]) /\ queue'[r][i] = queue[r][i + 1]
      BY <2>2, <3>1, <1>1, <1>3 DEF q
    <3> QED
      BY <2>2, <3>2
  <2> QED
    BY <2>1, <2>2
<1>8. \A r \in Sessions : \A k \in 1 .. Len(queue[r]) :
        /\ queue[r][k] \in Turns /\ home[queue[r][k]] = r /\ stage[queue[r][k]] = "queued"
        /\ queue[r][k] # a
        /\ r # s \/ k # 1 => queue[r][k] # n
  <2> SUFFICES ASSUME NEW r \in Sessions, NEW k \in 1 .. Len(queue[r])
               PROVE  /\ queue[r][k] \in Turns /\ home[queue[r][k]] = r
                      /\ stage[queue[r][k]] = "queued"
                      /\ queue[r][k] # a
                      /\ r # s \/ k # 1 => queue[r][k] # n
    OBVIOUS
  <2>1. /\ queue[r][k] \in Turns /\ home[queue[r][k]] = r
        /\ stage[queue[r][k]] = "queued"
    BY QueuedAre
  <2>2. queue[r][k] # a
    BY <2>1, <1>1 DEF InFlight
  <2>3. CASE r # s
    BY <2>1, <2>2, <2>3, <1>2, TurnKinds DEF Turns
  <2>4. CASE r = s /\ k # 1
    <3>1. q # <<>>
      BY <2>4, <1>1, <1>6 DEF q
    <3>2. 1 \in 1 .. Len(queue[s]) /\ k \in 1 .. Len(queue[s]) /\ k # 1
      BY <2>4, <3>1, <1>2 DEF q
    <3>3. queue[s][k] # queue[s][1]
      BY <3>2 DEF Placement, QueueDistinct
    <3> QED
      BY <2>1, <2>2, <2>4, <3>1, <3>3, <1>2 DEF q
  <2> QED
    BY <2>1, <2>2, <2>3, <2>4
<1>9. Homes'
  <2> SUFFICES ASSUME NEW t \in Turns
               PROVE  HomeFits(home[t], stage'[t])
    BY DEF Homes
  <2>1. HomeFits(home[t], stage[t])
    BY DEF Placement, Homes, HomeFits, InFlight
  <2>2. t = a => stage'[t] # "new" /\ home[t] # NoSession
    BY <1>1, <1>5, <2>1 DEF HomeFits, InFlight
  <2>3. t = n => stage'[t] # "new" /\ home[t] # NoSession
    BY <1>2, <1>5, <2>1, TurnKinds DEF HomeFits, Turns
  <2> QED
    BY <2>1, <2>2, <2>3, <1>5 DEF HomeFits
<1>10. CancelIsActive'
  BY <1>4 DEF Placement, CancelIsActive
<1>11. QueueContent'
  <2> SUFFICES ASSUME NEW r \in Sessions, NEW i \in 1 .. Len(queue'[r])
               PROVE  home[queue'[r][i]] = r /\ stage'[queue'[r][i]] = "queued"
    BY DEF QueueContent
  <2>1. PICK k \in 1 .. Len(queue[r]) : /\ queue'[r][i] = queue[r][k]
                                        /\ r = s => k = i + 1
    BY <1>7
  <2>2. r # s \/ k # 1
    <3>1. Len(queue'[r]) \in Nat
      BY LenProperties DEF TypeOK
    <3> QED
      BY <2>1, <3>1
  <2> QED
    BY <2>1, <2>2, <1>5, <1>8
<1>12. QueueComplete'
  <2> SUFFICES ASSUME NEW t \in Turns, stage'[t] = "queued"
               PROVE  \E i \in 1 .. Len(queue'[home[t]]) : queue'[home[t]][i] = t
    BY DEF QueueComplete
  <2>1. t # a /\ t # n /\ stage[t] = "queued"
    BY <1>1, <1>2, <1>5, TurnKinds DEF InFlight, Turns
  <2>2. PICK k \in 1 .. Len(queue[home[t]]) : queue[home[t]][k] = t
    BY <2>1 DEF Placement, QueueComplete
  <2>3. home[t] \in Sessions
    BY <2>1 DEF TypeOK, Placement, Homes, HomeFits, InFlight
  <2>4. CASE home[t] # s
    BY <2>2, <2>3, <2>4, <1>3
  <2>5. CASE home[t] = s
    <3>1. q # <<>> /\ k # 1
      BY <2>1, <2>2, <2>5, <1>1, <1>2, <1>6 DEF q
    <3>2. k - 1 \in 1 .. Len(queue'[s]) /\ queue'[s][k - 1] = t
      BY <3>1, <2>2, <2>5, <1>1, <1>3 DEF q
    <3> QED
      BY <3>2, <2>5
  <2> QED
    BY <2>4, <2>5
<1>13. QueueDistinct'
  <2> SUFFICES ASSUME NEW r \in Sessions,
                      NEW i \in 1 .. Len(queue'[r]), NEW j \in 1 .. Len(queue'[r]), i # j
               PROVE  /\ queue'[r][i] # queue'[r][j]
                      /\ ~ (queue'[r][i] \in BatchTurns /\ queue'[r][j] \in BatchTurns)
    BY DEF QueueDistinct
  <2>1. PICK k \in 1 .. Len(queue[r]) : /\ queue'[r][i] = queue[r][k]
                                        /\ r = s => k = i + 1
                                        /\ r # s => k = i
    BY <1>7
  <2>2. PICK l \in 1 .. Len(queue[r]) : /\ queue'[r][j] = queue[r][l]
                                        /\ r = s => l = j + 1
                                        /\ r # s => l = j
    BY <1>7
  <2>3. k # l
    <3>1. Len(queue'[r]) \in Nat
      BY LenProperties DEF TypeOK
    <3> QED
      BY <2>1, <2>2, <3>1
  <2> QED
    BY <2>1, <2>2, <2>3 DEF Placement, QueueDistinct
<1>14. BusyWhileQueued'
  BY <1>2, <1>3, <1>4 DEF Placement, BusyWhileQueued
<1>15. LiveMeansActive'
  <2> SUFFICES ASSUME NEW r \in Sessions, NEW t \in Turns
               PROVE  active'[r] = t <=>
                        home[t] = r /\ stage'[t] \in InFlight /\ t \notin cancelled'
    BY DEF LiveMeansActive
  <2>1. active[r] = t <=> home[t] = r /\ stage[t] \in InFlight /\ t \notin cancelled
    BY DEF Placement, LiveMeansActive
  <2>2. CASE t = a
    BY <2>1, <2>2, <1>1, <1>2, <1>4, <1>5, TurnKinds DEF a, InFlight, Turns
  <2>3. CASE t = n
    BY <2>1, <2>3, <1>1, <1>2, <1>4, <1>5, TurnKinds DEF a, InFlight, Turns
  <2>4. CASE t # a /\ t # n
    BY <2>1, <2>4, <1>4, <1>5 DEF a
  <2> QED
    BY <2>2, <2>3, <2>4
<1>16. CancelledHaveRun'
  <2> SUFFICES ASSUME NEW t \in cancelled'
               PROVE  stage'[t] \in InFlight \cup {"done"}
    BY DEF CancelledHaveRun
  <2>1. t \in Turns
    BY DEF TypeOK
  <2>2. CASE t = a
    BY <2>2, <1>1, <1>5
  <2>3. CASE t # a
    <3>1. t \in cancelled /\ t # n
      BY <2>1, <2>3, <1>2, <1>5, TurnKinds DEF Turns
    <3> QED
      BY <2>1, <2>3, <3>1, <1>5 DEF Placement, CancelledHaveRun
  <2> QED
    BY <2>2, <2>3
<1> QED
  BY <1>9, <1>10, <1>11, <1>12, <1>13, <1>14, <1>15, <1>16 DEF Placement

\* A submitted turn that takes the session, idle or from a batch whose context
\* is cancelled, becomes its live turn; the queue stands as it was.
LEMMA ActivateKeeps ==
  ASSUME TypeOK, TypeOK', Placement, NEW s \in Sessions, NEW t \in Turns,
         stage[t] = "new", home' = [home EXCEPT ![t] = s], ActivateNew(s, t),
         cancelled' = cancelled \cup ({active[s]} \ {NoTurn})
  PROVE  Placement'
<1>1. /\ home[t] = NoSession /\ home'[t] = s /\ s # NoSession
      /\ \A u \in Turns : u # t => home'[u] = home[u]
  BY TurnKinds DEF TypeOK, Placement, Homes, HomeFits, InFlight
<1>2. /\ stage'[t] = "spawning"
      /\ \A u \in Turns : u # t => stage'[u] = stage[u]
  BY DEF ActivateNew, TypeOK
<1>3. /\ active'[s] = t /\ cancel'[s] = t /\ queue' = queue
      /\ \A r \in Sessions : r # s => active'[r] = active[r] /\ cancel'[r] = cancel[r]
  BY DEF ActivateNew, TypeOK
<1>4. /\ t \notin cancelled /\ t # active[s] /\ t # NoTurn
      /\ active[s] # NoTurn =>
           /\ active[s] \in Turns /\ home[active[s]] = s /\ stage[active[s]] \in InFlight
  <2>1. t \notin cancelled
    BY DEF Placement, CancelledHaveRun, InFlight
  <2>2. t # active[s]
    BY <1>1 DEF Placement, LiveMeansActive
  <2>3. active[s] # NoTurn => active[s] \in Turns
    BY DEF TypeOK
  <2> QED
    BY <2>1, <2>2, <2>3, TurnKinds DEF Placement, LiveMeansActive, Turns
<1>5. \A r \in Sessions : \A i \in 1 .. Len(queue[r]) :
        /\ queue[r][i] \in Turns /\ home[queue[r][i]] = r
        /\ stage[queue[r][i]] = "queued" /\ queue[r][i] # t
  BY QueuedAre
<1>6. Homes'
  <2> SUFFICES ASSUME NEW u \in Turns
               PROVE  HomeFits(home'[u], stage'[u])
    BY DEF Homes
  <2> QED
    BY <1>1, <1>2 DEF Placement, Homes, HomeFits, InFlight
<1>7. CancelIsActive'
  BY <1>3 DEF Placement, CancelIsActive
<1>8. QueueContent'
  BY <1>1, <1>2, <1>3, <1>5 DEF QueueContent
<1>9. QueueComplete'
  BY <1>1, <1>2, <1>3 DEF Placement, QueueComplete
<1>10. QueueDistinct'
  BY <1>3 DEF Placement, QueueDistinct
<1>11. BusyWhileQueued'
  BY <1>3, <1>4 DEF Placement, BusyWhileQueued
<1>12. LiveMeansActive'
  <2> SUFFICES ASSUME NEW r \in Sessions, NEW u \in Turns
               PROVE  active'[r] = u <=>
                        home'[u] = r /\ stage'[u] \in InFlight /\ u \notin cancelled'
    BY DEF LiveMeansActive
  <2>1. active[r] = u <=> home[u] = r /\ stage[u] \in InFlight /\ u \notin cancelled
    BY DEF Placement, LiveMeansActive
  <2>2. u # NoTurn
    BY TurnKinds DEF Turns
  <2>3. CASE u = t
    <3>1. u \notin cancelled' /\ stage'[u] \in InFlight /\ home'[u] = s
      BY <2>3, <1>1, <1>2, <1>4 DEF InFlight
    <3>2. r # s => active[r] # u
      BY <2>3, <2>1, <1>1, TurnKinds
    <3> QED
      BY <2>3, <3>1, <3>2, <1>3
  <2>4. CASE u # t
    <3>1. home'[u] = home[u] /\ stage'[u] = stage[u]
      BY <2>4, <1>1, <1>2
    <3>2. CASE r = s
      BY <2>1, <2>2, <2>4, <3>1, <3>2, <1>3
    <3>3. CASE r # s
      <4>1. home[u] = r => (u \in cancelled' <=> u \in cancelled)
        BY <3>3, <1>4
      <4> QED
        BY <2>1, <3>1, <3>3, <4>1, <1>3
    <3> QED
      BY <3>2, <3>3
  <2> QED
    BY <2>3, <2>4
<1>13. CancelledHaveRun'
  <2> SUFFICES ASSUME NEW u \in cancelled'
               PROVE  stage'[u] \in InFlight \cup {"done"}
    BY DEF CancelledHaveRun
  <2>1. u \in Turns /\ u # t
    BY <1>4 DEF TypeOK
  <2>2. u \in cancelled \/ (u = active[s] /\ u # NoTurn)
    OBVIOUS
  <2> QED
    BY <2>1, <2>2, <1>2, <1>4 DEF Placement, CancelledHaveRun
<1> QED
  BY <1>6, <1>7, <1>8, <1>9, <1>10, <1>11, <1>12, <1>13 DEF Placement

\* A submitted turn that finds the session busy is last in the queue, or merged.
LEMMA EnqueueKeeps ==
  ASSUME TypeOK, TypeOK', Placement, NEW s \in Sessions, NEW t \in Turns,
         stage[t] = "new", home' = [home EXCEPT ![t] = s], Enqueue(s, t)
  PROVE  Placement'
<1>1. /\ home[t] = NoSession /\ home'[t] = s /\ s # NoSession
      /\ \A u \in Turns : u # t => home'[u] = home[u]
  BY TurnKinds DEF TypeOK, Placement, Homes, HomeFits, InFlight
<1>2. /\ active' = active /\ cancel' = cancel /\ cancelled' = cancelled
      /\ active[s] # NoTurn /\ t \notin cancelled /\ \A r \in Sessions : active[r] # t
  <2>1. t \notin cancelled
    BY DEF Placement, CancelledHaveRun, InFlight
  <2>2. \A r \in Sessions : active[r] # t
    BY DEF Placement, LiveMeansActive, InFlight
  <2> QED
    BY <2>1, <2>2 DEF Enqueue
<1>3. \A r \in Sessions : \A i \in 1 .. Len(queue[r]) :
        /\ queue[r][i] \in Turns /\ home[queue[r][i]] = r
        /\ stage[queue[r][i]] = "queued" /\ queue[r][i] # t
  BY QueuedAre
<1>4. /\ stage'[t] \in {"queued", "merged"}
      /\ \A u \in Turns : u # t => stage'[u] = stage[u]
  BY DEF Enqueue, TypeOK
<1>5. \/ queue' = queue /\ stage'[t] = "merged"
      \/ /\ stage'[t] = "queued" /\ ~ (t \in BatchTurns /\ BatchQueued(s))
         /\ Len(queue[s]) \in Nat /\ Len(queue'[s]) = Len(queue[s]) + 1
         /\ \A i \in 1 .. Len(queue[s]) : queue'[s][i] = queue[s][i]
         /\ queue'[s][Len(queue[s]) + 1] = t
         /\ \A r \in Sessions : r # s => queue'[r] = queue[r]
  <2>1. CASE t \in BatchTurns /\ BatchQueued(s)
    BY <2>1 DEF Enqueue, TypeOK
  <2>2. CASE ~ (t \in BatchTurns /\ BatchQueued(s))
    <3>1. /\ queue'[s] = Append(queue[s], t) /\ stage'[t] = "queued"
          /\ \A r \in Sessions : r # s => queue'[r] = queue[r]
      BY <2>2 DEF Enqueue, TypeOK
    <3>2. queue[s] \in Seq(Turns)
      BY DEF TypeOK
    <3> QED
      BY <2>2, <3>1, <3>2, AppendProperties, LenProperties
  <2> QED
    BY <2>1, <2>2
<1>6. \A r \in Sessions : \A i \in 1 .. Len(queue'[r]) :
        \/ i \in 1 .. Len(queue[r]) /\ queue'[r][i] = queue[r][i]
        \/ /\ r = s /\ i = Len(queue[s]) + 1 /\ queue'[r][i] = t
           /\ stage'[t] = "queued" /\ ~ (t \in BatchTurns /\ BatchQueued(s))
  BY <1>5
<1>7. \A r \in Sessions : \A i \in 1 .. Len(queue[r]) :
        i \in 1 .. Len(queue'[r]) /\ queue'[r][i] = queue[r][i]
  <2>1. CASE queue' = queue
    BY <2>1
  <2>2. CASE queue' # queue
    <3> SUFFICES ASSUME NEW r \in Sessions, NEW i \in 1 .. Len(queue[r])
                 PROVE  i \in 1 .. Len(queue'[r]) /\ queue'[r][i] = queue[r][i]
      OBVIOUS
    <3> QED
      BY <2>2, <1>5
  <2> QED
    BY <2>1, <2>2
<1>8. Homes'
  <2> SUFFICES ASSUME NEW u \in Turns
               PROVE  HomeFits(home'[u], stage'[u])
    BY DEF Homes
  <2> QED
    BY <1>1, <1>4 DEF Placement, Homes, HomeFits, InFlight
<1>9. CancelIsActive'
  BY <1>2 DEF Placement, CancelIsActive
<1>10. QueueContent'
  <2> SUFFICES ASSUME NEW r \in Sessions, NEW i \in 1 .. Len(queue'[r])
               PROVE  home'[queue'[r][i]] = r /\ stage'[queue'[r][i]] = "queued"
    BY DEF QueueContent
  <2> QED
    BY <1>1, <1>3, <1>4, <1>6
<1>11. QueueComplete'
  <2> SUFFICES ASSUME NEW u \in Turns, stage'[u] = "queued"
               PROVE  \E i \in 1 .. Len(queue'[home'[u]]) : queue'[home'[u]][i] = u
    BY DEF QueueComplete
  <2>1. CASE u = t
    <3>1. Len(queue[s]) + 1 \in 1 .. Len(queue'[s]) /\ queue'[s][Len(queue[s]) + 1] = t
      BY <2>1, <1>5
    <3> QED
      BY <2>1, <3>1, <1>1
  <2>2. CASE u # t
    <3>1. stage[u] = "queued" /\ home[u] \in Sessions /\ home'[u] = home[u]
      BY <2>2, <1>1, <1>4 DEF TypeOK, Placement, Homes, HomeFits, InFlight
    <3>2. PICK i \in 1 .. Len(queue[home[u]]) : queue[home[u]][i] = u
      BY <3>1 DEF Placement, QueueComplete
    <3> QED
      BY <3>1, <3>2, <1>7
  <2> QED
    BY <2>1, <2>2
<1>12. QueueDistinct'
  <2> SUFFICES ASSUME NEW r \in Sessions,
                      NEW i \in 1 .. Len(queue'[r]), NEW j \in 1 .. Len(queue'[r]), i # j
               PROVE  /\ queue'[r][i] # queue'[r][j]
                      /\ ~ (queue'[r][i] \in BatchTurns /\ queue'[r][j] \in BatchTurns)
    BY DEF QueueDistinct
  <2> DEFINE Old(k) == k \in 1 .. Len(queue[r]) /\ queue'[r][k] = queue[r][k]
             New(k) == /\ r = s /\ k = Len(queue[s]) + 1 /\ queue'[r][k] = t
                       /\ ~ (t \in BatchTurns /\ BatchQueued(s))
  <2>1. (Old(i) \/ New(i)) /\ (Old(j) \/ New(j))
    BY <1>6
  <2>2. CASE Old(i) /\ Old(j)
    BY <2>2 DEF Placement, QueueDistinct
  <2>3. CASE Old(i) /\ New(j)
    BY <2>3, <1>3 DEF BatchQueued
  <2>4. CASE New(i) /\ Old(j)
    BY <2>4, <1>3 DEF BatchQueued
  <2>5. CASE New(i) /\ New(j)
    BY <2>5
  <2> QED
    BY <2>1, <2>2, <2>3, <2>4, <2>5
<1>13. BusyWhileQueued'
  BY <1>2, <1>5 DEF Placement, BusyWhileQueued
<1>14. LiveMeansActive'
  <2> SUFFICES ASSUME NEW r \in Sessions, NEW u \in Turns
               PROVE  active'[r] = u <=>
                        home'[u] = r /\ stage'[u] \in InFlight /\ u \notin cancelled'
    BY DEF LiveMeansActive
  <2>1. active[r] = u <=> home[u] = r /\ stage[u] \in InFlight /\ u \notin cancelled
    BY DEF Placement, LiveMeansActive
  <2> QED
    BY <2>1, <1>1, <1>2, <1>4 DEF InFlight
<1>15. CancelledHaveRun'
  <2> SUFFICES ASSUME NEW u \in cancelled
               PROVE  stage'[u] \in InFlight \cup {"done"}
    BY <1>2 DEF CancelledHaveRun
  <2> QED
    BY <1>2, <1>4 DEF Placement, CancelledHaveRun, TypeOK
<1> QED
  BY <1>8, <1>9, <1>10, <1>11, <1>12, <1>13, <1>14, <1>15 DEF Placement

\* Withdrawing a queued turn leaves the others in their places.
LEMMA CancelQueuedKeeps ==
  ASSUME TypeOK, TypeOK', Placement, NEW s \in Sessions,
         NEW i \in 1 .. Len(queue[s]), CancelQueued(s, i)
  PROVE  Placement'
<1> DEFINE w == queue[s][i]
<1>1. /\ w \in Turns /\ home[w] = s /\ stage[w] = "queued" /\ w \notin cancelled
      /\ Len(queue[s]) \in Nat /\ queue[s] \in Seq(Turns)
  <2>1. w \in Turns /\ queue[s] \in Seq(Turns)
    BY ElementOfSeq DEF TypeOK
  <2>2. home[w] = s /\ stage[w] = "queued"
    BY DEF Placement, QueueContent
  <2> QED
    BY <2>1, <2>2, LenProperties DEF Placement, CancelledHaveRun, InFlight
<1>2. /\ active' = active /\ cancel' = cancel /\ home' = home /\ cancelled' = cancelled
      /\ \A r \in Sessions : r # s => queue'[r] = queue[r]
      /\ queue'[s] = RemoveAt(queue[s], i)
  BY DEF CancelQueued, TypeOK
<1>3. /\ stage'[w] = "withdrawn"
      /\ \A u \in Turns : u # w => stage'[u] = stage[u]
  BY <1>1 DEF CancelQueued, TypeOK
<1>4. /\ Len(queue'[s]) = Len(queue[s]) - 1
      /\ \A j \in 1 .. Len(queue'[s]) :
           queue'[s][j] = queue[s][IF j < i THEN j ELSE j + 1]
  <2>1. /\ Len(RemoveAt(queue[s], i)) = Len(queue[s]) - 1
        /\ \A j \in 1 .. Len(queue[s]) - 1 :
             RemoveAt(queue[s], i)[j] = queue[s][IF j < i THEN j ELSE j + 1]
    BY <1>1, RemoveAtProperties
  <2> QED
    BY <2>1, <1>2
<1> HIDE DEF w
<1>5. \A r \in Sessions : \A j \in 1 .. Len(queue'[r]) :
        \E k \in 1 .. Len(queue[r]) :
          /\ queue'[r][j] = queue[r][k]
          /\ r # s => k = j
          /\ r = s => k = IF j < i THEN j ELSE j + 1
  <2> SUFFICES ASSUME NEW r \in Sessions, NEW j \in 1 .. Len(queue'[r])
               PROVE  \E k \in 1 .. Len(queue[r]) :
                        /\ queue'[r][j] = queue[r][k]
                        /\ r # s => k = j
                        /\ r = s => k = IF j < i THEN j ELSE j + 1
    OBVIOUS
  <2>1. CASE r # s
    BY <2>1, <1>2
  <2>2. CASE r = s
    <3>1. (IF j < i THEN j ELSE j + 1) \in 1 .. Len(queue[s])
      BY <2>2, <1>1, <1>4
    <3> QED
      BY <2>2, <3>1, <1>4
  <2> QED
    BY <2>1, <2>2
<1>6. \A r \in Sessions : \A k \in 1 .. Len(queue[r]) :
        /\ queue[r][k] \in Turns /\ home[queue[r][k]] = r /\ stage[queue[r][k]] = "queued"
        /\ r # s \/ k # i => queue[r][k] # w
  <2> SUFFICES ASSUME NEW r \in Sessions, NEW k \in 1 .. Len(queue[r])
               PROVE  /\ queue[r][k] \in Turns /\ home[queue[r][k]] = r
                      /\ stage[queue[r][k]] = "queued"
                      /\ r # s \/ k # i => queue[r][k] # w
    OBVIOUS
  <2>1. /\ queue[r][k] \in Turns /\ home[queue[r][k]] = r
        /\ stage[queue[r][k]] = "queued"
    BY QueuedAre
  <2>2. r = s /\ k # i => queue[r][k] # w
    BY DEF Placement, QueueDistinct, w
  <2> QED
    BY <2>1, <2>2, <1>1
<1>7. Homes'
  <2> SUFFICES ASSUME NEW u \in Turns
               PROVE  HomeFits(home'[u], stage'[u])
    BY DEF Homes
  <2> QED
    BY <1>1, <1>2, <1>3 DEF Placement, Homes, HomeFits, InFlight
<1>8. CancelIsActive'
  BY <1>2 DEF Placement, CancelIsActive
<1>9. QueueContent'
  <2> SUFFICES ASSUME NEW r \in Sessions, NEW j \in 1 .. Len(queue'[r])
               PROVE  home'[queue'[r][j]] = r /\ stage'[queue'[r][j]] = "queued"
    BY DEF QueueContent
  <2>1. PICK k \in 1 .. Len(queue[r]) :
          /\ queue'[r][j] = queue[r][k]
          /\ r = s => k = IF j < i THEN j ELSE j + 1
    BY <1>5
  <2>2. r # s \/ k # i
    <3>1. Len(queue'[r]) \in Nat
      BY LenProperties DEF TypeOK
    <3> QED
      BY <2>1, <3>1, <1>1
  <2> QED
    BY <2>1, <2>2, <1>2, <1>3, <1>6
<1>10. QueueComplete'
  <2> SUFFICES ASSUME NEW u \in Turns, stage'[u] = "queued"
               PROVE  \E j \in 1 .. Len(queue'[home'[u]]) : queue'[home'[u]][j] = u
    BY DEF QueueComplete
  <2>1. u # w /\ stage[u] = "queued"
    BY <1>1, <1>3
  <2>2. home[u] \in Sessions /\ home'[u] = home[u]
    BY <2>1, <1>2 DEF TypeOK, Placement, Homes, HomeFits, InFlight
  <2>3. PICK k \in 1 .. Len(queue[home[u]]) : queue[home[u]][k] = u
    BY <2>1 DEF Placement, QueueComplete
  <2>4. CASE home[u] # s
    BY <2>2, <2>3, <2>4, <1>2
  <2>5. CASE home[u] = s
    <3>1. k # i
      BY <2>1, <2>3, <2>5 DEF w
    <3>2. CASE k < i
      <4>1. k \in 1 .. Len(queue'[s]) /\ queue'[s][k] = u
        BY <2>3, <2>5, <3>2, <1>1, <1>4
      <4> QED
        BY <4>1, <2>2, <2>5
    <3>3. CASE ~ (k < i)
      <4>1. k - 1 \in 1 .. Len(queue'[s]) /\ queue'[s][k - 1] = u
        BY <2>3, <2>5, <3>1, <3>3, <1>1, <1>4
      <4> QED
        BY <4>1, <2>2, <2>5
    <3> QED
      BY <3>2, <3>3
  <2> QED
    BY <2>4, <2>5
<1>11. QueueDistinct'
  <2> SUFFICES ASSUME NEW r \in Sessions,
                      NEW j \in 1 .. Len(queue'[r]), NEW k \in 1 .. Len(queue'[r]), j # k
               PROVE  /\ queue'[r][j] # queue'[r][k]
                      /\ ~ (queue'[r][j] \in BatchTurns /\ queue'[r][k] \in BatchTurns)
    BY DEF QueueDistinct
  <2>1. PICK jj \in 1 .. Len(queue[r]) :
          /\ queue'[r][j] = queue[r][jj]
          /\ r # s => jj = j
          /\ r = s => jj = IF j < i THEN j ELSE j + 1
    BY <1>5
  <2>2. PICK kk \in 1 .. Len(queue[r]) :
          /\ queue'[r][k] = queue[r][kk]
          /\ r # s => kk = k
          /\ r = s => kk = IF k < i THEN k ELSE k + 1
    BY <1>5
  <2>3. jj # kk
    <3>1. Len(queue'[r]) \in Nat
      BY LenProperties DEF TypeOK
    <3> QED
      BY <2>1, <2>2, <3>1, <1>1
  <2> QED
    BY <2>1, <2>2, <2>3 DEF Placement, QueueDistinct
<1>12. BusyWhileQueued'
  <2>1. queue[s] # <<>>
    BY <1>1
  <2> QED
    BY <2>1, <1>2 DEF Placement, BusyWhileQueued
<1>13. LiveMeansActive'
  <2> SUFFICES ASSUME NEW r \in Sessions, NEW u \in Turns
               PROVE  active'[r] = u <=>
                        home'[u] = r /\ stage'[u] \in InFlight /\ u \notin cancelled'
    BY DEF LiveMeansActive
  <2>1. active[r] = u <=> home[u] = r /\ stage[u] \in InFlight /\ u \notin cancelled
    BY DEF Placement, LiveMeansActive
  <2> QED
    BY <2>1, <1>1, <1>2, <1>3 DEF InFlight
<1>14. CancelledHaveRun'
  <2> SUFFICES ASSUME NEW u \in cancelled
               PROVE  stage'[u] \in InFlight \cup {"done"}
    BY <1>2 DEF CancelledHaveRun
  <2> QED
    BY <1>1, <1>3 DEF Placement, CancelledHaveRun, TypeOK
<1> QED
  BY <1>7, <1>8, <1>9, <1>10, <1>11, <1>12, <1>13, <1>14 DEF Placement

\* A goroutine that only moves on, or that ends after it has lost its session,
\* changes nobody's place.
LEMMA GoroutineKeeps ==
  ASSUME TypeOK, TypeOK', Placement, NEW t \in Turns,
         Spawn(t) \/ AgentReturns(t) \/ FinishStale(t)
  PROVE  Placement'
<1>1. /\ active' = active /\ cancel' = cancel /\ queue' = queue
      /\ home' = home /\ cancelled' = cancelled
  BY DEF Spawn, AgentReturns, FinishStale
<1>2. /\ stage[t] \in InFlight
      /\ \A u \in Turns : u # t => stage'[u] = stage[u]
      /\ \/ stage'[t] \in InFlight
         \/ stage'[t] = "done" /\ active[home[t]] # t
  BY DEF Spawn, AgentReturns, FinishStale, InFlight, TypeOK
<1>3. home[t] \in Sessions
  BY <1>2 DEF TypeOK, Placement, Homes, HomeFits, InFlight
<1>4. Homes'
  <2> SUFFICES ASSUME NEW u \in Turns
               PROVE  HomeFits(home'[u], stage'[u])
    BY DEF Homes
  <2> QED
    BY <1>1, <1>2 DEF Placement, Homes, HomeFits, InFlight
<1>5. QueueContent'
  <2> SUFFICES ASSUME NEW r \in Sessions, NEW i \in 1 .. Len(queue[r])
               PROVE  home[queue[r][i]] = r /\ stage'[queue[r][i]] = "queued"
    BY <1>1 DEF QueueContent
  <2>1. queue[r][i] \in Turns
    BY ElementOfSeq DEF TypeOK
  <2>2. home[queue[r][i]] = r /\ stage[queue[r][i]] = "queued"
    BY DEF Placement, QueueContent
  <2> QED
    BY <2>1, <2>2, <1>2 DEF InFlight
<1>6. QueueComplete'
  BY <1>1, <1>2 DEF Placement, QueueComplete, InFlight
<1>7. CancelIsActive' /\ QueueDistinct' /\ BusyWhileQueued'
  BY <1>1 DEF Placement, CancelIsActive, QueueDistinct, BusyWhileQueued
<1>8. LiveMeansActive'
  <2> SUFFICES ASSUME NEW r \in Sessions, NEW u \in Turns
               PROVE  active[r] = u <=>
                        home[u] = r /\ stage'[u] \in InFlight /\ u \notin cancelled
    BY <1>1 DEF LiveMeansActive
  <2>1. active[r] = u <=> home[u] = r /\ stage[u] \in InFlight /\ u \notin cancelled
    BY DEF Placement, LiveMeansActive
  <2>2. CASE u # t
    BY <2>1, <2>2, <1>2
  <2>3. CASE u = t /\ stage'[t] \in InFlight
    BY <2>1, <2>3, <1>2
  <2>4. CASE u = t /\ stage'[t] = "done" /\ active[home[t]] # t
    BY <2>1, <2>4, <1>2 DEF InFlight
  <2> QED
    BY <2>2, <2>3, <2>4, <1>2
<1>9. CancelledHaveRun'
  <2> SUFFICES ASSUME NEW u \in cancelled
               PROVE  stage'[u] \in InFlight \cup {"done"}
    BY <1>1 DEF CancelledHaveRun
  <2> QED
    BY <1>2 DEF Placement, CancelledHaveRun, TypeOK
<1> QED
  BY <1>4, <1>5, <1>6, <1>7, <1>8, <1>9 DEF Placement

\* Every step keeps every turn in its place.
LEMMA PlacementStep == TypeOK /\ TypeOK' /\ Placement /\ [Next]_vars => Placement'
<1> SUFFICES ASSUME TypeOK, TypeOK', Placement, [Next]_vars
             PROVE  Placement'
  OBVIOUS
<1>1. ASSUME NEW s \in Sessions, Register(s)
      PROVE  Placement'
  BY <1>1 DEF Register, Placement, Homes, HomeFits, InFlight, CancelIsActive, QueueContent, QueueComplete,
              QueueDistinct, BusyWhileQueued, LiveMeansActive, CancelledHaveRun
<1>2. ASSUME NEW s \in Sessions, NEW t \in Turns, SubmitTurn(s, t)
      PROVE  Placement'
  <2>1. stage[t] = "new" /\ home' = [home EXCEPT ![t] = s]
    BY <1>2 DEF SubmitTurn
  <2>2. CASE StartIdle(s, t)
    BY <2>1, <2>2, ActivateKeeps DEF StartIdle
  <2>3. CASE Preempt(s, t)
    BY <2>1, <2>3, ActivateKeeps DEF Preempt, Placement, CancelIsActive
  <2>4. CASE Enqueue(s, t)
    BY <2>1, <2>4, EnqueueKeeps
  <2> QED
    BY <1>2, <2>2, <2>3, <2>4 DEF SubmitTurn
<1>3. ASSUME NEW s \in Sessions, CancelActive(s)
      PROVE  Placement'
  <2>1. active[s] # NoTurn /\ HandOver(s) /\ UNCHANGED home
    BY <1>3 DEF CancelActive
  <2>2. /\ active[s] \in Turns /\ stage[active[s]] \in InFlight
        /\ cancelled' = cancelled \cup {active[s]}
    BY <1>3, <2>1 DEF CancelActive, TypeOK, Placement, CancelIsActive, LiveMeansActive
  <2>3. NextTurn(s) # NoTurn => /\ NextTurn(s) \in Turns
                                /\ stage[NextTurn(s)] = "queued"
    <3>1. queue[s] \in Seq(Turns)
      BY DEF TypeOK
    <3>2. queue[s] # <<>> => 1 \in 1 .. Len(queue[s]) /\ Head(queue[s]) = queue[s][1]
      BY <3>1, HeadTailProperties, EmptySeq, LenProperties
    <3> QED
      BY <3>1, <3>2, ElementOfSeq DEF NextTurn, Placement, QueueContent
  <2>4. /\ \A u \in Turns : u # NextTurn(s) => stage'[u] = stage[u]
        /\ NextTurn(s) # NoTurn => stage'[NextTurn(s)] = "spawning"
    BY <1>3, <2>3 DEF CancelActive
  <2>5. active[s] # NextTurn(s)
    BY <2>1, <2>2, <2>3 DEF InFlight
  <2> QED
    BY <2>1, <2>2, <2>4, <2>5, HandOverKeeps
<1>4. ASSUME NEW s \in Sessions, NEW i \in 1 .. Len(queue[s]), CancelQueued(s, i)
      PROVE  Placement'
  BY <1>4, CancelQueuedKeeps
<1>5. ASSUME NEW t \in Turns, Spawn(t) \/ AgentReturns(t) \/ FinishStale(t)
      PROVE  Placement'
  BY <1>5, GoroutineKeeps
<1>6. ASSUME NEW t \in Turns, FinishActive(t)
      PROVE  Placement'
  <2> DEFINE s == home[t]
  <2>1. /\ s \in Sessions /\ active[s] = t /\ t # NoTurn /\ HandOver(s)
        /\ UNCHANGED <<home, cancelled>>
    BY <1>6, TurnKinds DEF FinishActive, TypeOK, Placement, Homes, HomeFits, InFlight, Turns
  <2>2. NextTurn(s) # NoTurn => NextTurn(s) \in Turns /\ NextTurn(s) # t
    <3>1. queue[s] \in Seq(Turns)
      BY <2>1 DEF TypeOK
    <3>2. queue[s] # <<>> => 1 \in 1 .. Len(queue[s]) /\ Head(queue[s]) = queue[s][1]
      BY <3>1, HeadTailProperties, EmptySeq, LenProperties
    <3>3. stage[t] = "returned"
      BY <1>6 DEF FinishActive
    <3> QED
      BY <2>1, <3>1, <3>2, <3>3, ElementOfSeq DEF NextTurn, Placement, QueueContent
  <2>3. /\ stage'[t] = "done"
        /\ \A u \in Turns : u # t /\ u # NextTurn(s) => stage'[u] = stage[u]
        /\ NextTurn(s) # NoTurn => stage'[NextTurn(s)] = "spawning"
    BY <1>6, <2>2 DEF FinishActive
  <2> HIDE DEF s
  <2> QED
    BY <2>1, <2>3, HandOverKeeps
<1>7. CASE UNCHANGED vars
  BY <1>7 DEF vars, Placement, Homes, HomeFits, InFlight, CancelIsActive, QueueContent, QueueComplete,
              QueueDistinct, BusyWhileQueued, LiveMeansActive, CancelledHaveRun
<1> QED
  BY <1>1, <1>2, <1>3, <1>4, <1>5, <1>6, <1>7 DEF Next, FinishTurn

-----------------------------------------------------------------------------
(* The theorems *)

\* A step that changes a queue refreshes the cached counters of that queue.
LEMMA CountersStep == TypeOK /\ Homes /\ CountersCurrent /\ [Next]_vars => CountersCurrent'
<1> SUFFICES ASSUME TypeOK, Homes, CountersCurrent, [Next]_vars
             PROVE  CountersCurrent'
  OBVIOUS
<1>1. ASSUME NEW s \in Sessions, RefreshQueueCounters(s),
             \A r \in Sessions : r # s => queue'[r] = queue[r]
      PROVE  CountersCurrent'
  BY <1>1 DEF RefreshQueueCounters, CountersCurrent, TypeOK
<1>2. ASSUME UNCHANGED <<queue, counters>>
      PROVE  CountersCurrent'
  BY <1>2 DEF CountersCurrent
<1>3. ASSUME NEW s \in Sessions, NEW t \in Turns, SubmitTurn(s, t)
      PROVE  CountersCurrent'
  <2>1. RefreshQueueCounters(s)
    BY <1>3 DEF SubmitTurn, StartIdle, Preempt, ActivateNew, Enqueue
  <2>2. \A r \in Sessions : r # s => queue'[r] = queue[r]
    BY <1>3 DEF SubmitTurn, StartIdle, Preempt, ActivateNew, Enqueue, TypeOK
  <2> QED
    BY <2>1, <2>2, <1>1
<1>4. ASSUME NEW s \in Sessions, HandOver(s)
      PROVE  CountersCurrent'
  BY <1>1, <1>4 DEF HandOver, TypeOK
<1>5. ASSUME NEW s \in Sessions, CancelActive(s)
      PROVE  CountersCurrent'
  BY <1>4, <1>5 DEF CancelActive
<1>6. ASSUME NEW s \in Sessions, NEW i \in 1 .. Len(queue[s]), CancelQueued(s, i)
      PROVE  CountersCurrent'
  BY <1>1, <1>6 DEF CancelQueued, TypeOK
<1>7. ASSUME NEW t \in Turns, FinishActive(t)
      PROVE  CountersCurrent'
  <2>1. home[t] \in Sessions
    BY <1>7 DEF FinishActive, TypeOK, Homes, HomeFits, InFlight
  <2> QED
    BY <2>1, <1>4, <1>7 DEF FinishActive
<1>8. CASE UNCHANGED vars
  BY <1>2, <1>8 DEF vars
<1> QED
  BY <1>2, <1>3, <1>5, <1>6, <1>7, <1>8
     DEF Next, Register, Spawn, AgentReturns, FinishTurn, FinishStale

\* The inductive invariant holds in the initial state: no session is known and
\* no turn has been submitted.
LEMMA InitIInv == Init => IInv
<1> SUFFICES ASSUME Init
             PROVE  IInv
  OBVIOUS
<1>1. TypeOK
  BY DEF Init, TypeOK, Stage
<1>2. \A s \in Sessions : queue[s] = <<>> /\ Len(queue[s]) = 0 /\ 1 .. Len(queue[s]) = {}
  BY DEF Init
<1>3. Placement
  <2>1. Homes /\ CancelIsActive /\ CancelledHaveRun /\ BusyWhileQueued
    BY <1>2 DEF Init, Homes, HomeFits, InFlight, CancelIsActive, CancelledHaveRun, BusyWhileQueued
  <2>2. QueueContent /\ QueueDistinct
    BY <1>2 DEF QueueContent, QueueDistinct
  <2>3. QueueComplete
    BY DEF Init, QueueComplete
  <2>4. LiveMeansActive
    BY TurnKinds DEF Init, LiveMeansActive, InFlight, Turns
  <2> QED
    BY <2>1, <2>2, <2>3, <2>4 DEF Placement
<1>4. CountersCurrent
  <2>1. Cardinality({}) = 0
    BY FS_EmptySet
  <2> SUFFICES ASSUME NEW s \in Sessions
               PROVE  counters[s] = QueueCounters(queue[s])
    BY DEF CountersCurrent
  <2>2. QueueCounters(queue[s]) = [depth |-> 0, users |-> 0, batches |-> 0]
    <3>1. /\ {i \in 1 .. Len(queue[s]) : queue[s][i] \notin BatchTurns} = {}
          /\ {i \in 1 .. Len(queue[s]) : queue[s][i] \in BatchTurns} = {}
      BY <1>2
    <3> QED
      BY <1>2, <2>1, <3>1 DEF QueueCounters
  <2> QED
    BY <2>2 DEF Init
<1> QED
  BY <1>1, <1>3, <1>4 DEF IInv

\* The turn that a session is handed over to was queued.
LEMMA NextIsQueued ==
  ASSUME IInv, NEW s \in Sessions, NEW b \in Turns, NextTurn(s) = b
  PROVE  stage[b] = "queued"
<1>1. queue[s] # <<>> /\ b = Head(queue[s]) /\ queue[s] \in Seq(Turns)
  BY TurnKinds DEF NextTurn, IInv, TypeOK, Turns
<1>2. 1 \in 1 .. Len(queue[s]) /\ b = queue[s][1]
  BY <1>1, HeadTailProperties, LenProperties
<1> QED
  BY <1>2 DEF IInv, Placement, QueueContent

\* A new manager, after a restart, knows of no turn: for the specifications that
\* compose this one with other components.
NewManager ==
  /\ registered' = Sessions
  /\ active' = [s \in Sessions |-> NoTurn] /\ cancel' = [s \in Sessions |-> NoTurn]
  /\ queue' = [s \in Sessions |-> <<>>]
  /\ counters' = [s \in Sessions |-> QueueCounters(<<>>)]
  /\ stage' \in [Turns -> {"new", "done"}]
  /\ UNCHANGED <<home, cancelled>>

LEMMA NewManagerIsInOrder ==
  ASSUME IInv, NewManager,
         \A t \in Turns : stage'[t] = "new" => stage[t] = "new"
  PROVE  IInv'
<1>1. <<>> \in Seq(Turns) /\ Len(<<>>) = 0
  OBVIOUS
<1>2. QueueCounters(<<>>) \in [depth : Nat, users : Nat, batches : Nat]
  BY <1>1, QueueCountersType
<1>3. TypeOK'
  BY <1>1, <1>2 DEF NewManager, IInv, TypeOK, Stage
<1>4. /\ Homes' /\ CancelIsActive' /\ QueueContent' /\ QueueComplete' /\ QueueDistinct'
      /\ BusyWhileQueued'
  <2>1. Homes'
    BY DEF NewManager, IInv, TypeOK, Placement, Homes, HomeFits, InFlight
  <2>2. CancelIsActive' /\ QueueContent' /\ QueueDistinct' /\ BusyWhileQueued'
    BY <1>1 DEF NewManager, CancelIsActive, QueueContent, QueueDistinct, BusyWhileQueued
  <2>3. QueueComplete'
    BY DEF NewManager, QueueComplete
  <2> QED
    BY <2>1, <2>2, <2>3
<1>5. LiveMeansActive'
  BY TurnKinds DEF NewManager, LiveMeansActive, InFlight, Turns
<1>6. CancelledHaveRun'
  <2> SUFFICES ASSUME NEW t \in cancelled
               PROVE  stage'[t] = "done"
    BY DEF NewManager, CancelledHaveRun
  <2>1. t \in Turns /\ stage[t] # "new"
    BY DEF IInv, TypeOK, Placement, CancelledHaveRun, InFlight
  <2> QED
    BY <2>1 DEF NewManager
<1>7. CountersCurrent'
  BY DEF NewManager, CountersCurrent
<1> QED
  BY <1>3, <1>4, <1>5, <1>6, <1>7 DEF IInv, Placement

\* Every step of the manager keeps the inductive invariant.
LEMMA InvariantStep == IInv /\ [Next]_vars => IInv'
  BY TypeStep, PlacementStep, CountersStep DEF IInv, Placement

\* Every reachable state satisfies the inductive invariant.
THEOREM InductiveInvariant == Spec => []IInv
  BY InitIInv, InvariantStep, PTL DEF Spec

\* Type correctness, including that SubmitTurn gives no turn to a session that
\* was never registered.
THEOREM TypeInvariant == Spec => []TypeOK
<1>1. IInv => TypeOK
  BY DEF IInv
<1> QED
  BY <1>1, InductiveInvariant, PTL

\* Who runs with a live context is who LiveMeansActive says.
LEMMA LiveIsActive == IInv => LiveRunIsActive
<1> SUFFICES ASSUME IInv, NEW s \in Sessions
             PROVE  LiveRuns(s) = {active[s]} \ {NoTurn}
  BY DEF LiveRunIsActive
<1>1. active[s] \in Turns \cup {NoTurn} /\ NoTurn \notin Turns
  BY TurnKinds DEF IInv, TypeOK, Turns
<1>2. \A t \in Turns : active[s] = t <=>
        home[t] = s /\ stage[t] \in InFlight /\ t \notin cancelled
  BY DEF IInv, Placement, LiveMeansActive
<1> QED
  BY <1>1, <1>2 DEF LiveRuns

\* Mutual exclusion of agent runs: at every moment exactly the active turn of a
\* session runs with a live context, however turns are preempted and cancelled.
THEOREM MutualExclusion == Spec => []LiveRunIsActive
  BY LiveIsActive, InductiveInvariant, PTL

\* The queues hold the turns that are queued, and nobody else.
LEMMA WaitersAreQueued == IInv => NoIdleWaiters
<1> SUFFICES ASSUME IInv, NEW s \in Sessions
             PROVE  /\ queue[s] # <<>> => active[s] # NoTurn
                    /\ ToSet(queue[s]) = {t \in Turns : home[t] = s /\ stage[t] = "queued"}
  BY DEF NoIdleWaiters
<1>1. queue[s] # <<>> => active[s] # NoTurn
  BY DEF IInv, Placement, BusyWhileQueued
<1>2. queue[s] \in Seq(Turns) /\ DOMAIN queue[s] = 1 .. Len(queue[s])
  <2>1. queue[s] \in Seq(Turns)
    BY DEF IInv, TypeOK
  <2> QED
    BY <2>1, LenProperties
<1>3. \A i \in 1 .. Len(queue[s]) :
        /\ queue[s][i] \in Turns /\ home[queue[s][i]] = s
        /\ stage[queue[s][i]] = "queued"
  BY <1>2, ElementOfSeq DEF IInv, Placement, QueueContent
<1>4. \A t \in Turns : home[t] = s /\ stage[t] = "queued" =>
        \E i \in 1 .. Len(queue[s]) : queue[s][i] = t
  BY DEF IInv, Placement, QueueComplete
<1> QED
  BY <1>1, <1>2, <1>3, <1>4 DEF ToSet

\* No turn waits behind an idle session, and the queue holds exactly the turns
\* that were told to wait: none is lost by a hand-over, a merge or a withdrawal.
THEOREM NobodyWaitsIdle == Spec => []NoIdleWaiters
  BY WaitersAreQueued, InductiveInvariant, PTL

\* No two entries of a queue are the same turn, or two batches.
LEMMA BatchesAreMerged == IInv => OneQueuedBatch
<1> SUFFICES ASSUME IInv, NEW s \in Sessions,
                    NEW i \in DOMAIN queue[s], NEW j \in DOMAIN queue[s], i # j
             PROVE  /\ queue[s][i] # queue[s][j]
                    /\ {queue[s][i], queue[s][j]} \cap UserTurns # {}
  BY DEF OneQueuedBatch
<1>1. queue[s] \in Seq(Turns)
  BY DEF IInv, TypeOK
<1>2. i \in 1 .. Len(queue[s]) /\ j \in 1 .. Len(queue[s])
  BY <1>1, LenProperties
<1>3. queue[s][i] \in Turns /\ queue[s][j] \in Turns
  BY <1>1, <1>2, ElementOfSeq
<1>4. /\ queue[s][i] # queue[s][j]
      /\ ~ (queue[s][i] \in BatchTurns /\ queue[s][j] \in BatchTurns)
  BY <1>2 DEF IInv, Placement, QueueDistinct
<1> QED
  BY <1>3, <1>4 DEF Turns

\* At most one report batch waits in a session, and no turn waits twice.
THEOREM AtMostOneQueuedBatch == Spec => []OneQueuedBatch
  BY BatchesAreMerged, InductiveInvariant, PTL

\* QueuePayload's cached counters are those of the queue at every moment.
THEOREM CountersNeverStale == Spec => []CountersCurrent
<1>1. IInv => CountersCurrent
  BY DEF IInv
<1> QED
  BY <1>1, InductiveInvariant, PTL

\* No submission takes a session from a user message or cancels its context.
THEOREM SubmissionsDoNotInterrupt == Spec => UserTurnNotInterrupted
<1> DEFINE Kept == \A s \in Sessions : active[s] \in UserTurns /\ Submission(s) =>
                     active'[s] = active[s] /\ active[s] \notin cancelled'
<1>1. IInv /\ [Next]_vars => [Kept]_vars
  <2> SUFFICES ASSUME IInv, Next, NEW s \in Sessions, active[s] \in UserTurns, Submission(s)
               PROVE  active'[s] = active[s] /\ active[s] \notin cancelled'
    OBVIOUS
  <2>1. PICK t \in Turns : stage[t] = "new" /\ stage'[t] # "new" /\ home'[t] = s
    BY DEF Submission
  <2>2. active[s] # NoTurn /\ active[s] \notin BatchTurns /\ active[s] \in Turns
    BY TurnKinds DEF Turns
  <2>3. active[s] \notin cancelled
    BY <2>2 DEF IInv, Placement, LiveMeansActive
  <2>4. \A u \in Turns, r \in Sessions : SubmitTurn(r, u) => r = s /\ u = t
    <3> SUFFICES ASSUME NEW u \in Turns, NEW r \in Sessions, SubmitTurn(r, u)
                 PROVE  r = s /\ u = t
      OBVIOUS
    <3>1. \A v \in Turns : v # u => stage'[v] = stage[v]
      BY DEF SubmitTurn, StartIdle, Preempt, ActivateNew, Enqueue, IInv, TypeOK
    <3>2. u = t
      BY <2>1, <3>1
    <3> QED
      BY <2>1, <3>2 DEF SubmitTurn, IInv, TypeOK
  <2>5. CASE SubmitTurn(s, t)
    <3>1. Enqueue(s, t)
      BY <2>2, <2>5 DEF SubmitTurn, StartIdle, Preempt, CanPreempt
    <3> QED
      BY <2>3, <3>1 DEF Enqueue
  <2>6. CASE \A u \in Turns, r \in Sessions : ~ SubmitTurn(r, u)
    <3>1. home[t] = NoSession /\ NoSession # s
      BY <2>1, TurnKinds DEF IInv, Placement, Homes, HomeFits, InFlight
    <3>2. home' = home
      BY <2>6 DEF Next, Register, CancelActive, CancelQueued, Spawn, AgentReturns,
                  FinishTurn, FinishActive, FinishStale
    <3> QED
      BY <2>1, <3>1, <3>2
  <2> QED
    BY <2>4, <2>5, <2>6
<1>2. [][Kept]_vars <=> UserTurnNotInterrupted
  BY DEF UserTurnNotInterrupted
<1> QED
  BY <1>1, <1>2, InductiveInvariant, PTL DEF Spec

-----------------------------------------------------------------------------
(* The manager implements TurnLine, but for fairness *)

\* The live turns of the refinement mapping are what ActiveTurnID says.
MapsToActive == [r \in Sessions |-> LiveTurn(r)] = active

\* The goroutine with a live context is that of the active turn: the mapping of the
\* refinement is read off ActiveTurnID after all.
LEMMA MappedLive == IInv => MapsToActive
<1> SUFFICES ASSUME IInv
             PROVE  [r \in Sessions |-> LiveTurn(r)] = active
  BY DEF MapsToActive
<1>1. active \in [Sessions -> Turns \cup {NoTurn}] /\ NoTurn \notin Turns
  BY TurnKinds DEF IInv, TypeOK, Turns
<1>2. ASSUME NEW s \in Sessions
      PROVE  LiveTurn(s) = active[s]
  <2>1. \A t \in Turns : active[s] = t <=>
          home[t] = s /\ stage[t] \in InFlight /\ t \notin cancelled
    BY DEF IInv, Placement, LiveMeansActive
  <2>2. LiveRuns(s) = {active[s]} \ {NoTurn}
    BY <1>1, <2>1 DEF LiveRuns
  <2> QED
    BY <2>2 DEF LiveTurn
<1> QED
  BY <1>1, <1>2

\* A turn that nobody has submitted is not in use, and an active turn is not spent.
LEMMA MappedUse ==
  ASSUME IInv
  PROVE  /\ \A t \in Turns : stage[t] = "new" => t \notin TL!InUse
         /\ \A s \in Sessions : ToSet(queue[s]) \subseteq Turns
<1>1. \A s \in Sessions : queue[s] \in Seq(Turns)
  BY DEF IInv, TypeOK
<1>2. \A s \in Sessions : \A i \in DOMAIN queue[s] : queue[s][i] \in Turns /\ stage[queue[s][i]] = "queued"
  <2> SUFFICES ASSUME NEW s \in Sessions, NEW i \in DOMAIN queue[s]
               PROVE  queue[s][i] \in Turns /\ stage[queue[s][i]] = "queued"
    OBVIOUS
  <2>1. i \in 1 .. Len(queue[s])
    BY <1>1, LenProperties
  <2> QED
    BY <1>1, <2>1, ElementOfSeq DEF IInv, Placement, QueueContent
<1>3. ASSUME NEW t \in Turns, stage[t] = "new"
      PROVE  t \notin TL!InUse
  <2>1. t \notin Spent
    BY <1>3 DEF Spent, InFlight
  <2>2. \A s \in Sessions : active[s] # t
    BY <1>3 DEF IInv, Placement, LiveMeansActive, InFlight
  <2>3. \A s \in Sessions : t \notin ToSet(queue[s])
    BY <1>2, <1>3 DEF ToSet
  <2>4. \A s \in Sessions : [r \in Sessions |-> LiveTurn(r)][s] = active[s]
    BY MappedLive DEF MapsToActive
  <2>5. \A s \in Sessions : TL!ToSet(queue[s]) = ToSet(queue[s])
    BY DEF ToSet, TL!ToSet
  <2> QED
    BY <2>1, <2>2, <2>3, <2>4, <2>5 DEF TL!InUse
<1> QED
  BY <1>2, <1>3 DEF ToSet

\* What the steps of the line are, with the mapping unfolded.
LEMMA MappedActions ==
  ASSUME IInv, IInv', NEW s \in Sessions
  PROVE  /\ UNCHANGED <<active, queue>> /\ Spent' = Spent => UNCHANGED TL!vars
         /\ \A t \in Turns :
              /\ /\ stage[t] = "new" /\ active[s] = NoTurn
                 /\ active' = [active EXCEPT ![s] = t] /\ UNCHANGED queue /\ Spent' = Spent
                 => TL!Begin(s, t)
              /\ /\ stage[t] = "new" /\ active[s] # NoTurn
                 /\ ~ CanPreempt(s, t) /\ ~ (t \in BatchTurns /\ BatchQueued(s))
                 /\ queue' = [queue EXCEPT ![s] = Append(@, t)]
                 /\ UNCHANGED active /\ Spent' = Spent
                 => TL!Join(s, t)
              /\ /\ stage[t] = "new" /\ t \in BatchTurns /\ BatchQueued(s)
                 /\ UNCHANGED <<active, queue>> /\ Spent' = Spent \cup {t}
                 => TL!Merge(s, t)
              /\ /\ stage[t] = "new" /\ CanPreempt(s, t)
                 /\ active' = [active EXCEPT ![s] = t] /\ UNCHANGED queue
                 /\ Spent' = Spent \cup {active[s]}
                 => TL!TakeOver(s, t)
         /\ \A i \in 1 .. Len(queue[s]) :
              /\ queue' = [queue EXCEPT ![s] = RemoveAt(@, i)] /\ UNCHANGED active
              /\ Spent' = Spent \cup {queue[s][i]}
              => i \in DOMAIN queue[s] /\ TL!Withdraw(s, i)
         /\ /\ active[s] # NoTurn /\ HandOver(s) /\ Spent' = Spent \cup {active[s]}
            => TL!PassOn(s)
<1>1. [r \in Sessions |-> LiveTurn(r)] = active
  BY MappedLive DEF MapsToActive
<1>2. [r \in Sessions |-> LiveTurn(r)]' = active'
  <2>1. (IInv => MapsToActive)'
    BY MappedLive, PTL
  <2> QED
    BY <2>1 DEF MapsToActive
<1>3. \A t \in Turns : stage[t] = "new" => t \notin TL!InUse
  BY MappedUse
<1>4. queue[s] \in Seq(Turns) /\ DOMAIN queue[s] = 1 .. Len(queue[s])
  <2>1. queue[s] \in Seq(Turns)
    BY DEF IInv, TypeOK
  <2> QED
    BY <2>1, LenProperties
<1>5. TL!ToSet(queue[s]) \cap BatchTurns # {} <=> BatchQueued(s)
  BY <1>4 DEF TL!ToSet, BatchQueued
<1>6. \A i : TL!RemoveAt(queue[s], i) = RemoveAt(queue[s], i)
  BY DEF RemoveAt, TL!RemoveAt
<1>7. DOMAIN active = Sessions /\ DOMAIN queue = Sessions
  BY DEF IInv, TypeOK
<1>8. UNCHANGED <<active, queue>> /\ Spent' = Spent => UNCHANGED TL!vars
  BY <1>1, <1>2 DEF TL!vars
<1>9. ASSUME NEW t \in Turns, stage[t] = "new", active[s] = NoTurn,
             active' = [active EXCEPT ![s] = t], UNCHANGED queue, Spent' = Spent
      PROVE  TL!Begin(s, t)
  BY <1>1, <1>2, <1>3, <1>9 DEF TL!Begin
<1>10. ASSUME NEW t \in Turns, stage[t] = "new", active[s] # NoTurn,
              ~ CanPreempt(s, t), ~ (t \in BatchTurns /\ BatchQueued(s)),
              queue' = [queue EXCEPT ![s] = Append(@, t)], UNCHANGED active, Spent' = Spent
       PROVE  TL!Join(s, t)
  BY <1>1, <1>2, <1>3, <1>5, <1>10 DEF TL!Join, CanPreempt
<1>11. ASSUME NEW t \in Turns, stage[t] = "new", t \in BatchTurns, BatchQueued(s),
              UNCHANGED <<active, queue>>, Spent' = Spent \cup {t}
       PROVE  TL!Merge(s, t)
  BY <1>1, <1>2, <1>3, <1>5, <1>11 DEF TL!Merge
<1>12. ASSUME NEW t \in Turns, stage[t] = "new", CanPreempt(s, t),
              active' = [active EXCEPT ![s] = t], UNCHANGED queue, Spent' = Spent \cup {active[s]}
       PROVE  TL!TakeOver(s, t)
  BY <1>1, <1>2, <1>3, <1>12 DEF TL!TakeOver, CanPreempt
<1>13. ASSUME NEW i \in 1 .. Len(queue[s]), queue' = [queue EXCEPT ![s] = RemoveAt(@, i)],
              UNCHANGED active, Spent' = Spent \cup {queue[s][i]}
       PROVE  i \in DOMAIN queue[s] /\ TL!Withdraw(s, i)
  BY <1>1, <1>2, <1>4, <1>6, <1>13 DEF TL!Withdraw
<1>14. ASSUME active[s] # NoTurn, HandOver(s), Spent' = Spent \cup {active[s]}
       PROVE  TL!PassOn(s)
  <2>1. CASE queue[s] = <<>>
    <3>1. queue' = queue
      BY <2>1, <1>14 DEF HandOver, IInv, TypeOK
    <3> QED
      BY <1>1, <1>2, <1>7, <1>14, <2>1, <3>1 DEF TL!PassOn, HandOver, NextTurn
  <2>2. CASE queue[s] # <<>>
    BY <1>1, <1>2, <1>7, <1>14, <2>2 DEF TL!PassOn, HandOver, NextTurn
  <2> QED
    BY <2>1, <2>2
<1> QED
  BY <1>8, <1>9, <1>10, <1>11, <1>12, <1>13, <1>14

\* Every step of the manager is one of the line, or none.
LEMMA MappedStep == IInv /\ IInv' /\ [Next]_vars => [TL!Next]_(TL!vars)
<1> SUFFICES ASSUME IInv, IInv', [Next]_vars
             PROVE  TL!Next \/ UNCHANGED TL!vars
  OBVIOUS
<1>t. /\ active \in [Sessions -> Turns \cup {NoTurn}] /\ queue \in [Sessions -> Seq(Turns)]
      /\ stage \in [Turns -> Stage] /\ cancelled \subseteq Turns /\ NoTurn \notin Turns
  BY TurnKinds DEF IInv, TypeOK, Turns
<1>l. \A s \in Sessions : active[s] # NoTurn =>
        /\ active[s] \in Turns /\ cancel[s] = active[s]
        /\ home[active[s]] = s /\ stage[active[s]] \in InFlight /\ active[s] \notin cancelled
  BY <1>t DEF IInv, Placement, LiveMeansActive, CancelIsActive
<1>c. \A t \in Turns : t \in cancelled => stage[t] \in InFlight \cup {"done"}
  BY DEF IInv, Placement, CancelledHaveRun
<1>q. \A s \in Sessions : \A i \in 1 .. Len(queue[s]) :
        queue[s][i] \in Turns /\ stage[queue[s][i]] = "queued"
  BY <1>t, ElementOfSeq DEF IInv, Placement, QueueContent
<1>h. \A s \in Sessions : NextTurn(s) # NoTurn =>
        NextTurn(s) \in Turns /\ stage[NextTurn(s)] = "queued" /\ NextTurn(s) \notin cancelled
  <2> SUFFICES ASSUME NEW s \in Sessions, NextTurn(s) # NoTurn
               PROVE  NextTurn(s) \in Turns /\ stage[NextTurn(s)] = "queued" /\ NextTurn(s) \notin cancelled
    OBVIOUS
  <2>1. 1 \in 1 .. Len(queue[s]) /\ NextTurn(s) = queue[s][1]
    BY <1>t, HeadTailProperties, EmptySeq, LenProperties DEF NextTurn
  <2> QED
    BY <2>1, <1>q, <1>c DEF InFlight
<1>1. ASSUME NEW s \in Sessions, Register(s)
      PROVE  UNCHANGED TL!vars
  BY <1>1, MappedActions DEF Register, Spent
<1>2. ASSUME NEW s \in Sessions, NEW t \in Turns, SubmitTurn(s, t)
      PROVE  TL!Next
  <2>1. stage[t] = "new" /\ t \notin cancelled
    BY <1>2, <1>c DEF SubmitTurn, InFlight
  <2>2. CASE StartIdle(s, t)
    <3>1. Spent' = Spent
      BY <2>1, <2>2, <1>t DEF StartIdle, ActivateNew, Spent, InFlight
    <3> QED
      BY <2>1, <2>2, <3>1, MappedActions DEF StartIdle, ActivateNew, TL!Next, TL!Turns, Turns
  <2>3. CASE Preempt(s, t)
    <3>1. active[s] # NoTurn /\ active[s] # t
      BY <2>1, <2>3, <1>t, <1>l DEF Preempt, CanPreempt, Turns, InFlight
    <3>2. /\ cancelled' = cancelled \cup {active[s]}
          /\ stage' = [stage EXCEPT ![t] = "spawning"]
          /\ active[s] \in Turns /\ stage[active[s]] \in InFlight
      BY <2>3, <3>1, <1>l DEF Preempt, ActivateNew
    <3>3. Spent' = Spent \cup {active[s]}
      BY <2>1, <3>1, <3>2, <1>t DEF Spent, InFlight
    <3> QED
      BY <2>1, <2>3, <3>3, MappedActions DEF Preempt, ActivateNew, TL!Next, TL!Turns, Turns
  <2>4. CASE Enqueue(s, t) /\ t \in BatchTurns /\ BatchQueued(s)
    <3>1. Spent' = Spent \cup {t}
      BY <2>1, <2>4, <1>t DEF Enqueue, Spent, InFlight
    <3> QED
      BY <2>1, <2>4, <3>1, MappedActions DEF Enqueue, TL!Next, TL!Turns, Turns
  <2>5. CASE Enqueue(s, t) /\ ~ (t \in BatchTurns /\ BatchQueued(s))
    <3>1. Spent' = Spent
      BY <2>1, <2>5, <1>t DEF Enqueue, Spent, InFlight
    <3> QED
      BY <2>1, <2>5, <3>1, MappedActions DEF Enqueue, TL!Next, TL!Turns, Turns
  <2> QED
    BY <1>2, <2>2, <2>3, <2>4, <2>5 DEF SubmitTurn
<1>3. ASSUME NEW s \in Sessions, CancelActive(s)
      PROVE  TL!Next
  <2>1. /\ active[s] # NoTurn /\ HandOver(s) /\ cancelled' = cancelled \cup {active[s]}
        /\ stage' = [u \in Turns |-> IF u = NextTurn(s) THEN "spawning" ELSE stage[u]]
    BY <1>3, <1>l DEF CancelActive
  <2>2. active[s] # NextTurn(s)
    BY <2>1, <1>l, <1>h DEF InFlight
  <2>3. Spent' = Spent \cup {active[s]}
    BY <2>1, <2>2, <1>t, <1>l, <1>h DEF Spent, InFlight
  <2> QED
    BY <2>1, <2>3, MappedActions DEF TL!Next
<1>4. ASSUME NEW s \in Sessions, NEW i \in 1 .. Len(queue[s]), CancelQueued(s, i)
      PROVE  TL!Next
  <2>1. Spent' = Spent \cup {queue[s][i]}
    BY <1>4, <1>t, <1>q DEF CancelQueued, Spent, InFlight
  <2> QED
    BY <1>4, <2>1, MappedActions DEF CancelQueued, TL!Next
<1>5. ASSUME NEW t \in Turns, Spawn(t) \/ AgentReturns(t) \/ FinishStale(t)
      PROVE  UNCHANGED TL!vars
  <2>1. UNCHANGED <<active, queue, cancelled>>
    BY <1>5 DEF Spawn, AgentReturns, FinishStale
  <2>2. home[t] \in Sessions /\ (FinishStale(t) => t \in cancelled)
    BY <1>5, <1>t DEF Spawn, AgentReturns, FinishStale, IInv, TypeOK, Placement, Homes, HomeFits,
                      LiveMeansActive, InFlight
  <2>3. Spent' = Spent
    BY <1>5, <2>1, <2>2, <1>t DEF Spawn, AgentReturns, FinishStale, Spent, InFlight
  <2> QED
    BY <2>1, <2>2, <2>3, MappedActions
<1>6. ASSUME NEW t \in Turns, FinishActive(t)
      PROVE  TL!Next
  <2> DEFINE s == home[t]
  <2>1. s \in Sessions /\ active[s] = t /\ t # NoTurn /\ HandOver(s) /\ UNCHANGED cancelled
    BY <1>6, <1>t DEF FinishActive, IInv, TypeOK, Placement, Homes, HomeFits, InFlight
  <2>2. /\ stage' = [u \in Turns |-> CASE u = t -> "done"
                                       [] u # t /\ u = NextTurn(s) -> "spawning"
                                       [] OTHER -> stage[u]]
    BY <1>6 DEF FinishActive
  <2> HIDE DEF s
  <2>3. Spent' = Spent \cup {t}
    BY <2>1, <2>2, <1>t, <1>l, <1>h DEF Spent, InFlight
  <2> QED
    BY <2>1, <2>3, MappedActions DEF TL!Next
<1>7. CASE UNCHANGED vars
  <2>1. Spent' = Spent /\ [r \in Sessions |-> LiveTurn(r)]' = [r \in Sessions |-> LiveTurn(r)]
    BY <1>7 DEF vars, Spent, LiveTurn, LiveRuns
  <2> QED
    BY <1>7, <2>1 DEF vars, TL!vars
<1> QED
  BY <1>1, <1>2, <1>3, <1>4, <1>5, <1>6, <1>7 DEF Next, FinishTurn

\* Nothing is live, in line or spent at the start.
LEMMA MappedInit == Init => TL!Init
<1> SUFFICES ASSUME Init
             PROVE  TL!Init
  OBVIOUS
<1>1. [r \in Sessions |-> LiveTurn(r)] = active
  BY InitIInv, MappedLive DEF MapsToActive
<1>2. Spent = {}
  BY DEF Init, Spent, InFlight
<1> QED
  BY <1>1, <1>2 DEF Init, TL!Init

TurnLineSafety == TL!Init /\ [][TL!Next]_(TL!vars)

\* For any sessions and turns: seen through the goroutines whose contexts are alive,
\* every step of the manager is a step of TurnLine or none, so that turns start one at
\* a time, in the order of the line, and a session passes on in the step that ends a
\* turn.
THEOREM SessionsAreLines == Spec => TurnLineSafety
<1> QED
  BY MappedInit, MappedStep, InductiveInvariant, PTL DEF Spec, TurnLineSafety
=============================================================================
