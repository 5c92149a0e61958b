-------------------------- MODULE ConversationProofs --------------------------
(***************************************************************************)
(* For any limits, sizes, responses and number of turns: compaction keeps  *)
(* all that a session has said, and the calls of the model are answered in *)
(* what the providers are sent, whatever turn fails and wherever.          *)
(*                                                                         *)
(* The first half is about lists: what the functions that pick messages,   *)
(* cut lists off and merge neighbours return, for lists of any length.     *)
(***************************************************************************)
EXTENDS Conversation, FiniteSetTheorems, FunctionTheorems, SequenceTheorems,
        WellFoundedInduction, TLAPS

-----------------------------------------------------------------------------

\* A set of numbers that is not empty has a least one ...
LEMMA LeastNumber ==
  ASSUME NEW T \in SUBSET Nat, T # {} PROVE \E x \in T : \A y \in T : x <= y
  <1>1. PICK x \in T : \A y \in T : ~ (<<y, x>> \in OpToRel(<, Nat))
    BY NatLessThanWellFounded, WFMin
  <1>2. \A y \in T : ~ (y < x)
    BY <1>1 DEF OpToRel
  <1>3. x \in Nat /\ \A y \in T : y \in Nat
    OBVIOUS
  <1> QED
    BY <1>2, <1>3

\* ... and, if it is bounded, a largest one.
LEMMA MaxIsLargest ==
  ASSUME NEW b \in Nat, NEW S \in SUBSET (0 .. b), S # {}
  PROVE  Max(S) \in S /\ \A y \in S : y <= Max(S)
  <1> DEFINE Above == {n \in Nat : \A y \in S : y <= n}
  <1>1. b \in Above
    OBVIOUS
  <1>2. PICK x \in Above : \A n \in Above : x <= n
    BY <1>1, LeastNumber
  <1>3. x \in S
    <2>1. CASE x = 0
      <3>1. PICK y \in S : TRUE
        OBVIOUS
      <3>2. y = 0
        BY <2>1, <1>2, <3>1
      <3> QED
        BY <2>1, <3>1, <3>2
    <2>2. CASE x # 0 /\ x \notin S
      <3>1. x - 1 \in Nat /\ \A y \in S : y <= x - 1
        BY <2>2, <1>2
      <3>2. x <= x - 1
        BY <3>1, <1>2
      <3> QED
        BY <3>2, <1>2
    <2> QED
      BY <2>1, <2>2
  <1>4. \E m \in S : \A y \in S : m >= y
    BY <1>2, <1>3
  <1> QED
    BY <1>4 DEF Max

-----------------------------------------------------------------------------
\* Lists that are built one element after the other

\* What holds of 0 and, if of a number, of the next one too, holds up to n.
LEMMA UpTo ==
  ASSUME NEW n \in Nat, NEW P, 0 \in P, \A i \in 1 .. n : i - 1 \in P => i \in P
  PROVE  \A i \in 0 .. n : i \in P
  <1> DEFINE Others == {i \in 0 .. n : i \notin P}
  <1> SUFFICES ASSUME Others # {} PROVE FALSE
    OBVIOUS
  <1>1. PICK x \in Others : \A y \in Others : x <= y
    BY LeastNumber, Others \in SUBSET Nat
  <1>2. x # 0 /\ x \in 1 .. n
    OBVIOUS
  <1>3. x - 1 \in P
    BY <1>1, <1>2
  <1> QED
    BY <1>2, <1>3

\* A recursive definition over the numbers up to n has a solution.
Solves(f, n, a, step) == f[0] = a /\ \A i \in 1 .. n : f[i] = step[i][f[i - 1]]

LEMMA Recursion ==
  ASSUME NEW n \in Nat, NEW S, NEW a \in S, NEW step \in [1 .. n -> [S -> S]]
  PROVE  \E f \in [0 .. n -> S] : Solves(f, n, a, step)
  <1> DEFINE P == {m \in 0 .. n : \E f \in [0 .. m -> S] : Solves(f, m, a, step)}
  <1>1. 0 \in P
    <2> DEFINE g == [i \in 0 .. 0 |-> a]
    <2>1. g \in [0 .. 0 -> S] /\ g[0] = a /\ \A i \in 1 .. 0 : g[i] = step[i][g[i - 1]]
      OBVIOUS
    <2> HIDE DEF g
    <2>2. \E f \in [0 .. 0 -> S] : Solves(f, 0, a, step)
      <3>1. Solves(g, 0, a, step)
        BY <2>1 DEF Solves
      <3> QED
        BY <2>1, <3>1
    <2> QED
      BY <2>2, 0 \in 0 .. n
  <1>2. ASSUME NEW m \in 1 .. n, m - 1 \in P PROVE m \in P
    <2>1. PICK f \in [0 .. m - 1 -> S] : Solves(f, m - 1, a, step)
      BY <1>2
    <2> DEFINE g == [i \in 0 .. m |-> IF i < m THEN f[i] ELSE step[m][f[m - 1]]]
    <2>2. f[m - 1] \in S
      OBVIOUS
    <2>3. g \in [0 .. m -> S]
      BY <2>2
    <2>4. g[0] = a
      BY <2>1 DEF Solves
    <2>5. ASSUME NEW i \in 1 .. m PROVE g[i] = step[i][g[i - 1]]
      <3>1. i \in 0 .. m /\ i - 1 \in 0 .. m /\ i - 1 < m
        OBVIOUS
      <3>2. g[i - 1] = f[i - 1]
        BY <3>1
      <3>3. CASE i = m
        BY <3>1, <3>2, <3>3
      <3>4. CASE i < m
        <4>1. g[i] = f[i] /\ i \in 1 .. m - 1
          BY <3>1, <3>4
        <4> QED
          BY <4>1, <3>2, <2>1 DEF Solves
      <3> QED
        BY <3>3, <3>4
    <2> HIDE DEF g
    <2>6. \E h \in [0 .. m -> S] : Solves(h, m, a, step)
      BY <2>3, <2>4, <2>5 DEF Solves
    <2> QED
      BY <2>6, m \in 0 .. n
  <1> HIDE DEF P
  <1>3. n \in P
    BY <1>1, <1>2, UpTo, n \in 0 .. n
  <1> QED
    BY <1>3 DEF P

\* F is what L has at the places P, in that order.
Picked(F, L, P) ==
  \E g \in [1 .. Len(F) -> P] :
    /\ \A j, k \in 1 .. Len(F) : j < k => g[j] < g[k]
    /\ \A k \in 1 .. Len(F) : F[k] = L[g[k]]
    /\ \A p \in P : \E k \in 1 .. Len(F) : g[k] = p

\* One more element is left out, or comes last.
LEMMA PickedOn ==
  ASSUME NEW X, NEW L, NEW i \in Nat \ {0}, NEW P \in SUBSET (1 .. i - 1),
         NEW F \in Seq(X), Picked(F, L, P), L[i] \in X
  PROVE  Append(F, L[i]) \in Seq(X) /\ Picked(Append(F, L[i]), L, P \cup {i})
  <1>1. PICK g \in [1 .. Len(F) -> P] :
          /\ \A j, k \in 1 .. Len(F) : j < k => g[j] < g[k]
          /\ \A k \in 1 .. Len(F) : F[k] = L[g[k]]
          /\ \A p \in P : \E k \in 1 .. Len(F) : g[k] = p
    BY DEF Picked
  <1> DEFINE G == Append(F, L[i])
             n == Len(F)
             h == [k \in 1 .. n + 1 |-> IF k <= n THEN g[k] ELSE i]
  <1>2. n \in Nat /\ G \in Seq(X) /\ Len(G) = n + 1 /\ (\A k \in 1 .. n : G[k] = F[k]) /\ G[n + 1] = L[i]
    BY AppendProperties, LenProperties
  <1> HIDE DEF G, n
  <1>3. \A k \in 1 .. n : g[k] \in 1 .. i - 1 /\ g[k] \in P
    BY <1>1 DEF n
  <1>4. h \in [1 .. n + 1 -> P \cup {i}]
    BY <1>2, <1>3
  <1>5. \A j, k \in 1 .. n + 1 : j < k => h[j] < h[k]
    BY <1>1, <1>2, <1>3 DEF n
  <1>6. \A k \in 1 .. n + 1 : G[k] = L[h[k]]
    BY <1>1, <1>2 DEF n
  <1>7. \A p \in P \cup {i} : \E k \in 1 .. n + 1 : h[k] = p
    <2>1. ASSUME NEW p \in P PROVE \E k \in 1 .. n + 1 : h[k] = p
      <3>1. PICK k \in 1 .. n : g[k] = p
        BY <1>1 DEF n
      <3>2. k \in 1 .. n + 1 /\ h[k] = p
        BY <3>1, <1>2
      <3> QED
        BY <3>2
    <2>2. n + 1 \in 1 .. n + 1 /\ h[n + 1] = i
      BY <1>2
    <2> QED
      BY <2>1, <2>2
  <1> HIDE DEF h
  <1>8. Picked(G, L, P \cup {i})
    <2> DEFINE N == n + 1
    <2>1. Len(G) = N
      BY <1>2
    <2>2. h \in [1 .. N -> P \cup {i}]
      BY <1>4
    <2>3. \A j, k \in 1 .. N : j < k => h[j] < h[k]
      BY <1>5
    <2>4. \A k \in 1 .. N : G[k] = L[h[k]]
      BY <1>6
    <2>5. \A p \in P \cup {i} : \E k \in 1 .. N : h[k] = p
      BY <1>7
    <2> HIDE DEF N
    <2> QED
      BY <2>1, <2>2, <2>3, <2>4, <2>5, ZenonT(40) DEF Picked
  <1> QED
    BY <1>2, <1>8 DEF G

\* A list without some kinds of messages has all the others, in their order.
LEMMA WithoutPicks ==
  ASSUME NEW X, NEW L \in Seq(X), NEW kinds
  PROVE  /\ WithoutKinds(kinds, L) \in Seq(X)
         /\ Picked(WithoutKinds(kinds, L), L, {i \in 1 .. Len(L) : L[i].kind \notin kinds})
  <1> DEFINE n == Len(L)
             step == [i \in 1 .. n |-> [s \in Seq(X) |->
                        IF L[i].kind \in kinds THEN s ELSE Append(s, L[i])]]
             Next(f, i) == IF L[i].kind \in kinds THEN f[i - 1] ELSE Append(f[i - 1], L[i])
  <1>1. n \in Nat /\ \A i \in 1 .. n : L[i] \in X
    BY LenProperties, ElementOfSeq
  <1>2. step \in [1 .. n -> [Seq(X) -> Seq(X)]]
    <2>1. ASSUME NEW i \in 1 .. n, NEW s \in Seq(X) PROVE Append(s, L[i]) \in Seq(X)
      BY <1>1, AppendProperties
    <2> QED
      BY <2>1
  <1>3. PICK g \in [0 .. n -> Seq(X)] : g[0] = <<>> /\ \A i \in 1 .. n : g[i] = step[i][g[i - 1]]
    <2>1. <<>> \in Seq(X)
      OBVIOUS
    <2> DEFINE S == Seq(X)
               a == <<>>
    <2>2. n \in Nat /\ a \in S /\ step \in [1 .. n -> [S -> S]]
      BY <1>1, <1>2, <2>1
    <2> HIDE DEF step, n, S, a
    <2>3. \E f \in [0 .. n -> S] : Solves(f, n, a, step)
      BY <2>2, Recursion
    <2> QED
      BY <2>3 DEF S, a, Solves
  <1>4. \A i \in 1 .. n : g[i] = Next(g, i)
    <2>1. ASSUME NEW i \in 1 .. n PROVE g[i] = Next(g, i)
      <3>1. g[i - 1] \in Seq(X)
        <4>1. i - 1 \in 0 .. n
          BY <1>1
        <4> HIDE DEF step, n
        <4> QED
          BY <4>1
      <3> QED
        BY <3>1, <1>3
    <2> QED
      BY <2>1
  <1>5. g = [i \in 0 .. n |-> IF i = 0 THEN <<>> ELSE Next(g, i)]
    <2> HIDE DEF Next
    <2>1. ASSUME NEW i \in 0 .. n PROVE g[i] = IF i = 0 THEN <<>> ELSE Next(g, i)
      <3>1. CASE i = 0
        BY <1>3, <3>1
      <3>2. CASE i # 0
        <4>1. i \in 1 .. n
          BY <1>1, <3>2
        <4> QED
          BY <1>4, <4>1, <3>2
      <3> QED
        BY <3>1, <3>2
    <2> QED
      BY <2>1, <1>3
  <1>6. PICK f : f = [i \in 0 .. Len(L) |->
                        IF i = 0 THEN <<>>
                        ELSE IF L[i].kind \in kinds THEN f[i - 1] ELSE Append(f[i - 1], L[i])]
                 /\ WithoutKinds(kinds, L) = f[Len(L)]
    BY <1>5, Zenon DEF WithoutKinds
  <1> DEFINE Up(i) == {p \in 1 .. i : L[p].kind \notin kinds}
             P == {i \in 0 .. n : f[i] \in Seq(X) /\ Picked(f[i], L, Up(i))}
  <1>7. f[0] = <<>> /\ \A i \in 1 .. n : f[i] = Next(f, i)
    <2>1. \A i \in 0 .. n : f[i] = IF i = 0 THEN <<>> ELSE Next(f, i)
      BY <1>6, Zenon
    <2> HIDE DEF Next
    <2>2. 0 \in 0 .. n /\ \A i \in 1 .. n : i # 0 /\ i \in 0 .. n
      BY <1>1
    <2> QED
      BY <2>1, <2>2
  <1> HIDE DEF Next, n
  <1>8. 0 \in P
    <2>1. <<>> \in Seq(X) /\ Up(0) = {} /\ Len(<<>>) = 0
      OBVIOUS
    <2>2. Picked(<<>>, L, {})
      <3>1. [k \in 1 .. 0 |-> 0] \in [1 .. 0 -> {}]
        OBVIOUS
      <3> QED
        BY <2>1, <3>1 DEF Picked
    <2>3. 0 \in 0 .. n
      BY <1>1
    <2>4. f[0] \in Seq(X) /\ Picked(f[0], L, Up(0))
      BY <1>7, <2>1, <2>2, Zenon
    <2> QED
      BY <2>3, <2>4
  <1>9. ASSUME NEW i \in 1 .. n, i - 1 \in P PROVE i \in P
    <2>1. f[i - 1] \in Seq(X) /\ Picked(f[i - 1], L, Up(i - 1)) /\ i \in Nat \ {0} /\ L[i] \in X
      BY <1>1, <1>9
    <2>2. CASE L[i].kind \in kinds
      <3>1. Up(i) = Up(i - 1) /\ f[i] = f[i - 1]
        BY <1>1, <1>7, <2>2 DEF Next
      <3> QED
        BY <2>1, <3>1, i \in 0 .. n
    <2>3. CASE L[i].kind \notin kinds
      <3>1. Up(i) = Up(i - 1) \cup {i} /\ f[i] = Append(f[i - 1], L[i])
        <4>1. f[i] = Append(f[i - 1], L[i])
          BY <1>7, <2>3 DEF Next
        <4>2. Up(i) = Up(i - 1) \cup {i}
          BY <1>1, <2>3
        <4> QED
          BY <4>1, <4>2
      <3>2. Up(i - 1) \in SUBSET (1 .. i - 1)
        OBVIOUS
      <3> HIDE DEF Up
      <3>3. Append(f[i - 1], L[i]) \in Seq(X) /\ Picked(Append(f[i - 1], L[i]), L, Up(i - 1) \cup {i})
        BY <2>1, <3>2, PickedOn
      <3> QED
        BY <3>1, <3>3, i \in 0 .. n
    <2> QED
      BY <2>2, <2>3
  <1> HIDE DEF P
  <1>10. n \in P
    <2>1. n \in Nat /\ n \in 0 .. n
      BY <1>1
    <2> QED
      BY <2>1, <1>8, <1>9, UpTo
  <1>11. f[Len(L)] \in Seq(X) /\ Picked(f[Len(L)], L, Up(Len(L)))
    BY <1>10 DEF P, n
  <1> QED
    BY <1>6, <1>11

\* The messages `out' are what L says up to i, from one change of sides to the next:
\* the k-th one begins with the g[k]-th element of L.
RunsTo(g, out, L, i) ==
  /\ g \in [1 .. Len(out) + 1 -> 1 .. i + 1]
  /\ g[1] = 1 /\ g[Len(out) + 1] = i + 1
  /\ \A k \in 1 .. Len(out) :
       /\ g[k] < g[k + 1] /\ Len(out[k].content) = g[k + 1] - g[k]
       /\ \A q \in 1 .. g[k + 1] - g[k] : out[k].content[q] = L[g[k] + q - 1]
       /\ \A p \in g[k] .. g[k + 1] - 1 : WireRole(L[p]) = out[k].role
       /\ k > 1 => out[k].role # out[k - 1].role

Sides == {"user", "assistant"}
WireMessages(X) == [role : Sides, content : Seq(X)]

\* One more element belongs to the last message, ...
LEMMA SameSideGoesOn ==
  ASSUME NEW X, NEW L, NEW i \in Nat \ {0}, NEW m \in X, m = L[i],
         NEW out \in Seq(WireMessages(X)), out # <<>>,
         NEW g, RunsTo(g, out, L, i - 1), out[Len(out)].role = WireRole(m),
         NEW longer, longer = [out EXCEPT ![Len(out)].content = Append(@, m)]
  PROVE  longer \in Seq(WireMessages(X)) /\ \E h : RunsTo(h, longer, L, i)
  <1> DEFINE n == Len(out)
             last == out[n]
             grown == [last EXCEPT !.content = Append(@, m)]
             new == [out EXCEPT ![n] = grown]
             h == [k \in 1 .. n + 1 |-> IF k = n + 1 THEN i + 1 ELSE g[k]]
  <1>1. n \in Nat \ {0} /\ (\A k \in 1 .. n : out[k] \in WireMessages(X))
    <2>1. Len(out) \in Nat \ {0}
      BY EmptySeq
    <2>2. \A k \in 1 .. Len(out) : out[k] \in WireMessages(X)
      BY ElementOfSeq
    <2> QED
      BY <2>1, <2>2
  <1>2. last \in WireMessages(X) /\ last.content \in Seq(X) /\ n \in 1 .. n
    BY <1>1 DEF WireMessages
  <1>3. /\ grown \in WireMessages(X) /\ grown.role = last.role
        /\ grown.content = Append(last.content, m)
    <2>1. Append(last.content, m) \in Seq(X)
      BY <1>2, AppendProperties
    <2> QED
      BY <1>2, <2>1 DEF WireMessages
  <1>4. /\ Append(last.content, m) \in Seq(X)
        /\ Len(Append(last.content, m)) = Len(last.content) + 1
        /\ \A q \in 1 .. Len(last.content) : Append(last.content, m)[q] = last.content[q]
        /\ Append(last.content, m)[Len(last.content) + 1] = m
    BY <1>2, AppendProperties
  <1>5. /\ new \in Seq(WireMessages(X)) /\ Len(new) = n
        /\ \A k \in 1 .. n : new[k] = IF k = n THEN grown ELSE out[k]
    <2> HIDE DEF grown
    <2> QED
      BY <1>2, <1>3, ExceptSeq
  <1>6. new = longer
    OBVIOUS
  <1> HIDE DEF new, grown, n, last
  <1>7. /\ g \in [1 .. n + 1 -> 1 .. i] /\ g[1] = 1 /\ g[n + 1] = i
        /\ \A k \in 1 .. n :
             /\ g[k] < g[k + 1] /\ Len(out[k].content) = g[k + 1] - g[k]
             /\ \A q \in 1 .. g[k + 1] - g[k] : out[k].content[q] = L[g[k] + q - 1]
             /\ \A p \in g[k] .. g[k + 1] - 1 : WireRole(L[p]) = out[k].role
             /\ k > 1 => out[k].role # out[k - 1].role
    BY DEF RunsTo, n
  <1>8. h \in [1 .. n + 1 -> 1 .. i + 1] /\ h[1] = 1 /\ h[n + 1] = i + 1
    BY <1>1, <1>7
  <1>9. \A k \in 1 .. n : h[k] = g[k] /\ h[k] \in 1 .. i /\ (k < n => h[k + 1] = g[k + 1])
    BY <1>1, <1>7
  <1>10. last = out[n] /\ last.role = WireRole(m)
    BY DEF last, n
  <1> HIDE DEF h
  <1>11. ASSUME NEW k \in 1 .. n
         PROVE  /\ h[k] < h[k + 1] /\ Len(new[k].content) = h[k + 1] - h[k]
                /\ \A q \in 1 .. h[k + 1] - h[k] : new[k].content[q] = L[h[k] + q - 1]
                /\ \A p \in h[k] .. h[k + 1] - 1 : WireRole(L[p]) = new[k].role
                /\ k > 1 => new[k].role # new[k - 1].role
    <2>0. k > 1 => new[k].role # new[k - 1].role
      <3>1. \A j \in 1 .. n : new[j].role = out[j].role
        BY <1>3, <1>5, <1>10
      <3>2. k > 1 => k - 1 \in 1 .. n
        BY <1>1
      <3> QED
        BY <3>1, <3>2, <1>7
    <2>1. CASE k < n
      <3>1. new[k] = out[k] /\ h[k + 1] = g[k + 1] /\ h[k] = g[k]
        BY <1>1, <1>5, <1>9, <2>1
      <3> QED
        BY <3>1, <1>7, <2>0
    <2>2. CASE k = n
      <3>1. /\ h[k] = g[n] /\ h[k + 1] = i + 1 /\ g[n] \in 1 .. i /\ g[n] < i
            /\ new[k] = grown /\ Len(last.content) = i - g[n]
        BY <1>1, <1>5, <1>7, <1>8, <1>9, <1>10, <2>2
      <3>2. new[k].content = Append(last.content, m) /\ new[k].role = WireRole(m)
        BY <1>3, <1>10, <3>1
      <3>3. Len(new[k].content) = h[k + 1] - h[k]
        BY <3>1, <3>2, <1>4
      <3>4. ASSUME NEW q \in 1 .. h[k + 1] - h[k] PROVE new[k].content[q] = L[h[k] + q - 1]
        <4>1. CASE q <= i - g[n]
          <5>1. q \in 1 .. Len(last.content) /\ q \in 1 .. g[n + 1] - g[n]
            BY <3>1, <1>7, <4>1
          <5>2. new[k].content[q] = last.content[q] /\ last.content[q] = L[g[n] + q - 1]
            <6>1. new[k].content[q] = last.content[q]
              BY <5>1, <3>2, <1>4
            <6>2. out[n].content[q] = L[g[n] + q - 1]
              BY <5>1, <1>2, <1>7
            <6> QED
              BY <6>1, <6>2, <1>10
          <5> QED
            BY <5>2, <3>1
        <4>2. CASE q = i - g[n] + 1
          <5>1. q = Len(last.content) + 1 /\ h[k] + q - 1 = i
            BY <3>1, <4>2
          <5> QED
            BY <5>1, <3>2, <1>4
        <4>3. q <= i - g[n] \/ q = i - g[n] + 1
          <5> DEFINE b == g[n]
          <5>1. b \in Int /\ i \in Int /\ q \in 1 .. i + 1 - b
            BY <3>1
          <5> HIDE DEF b
          <5>2. q <= i - b \/ q = i - b + 1
            BY <5>1
          <5> QED
            BY <5>2 DEF b
        <4> QED
          BY <4>1, <4>2, <4>3
      <3>5. ASSUME NEW p \in h[k] .. h[k + 1] - 1 PROVE WireRole(L[p]) = new[k].role
        <4>1. CASE p = i
          BY <3>2, <4>1
        <4>2. CASE p # i
          <5>1. p \in g[n] .. g[n + 1] - 1
            BY <3>1, <1>7, <4>2
          <5>2. WireRole(L[p]) = out[n].role
            BY <5>1, <1>2, <1>7
          <5> QED
            BY <5>2, <1>10, <3>2
        <4> QED
          BY <4>1, <4>2
      <3> QED
        BY <3>1, <3>3, <3>4, <3>5, <2>0
    <2> QED
      BY <1>1, <2>1, <2>2
  <1>12. RunsTo(h, new, L, i)
    <2>1. h \in [1 .. Len(new) + 1 -> 1 .. i + 1] /\ h[1] = 1 /\ h[Len(new) + 1] = i + 1
      BY <1>5, <1>8
    <2>2. 1 .. Len(new) = 1 .. n
      BY <1>5
    <2> QED
      BY <1>11, <2>1, <2>2 DEF RunsTo
  <1> QED
    BY <1>5, <1>6, <1>12

\* ... or begins a message of the other side.
LEMMA OtherSideBegins ==
  ASSUME NEW X, NEW L, NEW i \in Nat \ {0}, NEW m \in X, m = L[i],
         NEW out \in Seq(WireMessages(X)),
         NEW g, RunsTo(g, out, L, i - 1), out = <<>> \/ out[Len(out)].role # WireRole(m),
         NEW longer, longer = Append(out, [role |-> WireRole(m), content |-> <<m>>])
  PROVE  longer \in Seq(WireMessages(X)) /\ \E h : RunsTo(h, longer, L, i)
  <1> DEFINE n == Len(out)
             begun == [role |-> WireRole(m), content |-> <<m>>]
             new == Append(out, begun)
             h == [k \in 1 .. n + 2 |-> IF k = n + 2 THEN i + 1 ELSE g[k]]
  <1>1. n \in Nat /\ (n = 0 <=> out = <<>>)
    BY EmptySeq, LenProperties
  <1>2. begun \in WireMessages(X) /\ begun.role = WireRole(m) /\ begun.content = <<m>>
    <2>1. <<m>> \in Seq(X)
      OBVIOUS
    <2> QED
      BY <2>1 DEF WireMessages, Sides, WireRole
  <1>3. Len(begun.content) = 1 /\ begun.content[1] = m
    BY <1>2
  <1> HIDE DEF begun
  <1>4. /\ new \in Seq(WireMessages(X)) /\ Len(new) = n + 1 /\ new[n + 1] = begun
        /\ \A k \in 1 .. n : new[k] = out[k]
    BY <1>2, AppendProperties
  <1> HIDE DEF new, n
  <1>5. /\ g \in [1 .. n + 1 -> 1 .. i] /\ g[1] = 1 /\ g[n + 1] = i
        /\ \A k \in 1 .. n :
             /\ g[k] < g[k + 1] /\ Len(out[k].content) = g[k + 1] - g[k]
             /\ \A q \in 1 .. g[k + 1] - g[k] : out[k].content[q] = L[g[k] + q - 1]
             /\ \A p \in g[k] .. g[k + 1] - 1 : WireRole(L[p]) = out[k].role
             /\ k > 1 => out[k].role # out[k - 1].role
    BY DEF RunsTo, n
  <1>6. h \in [1 .. n + 2 -> 1 .. i + 1] /\ h[1] = 1 /\ h[n + 2] = i + 1 /\ h[n + 1] = i
    BY <1>1, <1>5
  <1>7. \A k \in 1 .. n + 1 : h[k] = g[k] /\ h[k] \in 1 .. i
    BY <1>1, <1>5
  <1> HIDE DEF h
  <1>8. ASSUME NEW k \in 1 .. n + 1
        PROVE  /\ h[k] < h[k + 1] /\ Len(new[k].content) = h[k + 1] - h[k]
               /\ \A q \in 1 .. h[k + 1] - h[k] : new[k].content[q] = L[h[k] + q - 1]
               /\ \A p \in h[k] .. h[k + 1] - 1 : WireRole(L[p]) = new[k].role
               /\ k > 1 => new[k].role # new[k - 1].role
    <2>1. CASE k <= n
      <3>1. k \in 1 .. n /\ new[k] = out[k] /\ h[k + 1] = g[k + 1] /\ h[k] = g[k]
        BY <1>1, <1>4, <1>7, <2>1
      <3>2. k > 1 => new[k - 1] = out[k - 1]
        BY <1>1, <1>4, <3>1
      <3> QED
        BY SMTT(20), <3>1, <3>2, <1>5
    <2>2. CASE k = n + 1
      <3>1. h[k] = i /\ h[k + 1] = i + 1 /\ new[k] = begun
        BY <1>1, <1>4, <1>6, <2>2
      <3>2. k > 1 => new[k].role # new[k - 1].role
        <4>1. k > 1 => k - 1 = n /\ n \in 1 .. n /\ new[k - 1] = out[n]
          BY <1>1, <1>4, <2>2
        <4> QED
          BY <4>1, <3>1, <1>1, <1>2 DEF n
      <3> QED
        BY <3>1, <3>2, <1>2, <1>3
    <2> QED
      BY <1>1, <2>1, <2>2
  <1>9. RunsTo(h, new, L, i)
    <2>1. h \in [1 .. Len(new) + 1 -> 1 .. i + 1] /\ h[1] = 1 /\ h[Len(new) + 1] = i + 1
      BY <1>1, <1>4, <1>6
    <2>2. 1 .. Len(new) = 1 .. n + 1
      BY <1>4
    <2> QED
      BY <1>8, <2>1, <2>2 DEF RunsTo
  <1> QED
    BY <1>4, <1>9 DEF new, begun

\* What Anthropic is sent are the runs of the request.
LEMMA SentInRuns ==
  ASSUME NEW X, NEW L \in Seq(X)
  PROVE  /\ ToAnthropicMessages(L) \in Seq(WireMessages(X))
         /\ \E g : RunsTo(g, ToAnthropicMessages(L), L, Len(L))
  <1> DEFINE n == Len(L)
             S == Seq(WireMessages(X))
             Block(out, m) ==
               IF out # <<>> /\ out[Len(out)].role = WireRole(m)
               THEN [out EXCEPT ![Len(out)].content = Append(@, m)]
               ELSE Append(out, [role |-> WireRole(m), content |-> <<m>>])
             step == [i \in 1 .. n |-> [s \in S |-> Block(s, L[i])]]
  <1>1. n \in Nat /\ \A i \in 1 .. n : L[i] \in X
    BY LenProperties, ElementOfSeq
  <1>2. ASSUME NEW s \in S, NEW m \in X PROVE Block(s, m) \in S
    <2>1. CASE s # <<>> /\ s[Len(s)].role = WireRole(m)
      <3> DEFINE last == s[Len(s)]
                 grown == [last EXCEPT !.content = Append(@, m)]
      <3>1. Len(s) \in 1 .. Len(s) /\ last \in WireMessages(X)
        BY <2>1, EmptySeq, ElementOfSeq
      <3>2. grown \in WireMessages(X)
        <4>1. Append(last.content, m) \in Seq(X)
          BY <3>1, AppendProperties DEF WireMessages
        <4> QED
          BY <3>1, <4>1 DEF WireMessages
      <3>3. [s EXCEPT ![Len(s)] = grown] \in S
        <4> HIDE DEF grown
        <4> QED
          BY <3>1, <3>2, ExceptSeq
      <3>4. Block(s, m) = [s EXCEPT ![Len(s)] = grown]
        BY <2>1
      <3> QED
        BY <3>3, <3>4
    <2>2. CASE ~ (s # <<>> /\ s[Len(s)].role = WireRole(m))
      <3> DEFINE begun == [role |-> WireRole(m), content |-> <<m>>]
      <3>1. begun \in WireMessages(X)
        BY DEF WireMessages, Sides, WireRole
      <3>2. Block(s, m) = Append(s, begun)
        BY <2>2
      <3> HIDE DEF begun, Block
      <3> QED
        BY <3>1, <3>2, AppendProperties
    <2> QED
      BY <2>1, <2>2
  <1>3. PICK g \in [0 .. n -> S] : Solves(g, n, <<>>, step)
    <2> DEFINE a == <<>>
    <2>1. n \in Nat /\ a \in S /\ step \in [1 .. n -> [S -> S]]
      <3> HIDE DEF Block, S
      <3>1. \A i \in 1 .. n, s \in S : Block(s, L[i]) \in S
        BY <1>1, <1>2
      <3>2. a \in S
        BY DEF S
      <3> HIDE DEF a, n
      <3>3. step \in [1 .. n -> [S -> S]]
        BY <3>1
      <3> QED
        BY <1>1, <3>2, <3>3
    <2> HIDE DEF step, n, S, a
    <2>2. \E f \in [0 .. n -> S] : Solves(f, n, a, step)
      BY <2>1, Recursion
    <2> QED
      BY <2>2 DEF a
  <1> HIDE DEF S
  <1>4. ASSUME NEW i \in 0 .. n PROVE g[i] = IF i = 0 THEN <<>> ELSE Block(g[i - 1], L[i])
    <2> HIDE DEF Block
    <2>1. CASE i = 0
      BY <1>3, <2>1 DEF Solves
    <2>2. CASE i # 0
      <3>1. i \in 1 .. n /\ i - 1 \in 0 .. n
        BY <1>1, <2>2
      <3>2. g[i - 1] \in S
        BY <3>1
      <3>3. g[i] = step[i][g[i - 1]]
        BY <3>1, <1>3 DEF Solves
      <3>4. step[i][g[i - 1]] = Block(g[i - 1], L[i])
        BY <3>1, <3>2
      <3> QED
        BY <2>2, <3>3, <3>4
    <2> QED
      BY <2>1, <2>2
  <1>5. g = [i \in 0 .. Len(L) |-> IF i = 0 THEN <<>> ELSE Block(g[i - 1], L[i])]
    <2> HIDE DEF Block
    <2> QED
      BY <1>3, <1>4
  <1>6. PICK f : f = [i \in 0 .. Len(L) |-> IF i = 0 THEN <<>> ELSE Block(f[i - 1], L[i])]
                 /\ ToAnthropicMessages(L) = f[Len(L)]
    BY <1>5, Zenon DEF ToAnthropicMessages
  <1> DEFINE P == {i \in 0 .. n : f[i] \in S /\ \E h : RunsTo(h, f[i], L, i)}
  <1>7. f[0] = <<>> /\ \A i \in 1 .. n : f[i] = Block(f[i - 1], L[i])
    <2> HIDE DEF Block
    <2>1. \A i \in 0 .. n : f[i] = IF i = 0 THEN <<>> ELSE Block(f[i - 1], L[i])
      BY <1>6, Zenon
    <2>2. 0 \in 0 .. n /\ \A i \in 1 .. n : i # 0 /\ i \in 0 .. n
      BY <1>1
    <2> QED
      BY <2>1, <2>2
  <1> HIDE DEF n
  <1>8. 0 \in P
    <2> DEFINE h == [k \in 1 .. 1 |-> 1]
               a == <<>>
    <2>1. h \in [1 .. 0 + 1 -> 1 .. 0 + 1] /\ h[1] = 1 /\ a \in S /\ Len(a) = 0
      BY DEF S
    <2> HIDE DEF h
    <2>2. RunsTo(h, a, L, 0)
      BY <2>1 DEF RunsTo
    <2>3. f[0] = a /\ 0 \in 0 .. n
      BY <1>1, <1>7
    <2> HIDE DEF a
    <2> QED
      BY <2>1, <2>2, <2>3
  <1>9. ASSUME NEW i \in 1 .. n, i - 1 \in P PROVE i \in P
    <2>1. f[i - 1] \in S /\ i \in Nat \ {0} /\ i \in 0 .. n /\ L[i] \in X
      BY <1>1, <1>9
    <2>2. PICK h : RunsTo(h, f[i - 1], L, i - 1)
      BY <1>9
    <2> DEFINE out == f[i - 1]
               m == L[i]
    <2>3. f[i] = Block(out, m)
      BY <1>7
    <2>4. out \in Seq(WireMessages(X)) /\ m \in X /\ m = L[i] /\ RunsTo(h, out, L, i - 1)
      BY <2>1, <2>2 DEF S
    <2> HIDE DEF out, m
    <2>5. Block(out, m) \in Seq(WireMessages(X)) /\ \E e : RunsTo(e, Block(out, m), L, i)
      <3>1. CASE out # <<>> /\ out[Len(out)].role = WireRole(m)
        <4>1. Block(out, m) = [out EXCEPT ![Len(out)].content = Append(@, m)]
          BY <3>1
        <4> DEFINE B == Block(out, m)
        <4>2. B = [out EXCEPT ![Len(out)].content = Append(@, m)]
          BY <4>1
        <4> HIDE DEF B
        <4>3. B \in Seq(WireMessages(X)) /\ \E e : RunsTo(e, B, L, i)
          BY <2>1, <2>4, <3>1, <4>2, SameSideGoesOn
        <4> QED
          BY <4>3 DEF B
      <3>2. CASE ~ (out # <<>> /\ out[Len(out)].role = WireRole(m))
        <4>1. Block(out, m) = Append(out, [role |-> WireRole(m), content |-> <<m>>])
          BY <3>2
        <4> DEFINE B == Block(out, m)
        <4>2. B = Append(out, [role |-> WireRole(m), content |-> <<m>>])
          BY <4>1
        <4> HIDE DEF B
        <4>3. B \in Seq(WireMessages(X)) /\ \E e : RunsTo(e, B, L, i)
          BY <2>1, <2>4, <3>2, <4>2, OtherSideBegins
        <4> QED
          BY <4>3 DEF B
      <3> QED
        BY <3>1, <3>2
    <2> HIDE DEF Block
    <2>6. f[i] \in S /\ \E e : RunsTo(e, f[i], L, i)
      BY <2>3, <2>5 DEF S
    <2> QED
      BY <2>1, <2>6
  <1> HIDE DEF P
  <1>10. n \in P
    BY <1>1, <1>8, <1>9, UpTo, n \in 0 .. n
  <1>11. f[Len(L)] \in S /\ \E h : RunsTo(h, f[Len(L)], L, Len(L))
    BY <1>10 DEF P, n
  <1> QED
    BY <1>6, <1>11 DEF S

-----------------------------------------------------------------------------
\* A request that is accepted

Kinds == {"user", "text", "signature", "call", "result", "boundary", "summary"}

Messages == [turn : Nat, step : Nat, call : Nat, kind : Kinds, size : Nat, pos : Nat,
             covers : SUBSET Nat]

IsExchange(m) == m.kind \in {"call", "result"}

\* Of two calls or results the first one is of an earlier step; if of the same step,
\* it is not a result before a call.
Precedes(x, y) ==
  \/ x.turn < y.turn
  \/ x.turn = y.turn /\ \/ x.step < y.step
                        \/ x.step = y.step /\ ~ (x.kind = "result" /\ y.kind = "call")

ExchangesInOrder(L) ==
  \A i, j \in 1 .. Len(L) : i < j /\ IsExchange(L[i]) /\ IsExchange(L[j]) => Precedes(L[i], L[j])

LEMMA PendingIs ==
  ASSUME NEW L, NEW i, NEW x
  PROVE  x \in Pending(L, i) <=>
           \E j \in 1 .. i - 1 :
             /\ L[j].kind = "call" /\ CallId(L[j]) = x
             /\ \A k \in j + 1 .. i - 1 : L[k].kind = "result" => CallId(L[k]) # x
  BY DEF Pending

\* While a call waits for its result, no other one's result comes before a call.
LEMMA NoResultBetween ==
  ASSUME NEW L \in Seq(Messages), ExchangesInOrder(L), Accepted(L),
         NEW i \in 1 .. Len(L), NEW j \in 1 .. Len(L), i < j,
         L[i].kind = "call", L[j].kind = "call",
         \A k \in i + 1 .. j - 1 : L[k].kind = "result" => CallId(L[k]) # CallId(L[i])
  PROVE  \A k \in i + 1 .. j - 1 : L[k].kind # "result"
  <1> SUFFICES ASSUME NEW k \in i + 1 .. j - 1, L[k].kind = "result" PROVE FALSE
    OBVIOUS
  <1>1. Len(L) \in Nat /\ \A p \in 1 .. Len(L) : L[p] \in Messages
    BY LenProperties, ElementOfSeq
  <1>2. PICK r \in i + 1 .. Len(L) : L[r].kind = "result" /\ CallId(L[r]) = CallId(L[i])
    <2>1. CallId(L[i]) \notin Pending(L, Len(L) + 1)
      BY DEF Accepted
    <2>2. i \in 1 .. (Len(L) + 1) - 1 /\ i + 1 .. (Len(L) + 1) - 1 = i + 1 .. Len(L)
      BY <1>1
    <2>3. ~ \A k2 \in i + 1 .. (Len(L) + 1) - 1 : L[k2].kind = "result" => CallId(L[k2]) # CallId(L[i])
      BY <2>1, <2>2, PendingIs
    <2> QED
      BY <2>2, <2>3
  <1>3. r > j
    BY <1>1, <1>2
  <1>4. k \in 1 .. Len(L) /\ r \in 1 .. Len(L)
    BY <1>1, <1>2
  <1>5. Precedes(L[i], L[k]) /\ Precedes(L[k], L[j]) /\ Precedes(L[j], L[r])
    BY <1>1, <1>2, <1>3, <1>4 DEF ExchangesInOrder, IsExchange
  <1>6. L[r].turn = L[i].turn /\ L[r].step = L[i].step
    BY <1>2 DEF CallId
  <1>7. L[i] \in Messages /\ L[j] \in Messages /\ L[k] \in Messages /\ L[r] \in Messages
    BY <1>1, <1>4
  <1>8. /\ L[i].turn \in Nat /\ L[i].step \in Nat /\ L[j].turn \in Nat /\ L[j].step \in Nat
        /\ L[k].turn \in Nat /\ L[k].step \in Nat
    BY <1>7 DEF Messages
  <1>9. L[k].turn = L[i].turn /\ L[j].turn = L[i].turn
    BY SMTT(20), <1>5, <1>6, <1>8 DEF Precedes
  <1>10. L[k].step = L[i].step /\ L[j].step = L[i].step
    BY SMTT(20), <1>5, <1>6, <1>8, <1>9 DEF Precedes
  <1> QED
    BY <1>5, <1>8, <1>9, <1>10 DEF Precedes

\* What one side says in a row, with calls in it, is followed at once by as many
\* results as there are calls, which are theirs.
LEMMA AnsweredAtOnce ==
  ASSUME NEW L \in Seq(Messages), ExchangesInOrder(L), Accepted(L),
         NEW a \in 1 .. Len(L), NEW b \in a .. Len(L),
         \A p \in a .. b : WireRole(L[p]) = "assistant",
         a > 1 => WireRole(L[a - 1]) = "user", b < Len(L) => WireRole(L[b + 1]) = "user",
         NEW c \in a .. b, L[c].kind = "call",
         NEW calls, calls = {CallId(L[p]) : p \in {p \in a .. b : L[p].kind = "call"}}
  PROVE  /\ Cardinality(calls) \in Nat \ {0}
         /\ b + Cardinality(calls) <= Len(L)
         /\ \A p \in b + 1 .. b + Cardinality(calls) : L[p].kind = "result"
         /\ {CallId(L[p]) : p \in b + 1 .. b + Cardinality(calls)} = calls
  <1> DEFINE n == Len(L)
  <1>1. n \in Nat
    BY LenProperties
  <1>2. a \in Nat \ {0} /\ b \in Nat /\ c \in Nat /\ a <= c /\ c <= b /\ b <= n
    BY <1>1
  <1>3. /\ \A i \in 1 .. n : \/ L[i].kind = "call"
                             \/ L[i].kind = "result" /\ CallId(L[i]) \in Pending(L, i)
                             \/ L[i].kind \notin {"call", "result"} /\ Pending(L, i) = {}
        /\ Pending(L, n + 1) = {}
    <2>1. DOMAIN L = 1 .. n
      BY LenProperties
    <2> QED
      BY <2>1 DEF Accepted
  <1> HIDE DEF n
  <1>4. \A p \in a .. b : L[p].kind # "result"
    BY DEF WireRole
  \* Every call of the row is still open after it, ...
  <1>5. ASSUME NEW p \in a .. b, L[p].kind = "call" PROVE CallId(L[p]) \in Pending(L, b + 1)
    <2>1. p \in 1 .. (b + 1) - 1 /\ \A k \in p + 1 .. (b + 1) - 1 : L[k].kind # "result"
      BY <1>2, <1>4
    <2> QED
      BY <1>5, <2>1, PendingIs
  \* ... and nothing else is, since an earlier call would have been answered before.
  <1>6. Pending(L, b + 1) = calls
    <2>1. calls \subseteq Pending(L, b + 1)
      BY <1>5
    <2>2. ASSUME NEW x \in Pending(L, b + 1) PROVE x \in calls
      <3>1. PICK i \in 1 .. (b + 1) - 1 :
              /\ L[i].kind = "call" /\ CallId(L[i]) = x
              /\ \A k \in i + 1 .. (b + 1) - 1 : L[k].kind = "result" => CallId(L[k]) # x
        BY PendingIs
      <3>2. CASE i >= a
        <4>1. i \in a .. b
          BY <1>2, <3>1, <3>2
        <4> QED
          BY <3>1, <4>1
      <3>3. CASE i < a
        <4>1. a - 1 \in 1 .. n /\ i \in 1 .. n /\ c \in 1 .. n /\ i < c /\ a > 1 /\ i <= a - 1
          BY <1>1, <1>2, <3>1, <3>3
        <4>2. WireRole(L[a - 1]) = "user"
          BY <4>1
        <4>3. i # a - 1 /\ L[a - 1].kind # "call"
          BY <3>1, <4>2 DEF WireRole
        <4>4. a - 1 \in i + 1 .. c - 1 /\ i \in 1 .. (a - 1) - 1
          BY <4>1, <4>3, <1>2
        <4>5. x \in Pending(L, a - 1)
          <5>1. \A k \in i + 1 .. (a - 1) - 1 : L[k].kind = "result" => CallId(L[k]) # x
            BY <3>1, <4>1, <1>2
          <5> DEFINE d == a - 1
          <5>2. \E j \in 1 .. d - 1 :
                  /\ L[j].kind = "call" /\ CallId(L[j]) = x
                  /\ \A k \in j + 1 .. d - 1 : L[k].kind = "result" => CallId(L[k]) # x
            BY <3>1, <4>4, <5>1
          <5> HIDE DEF d
          <5>3. x \in Pending(L, d)
            BY <5>2, PendingIs
          <5> QED
            BY <5>3 DEF d
        <4>6. L[a - 1].kind = "result"
          BY <4>1, <4>3, <4>5, <1>3
        <4>7. \A k \in i + 1 .. c - 1 : L[k].kind = "result" => CallId(L[k]) # CallId(L[i])
          BY <3>1, <1>2
        <4>8. \A k \in i + 1 .. c - 1 : L[k].kind # "result"
          BY <3>1, <4>1, <4>7, NoResultBetween DEF n
        <4> QED
          BY <4>4, <4>6, <4>8
      <3> QED
        BY <3>2, <3>3, <1>2
    <2> QED
      BY <2>1, <2>2
  <1>7. CallId(L[c]) \in calls
    OBVIOUS
  <1>8. b < n
    <2>1. b = n => Pending(L, b + 1) = Pending(L, n + 1)
      OBVIOUS
    <2>2. Pending(L, n + 1) = {}
      BY <1>3
    <2>3. b # n
      BY <2>1, <2>2, <1>6, <1>7, Zenon
    <2> QED
      BY <2>3, <1>1, <1>2
  \* The results that follow go on up to e.
  <1> DEFINE Ends == {e \in b + 1 .. n + 1 : e = n + 1 \/ L[e].kind # "result"}
  <1>9. PICK e \in Ends : \A f \in Ends : e <= f
    <2>1. n + 1 \in Ends /\ Ends \in SUBSET Nat
      BY <1>1, <1>2
    <2> HIDE DEF Ends
    <2> QED
      BY <2>1, LeastNumber
  <1>10. e \in b + 1 .. n + 1 /\ \A p \in b + 1 .. e - 1 : p \in 1 .. n /\ L[p].kind = "result"
    BY <1>1, <1>2, <1>9
  <1>11. e > b + 1
    <2>1. WireRole(L[b + 1]) = "user" /\ L[b + 1].kind # "call" /\ b + 1 \in 1 .. n
      BY <1>1, <1>2, <1>8 DEF WireRole, n
    <2>2. L[b + 1].kind = "result"
      BY <2>1, <1>3, <1>6, <1>7
    <2> QED
      BY <2>2, <1>1, <1>2, <1>8, <1>9
  <1> HIDE DEF Ends
  \* Where they end nothing is open: what comes there is no result, and a call would
  \* come after a result and before another one of an earlier step.
  <1>12. Pending(L, e) = {}
    <2> SUFFICES ASSUME NEW x \in Pending(L, e) PROVE FALSE
      OBVIOUS
    <2>1. e \in 1 .. n /\ L[e].kind # "result"
      <3>1. e = n + 1 \/ L[e].kind # "result"
        BY <1>9 DEF Ends
      <3>2. e # n + 1
        BY <1>3
      <3> QED
        BY <3>1, <3>2, <1>1, <1>2, <1>10
    <2>2. L[e].kind = "call"
      BY <2>1, <1>3
    <2>3. PICK i \in 1 .. e - 1 :
            /\ L[i].kind = "call" /\ CallId(L[i]) = x
            /\ \A k \in i + 1 .. e - 1 : L[k].kind = "result" => CallId(L[k]) # x
      BY PendingIs
    <2>4. i \in 1 .. n /\ i < e
      BY <2>1, <1>1
    <2>5. \A k \in i + 1 .. e - 1 : L[k].kind # "result"
      BY <2>1, <2>2, <2>3, <2>4, NoResultBetween DEF n
    <2>6. e - 1 \in b + 1 .. e - 1 /\ L[e - 1].kind = "result"
      BY <1>10, <1>11, <1>2
    <2>7. i # e - 1
      BY <2>3, <2>6
    <2> QED
      BY <2>4, <2>5, <2>6, <2>7, <1>2
  \* So each call has its result there, and each result is of one of the calls, ...
  <1>13. ASSUME NEW x \in calls PROVE \E p \in b + 1 .. e - 1 : CallId(L[p]) = x
    <2>1. PICK i \in 1 .. (b + 1) - 1 :
            /\ L[i].kind = "call" /\ CallId(L[i]) = x
            /\ \A k \in i + 1 .. (b + 1) - 1 : L[k].kind = "result" => CallId(L[k]) # x
      <3>1. x \in Pending(L, b + 1)
        BY <1>6
      <3> HIDE DEF n
      <3> QED
        BY <3>1, PendingIs
    <2>2. i \in 1 .. e - 1
      BY <1>2, <1>10, <2>1
    <2>3. PICK k \in i + 1 .. e - 1 : L[k].kind = "result" /\ CallId(L[k]) = x
      <3>1. x \notin Pending(L, e)
        BY <1>12
      <3> QED
        BY <2>1, <2>2, <3>1, PendingIs
    <2>4. k \in b + 1 .. e - 1
      BY <2>1, <2>3, <1>2, <1>10
    <2> QED
      BY <2>3, <2>4
  <1>14. ASSUME NEW p \in b + 1 .. e - 1
         PROVE  /\ CallId(L[p]) \in calls
                /\ \A q \in b + 1 .. p - 1 : CallId(L[q]) # CallId(L[p])
    <2>1. p \in 1 .. n /\ L[p].kind = "result" /\ CallId(L[p]) \in Pending(L, p)
      BY <1>3, <1>10
    <2>2. PICK i \in 1 .. p - 1 :
            /\ L[i].kind = "call" /\ CallId(L[i]) = CallId(L[p])
            /\ \A k \in i + 1 .. p - 1 : L[k].kind = "result" => CallId(L[k]) # CallId(L[p])
      BY <2>1, PendingIs
    <2>3. i <= b
      <3>1. i \notin b + 1 .. e - 1
        BY <2>2, <1>10
      <3> QED
        BY <3>1, <1>2, <1>10
    <2>4. CallId(L[p]) \in Pending(L, b + 1)
      <3>1. i \in 1 .. (b + 1) - 1 /\ i + 1 .. (b + 1) - 1 \subseteq i + 1 .. p - 1
        BY <2>3, <1>2, <1>10
      <3> QED
        BY <2>2, <3>1, PendingIs
    <2>5. \A q \in b + 1 .. p - 1 : q \in i + 1 .. p - 1 /\ L[q].kind = "result"
      BY <2>3, <1>2, <1>10
    <2> QED
      BY <2>2, <2>4, <2>5, <1>6
  \* ... a different one each.
  <1> DEFINE Of == [p \in b + 1 .. e - 1 |-> CallId(L[p])]
  <1>15. IsFiniteSet(b + 1 .. e - 1) /\ Cardinality(b + 1 .. e - 1) = e - 1 - b
    <2>1. b + 1 \in Int /\ e - 1 \in Int /\ b + 1 <= e - 1 /\ (e - 1) - (b + 1) + 1 = e - 1 - b
      BY <1>2, <1>10, <1>11
    <2> QED
      BY <2>1, FS_Interval
  <1>16. Of \in Bijection(b + 1 .. e - 1, calls)
    <2>1. Of \in [b + 1 .. e - 1 -> calls]
      BY <1>14
    <2>2. \A x \in calls : \E p \in b + 1 .. e - 1 : Of[p] = x
      BY <1>13
    <2>3. ASSUME NEW p \in b + 1 .. e - 1, NEW q \in b + 1 .. e - 1, Of[p] = Of[q] PROVE p = q
      <3>1. p \in Int /\ q \in Int /\ CallId(L[p]) = CallId(L[q])
        BY <2>3
      <3>2. ~ (p < q)
        <4>1. p < q => p \in b + 1 .. q - 1
          BY <3>1, <1>2
        <4> QED
          BY <4>1, <3>1, <1>14
      <3>3. ~ (q < p)
        <4>1. q < p => q \in b + 1 .. p - 1
          BY <3>1, <1>2
        <4> QED
          BY <4>1, <3>1, <1>14
      <3> QED
        BY <3>1, <3>2, <3>3
    <2> HIDE DEF Of
    <2> QED
      BY <2>1, <2>2, <2>3, Fun_IsBij
  <1>17. Cardinality(calls) = e - 1 - b
    BY <1>15, <1>16, FS_Bijection DEF ExistsBijection
  <1>18. b + Cardinality(calls) = e - 1
    BY <1>17, <1>2, <1>10
  <1>19. {CallId(L[p]) : p \in b + 1 .. e - 1} = calls
    <2>1. \A p \in b + 1 .. e - 1 : CallId(L[p]) \in calls
      BY <1>14
    <2>2. \A x \in calls : \E p \in b + 1 .. e - 1 : CallId(L[p]) = x
      BY <1>13
    <2> QED
      BY <2>1, <2>2, Zenon
  <1>20. Cardinality(calls) \in Nat \ {0} /\ e - 1 <= n
    BY <1>17, <1>1, <1>2, <1>10, <1>11
  <1> QED
    BY <1>10, <1>18, <1>19, <1>20 DEF n

IdsOf(list, kind) == {CallId(list[i]) : i \in {i \in DOMAIN list : list[i].kind = kind}}

\* What Anthropic is sent of a request that is accepted is well-formed.
WireWhole(wire) ==
  \A k \in DOMAIN wire, calls \in {IdsOf(wire[j].content, "call") : j \in DOMAIN wire} :
    calls = IdsOf(wire[k].content, "call") =>
      /\ k > 1 => wire[k].role # wire[k - 1].role
      /\ calls # {} =>
           /\ k < Len(wire) /\ Len(wire[k + 1].content) >= Cardinality(calls)
           /\ IdsOf(SubSeq(wire[k + 1].content, 1, Cardinality(calls)), "result") = calls

LEMMA WireIsAnswered ==
  ASSUME NEW L \in Seq(Messages), ExchangesInOrder(L), Accepted(L)
  PROVE  WireWhole(ToAnthropicMessages(L))
  <1> SUFFICES ASSUME NEW wire, wire = ToAnthropicMessages(L) PROVE WireWhole(wire)
    OBVIOUS
  <1> SUFFICES ASSUME NEW k \in DOMAIN wire, NEW calls, calls = IdsOf(wire[k].content, "call")
               PROVE  /\ k > 1 => wire[k].role # wire[k - 1].role
                      /\ calls # {} =>
                           /\ k < Len(wire) /\ Len(wire[k + 1].content) >= Cardinality(calls)
                           /\ IdsOf(SubSeq(wire[k + 1].content, 1, Cardinality(calls)), "result") = calls
    BY ZenonT(40) DEF WireWhole
  <1> DEFINE W == Len(wire)
             n == Len(L)
  <1>1. wire \in Seq(WireMessages(Messages)) /\ n \in Nat
    BY SentInRuns, LenProperties
  <1>2. PICK g : RunsTo(g, wire, L, n)
    BY SentInRuns
  <1>3. W \in Nat /\ k \in 1 .. W
    BY <1>1, LenProperties
  <1>4. \A j \in 1 .. W : wire[j].role \in Sides /\ wire[j].content \in Seq(Messages)
    <2>1. \A j \in 1 .. W : wire[j] \in WireMessages(Messages)
      BY <1>1, ElementOfSeq
    <2> QED
      BY <2>1 DEF WireMessages
  <1>5. g \in [1 .. W + 1 -> 1 .. n + 1] /\ g[1] = 1 /\ g[W + 1] = n + 1
    BY <1>2 DEF RunsTo
  <1>6. ASSUME NEW j \in 1 .. W
        PROVE  /\ g[j] \in 1 .. n /\ g[j + 1] - 1 \in g[j] .. n /\ g[j + 1] \in Int
               /\ Len(wire[j].content) = g[j + 1] - g[j]
               /\ \A q \in 1 .. g[j + 1] - g[j] : wire[j].content[q] = L[g[j] + q - 1]
               /\ \A p \in g[j] .. g[j + 1] - 1 : WireRole(L[p]) = wire[j].role
               /\ j > 1 => wire[j].role # wire[j - 1].role
    <2>1. /\ g[j] < g[j + 1] /\ Len(wire[j].content) = g[j + 1] - g[j]
          /\ \A q \in 1 .. g[j + 1] - g[j] : wire[j].content[q] = L[g[j] + q - 1]
          /\ \A p \in g[j] .. g[j + 1] - 1 : WireRole(L[p]) = wire[j].role
          /\ j > 1 => wire[j].role # wire[j - 1].role
      BY <1>2 DEF RunsTo
    <2>2. j \in 1 .. W + 1 /\ j + 1 \in 1 .. W + 1
      BY <1>3
    <2>3. g[j] \in 1 .. n + 1 /\ g[j + 1] \in 1 .. n + 1
      BY <1>5, <2>2
    <2>4. g[j] \in 1 .. n /\ g[j + 1] - 1 \in g[j] .. n /\ g[j + 1] \in Int
      BY SMTT(20), <2>1, <2>3, <1>1
    <2> QED
      BY <2>1, <2>4
  <1> HIDE DEF W, n
  \* The message after the one that ends with b is of the other side.
  <1>7. ASSUME NEW j \in 1 .. W, g[j + 1] - 1 < n
        PROVE  /\ j < W /\ wire[j + 1].role # wire[j].role
               /\ WireRole(L[g[j + 1]]) = wire[j + 1].role
    <2>1. j < W
      <3>1. j = W => g[j + 1] = n + 1
        BY <1>5
      <3> QED
        BY <3>1, <1>1, <1>3, <1>6, <1>7
    <2>2. j + 1 \in 1 .. W /\ j + 1 > 1 /\ (j + 1) - 1 = j
      BY <2>1, <1>3
    <2>3. g[j + 1] \in g[j + 1] .. g[(j + 1) + 1] - 1
      BY <2>2, <1>6
    <2>4. wire[j + 1].role # wire[j].role /\ WireRole(L[g[j + 1]]) = wire[j + 1].role
      BY <2>2, <2>3, <1>6
    <2> QED
      BY <2>1, <2>4
  <1>8. k > 1 => wire[k].role # wire[k - 1].role
    BY <1>3, <1>6
  <1>9. ASSUME calls # {}
        PROVE  /\ k < W /\ Len(wire[k + 1].content) >= Cardinality(calls)
               /\ IdsOf(SubSeq(wire[k + 1].content, 1, Cardinality(calls)), "result") = calls
    <2> DEFINE a == g[k]
               b == g[k + 1] - 1
               content == wire[k].content
    <2>1. /\ a \in 1 .. n /\ b \in a .. n /\ Len(content) = b + 1 - a
          /\ \A q \in 1 .. b + 1 - a : content[q] = L[a + q - 1]
          /\ \A p \in a .. b : WireRole(L[p]) = wire[k].role
          /\ b + 1 = g[k + 1]
      <3>1. /\ g[k] \in 1 .. n /\ g[k + 1] - 1 \in g[k] .. n /\ g[k + 1] \in Int
            /\ Len(content) = g[k + 1] - g[k]
            /\ \A q \in 1 .. g[k + 1] - g[k] : content[q] = L[g[k] + q - 1]
            /\ \A p \in g[k] .. g[k + 1] - 1 : WireRole(L[p]) = wire[k].role
        BY <1>3, <1>6
      <3>2. b + 1 = g[k + 1]
        <4> DEFINE e == g[k + 1]
        <4>1. e \in Int /\ b = e - 1
          BY <3>1
        <4> HIDE DEF e, b
        <4>2. b + 1 = e
          BY <4>1
        <4> QED
          BY <4>2 DEF e
      <3> QED
        BY <3>1, <3>2
    <2>2. DOMAIN content = 1 .. b + 1 - a
      BY <2>1, <1>3, <1>4, LenProperties
    <2>3. a \in Int /\ b \in Int
      BY <2>1, <1>1
    <2>4. calls = {CallId(L[p]) : p \in {p \in a .. b : L[p].kind = "call"}}
      <3> HIDE DEF a, b, content
      <3>1. ASSUME NEW x \in calls PROVE \E p \in a .. b : L[p].kind = "call" /\ CallId(L[p]) = x
        <4>1. PICK q \in 1 .. b + 1 - a : content[q].kind = "call" /\ CallId(content[q]) = x
          BY <2>2 DEF IdsOf, content
        <4>2. a + q - 1 \in a .. b /\ content[q] = L[a + q - 1]
          BY <2>1, <2>3
        <4> QED
          BY <4>1, <4>2
      <3>2. ASSUME NEW p \in a .. b, L[p].kind = "call" PROVE CallId(L[p]) \in calls
        <4>1. p - a + 1 \in 1 .. b + 1 - a /\ a + (p - a + 1) - 1 = p
          BY <2>3
        <4>2. content[p - a + 1] = L[p]
          BY <2>1, <4>1
        <4> QED
          BY <2>2, <4>1, <4>2, <3>2 DEF IdsOf, content
      <3> QED
        BY <3>1, <3>2
    <2>5. PICK c \in a .. b : L[c].kind = "call"
      BY <1>9, <2>4
    <2>6. wire[k].role = "assistant"
      BY <2>1, <2>5 DEF WireRole
    <2>7. \A p \in a .. b : WireRole(L[p]) = "assistant"
      BY <2>1, <2>6
    <2>8. a > 1 => WireRole(L[a - 1]) = "user"
      <3> SUFFICES ASSUME a > 1 PROVE WireRole(L[a - 1]) = "user"
        OBVIOUS
      <3>1. k # 1
        BY <1>5
      <3>2. k - 1 \in 1 .. W /\ k > 1 /\ (k - 1) + 1 = k
        BY <3>1, <1>3
      <3>3. a - 1 \in g[k - 1] .. g[(k - 1) + 1] - 1
        BY <3>2, <2>3, <1>6
      <3>4. WireRole(L[a - 1]) = wire[k - 1].role
        BY <3>2, <3>3, <1>6
      <3>5. wire[k - 1].role # "assistant" /\ wire[k - 1].role \in Sides
        BY <3>2, <1>4, <1>8, <2>6
      <3> QED
        BY <3>4, <3>5 DEF Sides
    <2>9. b < n => WireRole(L[b + 1]) = "user"
      <3> SUFFICES ASSUME b < n PROVE WireRole(L[b + 1]) = "user"
        OBVIOUS
      <3>1. k < W /\ wire[k + 1].role # wire[k].role /\ WireRole(L[g[k + 1]]) = wire[k + 1].role
        BY <1>3, <1>7
      <3>2. b + 1 = g[k + 1] /\ k + 1 \in 1 .. W
        BY <3>1, <1>3, <2>1
      <3> QED
        BY <3>1, <3>2, <2>6, <1>4 DEF Sides
    <2> DEFINE s == Cardinality(calls)
    <2>10. /\ s \in Nat \ {0} /\ b + s <= n
           /\ \A p \in b + 1 .. b + s : L[p].kind = "result"
           /\ {CallId(L[p]) : p \in b + 1 .. b + s} = calls
      <3>1. a \in 1 .. Len(L) /\ b \in a .. Len(L) /\ (b < Len(L) => WireRole(L[b + 1]) = "user")
        BY <2>1, <2>9 DEF n
      <3> HIDE DEF a, b
      <3>2. /\ Cardinality(calls) \in Nat \ {0} /\ b + Cardinality(calls) <= Len(L)
            /\ \A p \in b + 1 .. b + Cardinality(calls) : L[p].kind = "result"
            /\ {CallId(L[p]) : p \in b + 1 .. b + Cardinality(calls)} = calls
        BY SMTT(20), <3>1, <2>4, <2>5, <2>7, <2>8, AnsweredAtOnce
      <3> QED
        BY <3>2 DEF n
    <2>11. b < n
      BY <2>3, <2>10, <1>1
    <2>12. k < W /\ k + 1 \in 1 .. W /\ b + 1 = g[k + 1] /\ wire[k + 1].role = "user"
      <3>1. k < W /\ WireRole(L[g[k + 1]]) = wire[k + 1].role
        BY <2>11, <1>3, <1>7
      <3>2. b + 1 = g[k + 1] /\ k + 1 \in 1 .. W
        BY <3>1, <1>3, <2>1
      <3> QED
        BY <3>1, <3>2, <2>9, <2>11
    <2> DEFINE d == g[(k + 1) + 1] - 1
               next == wire[k + 1].content
    <2>13. /\ d \in b + 1 .. n /\ Len(next) = d - b /\ d \in Int
           /\ \A q \in 1 .. d - b : next[q] = L[b + q]
      <3>1. /\ g[k + 1] \in 1 .. n /\ g[(k + 1) + 1] - 1 \in g[k + 1] .. n
            /\ Len(next) = g[(k + 1) + 1] - g[k + 1]
            /\ \A q \in 1 .. g[(k + 1) + 1] - g[k + 1] : next[q] = L[g[k + 1] + q - 1]
            /\ g[(k + 1) + 1] \in Int
        BY <2>12, <1>6
      <3> DEFINE e == g[(k + 1) + 1]
      <3>2. e \in Int /\ e - 1 \in b + 1 .. n /\ Len(next) = e - (b + 1)
        BY <3>1, <2>12
      <3>3. \A q \in 1 .. e - (b + 1) : next[q] = L[(b + 1) + q - 1]
        BY <3>1, <2>12
      <3>4. d = e - 1
        OBVIOUS
      <3> HIDE DEF e, b, d, next
      <3>5. d \in b + 1 .. n /\ Len(next) = d - b /\ d \in Int /\ e - (b + 1) = d - b
        BY <3>2, <3>4, <2>3
      <3>6. \A q \in 1 .. d - b : next[q] = L[b + q]
        <4>1. \A q \in 1 .. d - b : (b + 1) + q - 1 = b + q
          BY <2>3
        <4> QED
          BY <3>3, <3>5, <4>1
      <3> QED
        BY <3>5, <3>6
    <2>14. b + s <= d
      <3> SUFFICES ASSUME d < b + s PROVE FALSE
        BY <2>3, <2>10, <2>13
      <3>1. d + 1 \in b + 1 .. b + s /\ d < n
        <4> HIDE DEF d, b, s
        <4> QED
          BY <2>3, <2>10, <2>13, <1>1
      <3>2. WireRole(L[d + 1]) = "user"
        BY <3>1, <2>10 DEF WireRole
      <3>3. /\ wire[(k + 1) + 1].role # wire[k + 1].role
            /\ WireRole(L[g[(k + 1) + 1]]) = wire[(k + 1) + 1].role
        BY <3>1, <2>12, <1>7
      <3>4. d + 1 = g[(k + 1) + 1]
        BY <2>12, <1>6
      <3> QED
        BY <3>2, <3>3, <3>4, <2>12
    <2>15. Len(next) >= s
      BY <2>3, <2>10, <2>13, <2>14
    <2> DEFINE first == SubSeq(next, 1, s)
    <2>16. DOMAIN first = 1 .. s /\ \A i \in 1 .. s : first[i] = L[b + i]
      <3>1. next \in Seq(Messages) /\ Len(next) \in Nat
        BY <2>12, <1>4, LenProperties
      <3>2. \A i \in 1 .. s : i \in 1 .. Len(next) /\ next[i] = L[b + i]
        <4> HIDE DEF next, s, b, d
        <4>1. ASSUME NEW i \in 1 .. s PROVE i \in 1 .. Len(next) /\ i \in 1 .. d - b
          BY <2>3, <2>10, <2>13, <2>14, <2>15
        <4> QED
          BY <4>1, <2>13
      <3> HIDE DEF next, s, b, d
      <3>3. \A i \in 1 .. s : next[i] \in Messages
        BY <3>1, <3>2, ElementOfSeq
      <3>4. /\ first \in Seq(Messages) /\ Len(first) = s
            /\ \A i \in 1 .. s : first[i] = next[i]
        <4>1. s \in Int /\ 1 <= s /\ s - 1 + 1 = s
          BY <2>10
        <4>2. /\ first \in Seq(Messages) /\ Len(first) = (IF 1 <= s THEN s - 1 + 1 ELSE 0)
              /\ \A i \in 1 .. s - 1 + 1 : first[i] = next[1 + i - 1]
          BY <4>1, <3>3, SubSeqProperties
        <4> QED
          BY <4>1, <4>2
      <3> QED
        BY <3>2, <3>4, LenProperties
    <2> HIDE DEF first, next, d, a, b, content
    <2>17. IdsOf(first, "result") = calls
      <3> HIDE DEF s
      <3>1. ASSUME NEW x \in calls PROVE x \in IdsOf(first, "result")
        <4>1. PICK p \in b + 1 .. b + s : CallId(L[p]) = x
          BY <2>10
        <4>2. p - b \in 1 .. s /\ b + (p - b) = p
          BY <2>3, <2>10
        <4>3. first[p - b] = L[p] /\ L[p].kind = "result"
          BY <4>2, <2>10, <2>16
        <4> QED
          BY <4>1, <4>2, <4>3, <2>16 DEF IdsOf
      <3>2. ASSUME NEW x \in IdsOf(first, "result") PROVE x \in calls
        <4>1. PICK i \in 1 .. s : x = CallId(first[i])
          BY <2>16 DEF IdsOf
        <4>2. b + i \in b + 1 .. b + s /\ first[i] = L[b + i]
          BY <2>3, <2>10, <2>16
        <4> QED
          BY <4>1, <4>2, <2>10
      <3> QED
        BY <3>1, <3>2
    <2> QED
      BY <2>12, <2>15, <2>17 DEF first, next
  <1> QED
    BY <1>8, <1>9 DEF W

-----------------------------------------------------------------------------
\* What is picked from a list, and what is put after one

\* Every result answers a call that comes before it, in the list.
FollowsCall(L, i) ==
  \E j \in 1 .. i - 1 : L[j].kind = "call" /\ CallId(L[j]) = CallId(L[i])

LEMMA FollowingCalls ==
  ASSUME NEW X, NEW L \in Seq(X)
  PROVE  ResultsFollowCalls(L) <=> \A i \in 1 .. Len(L) : L[i].kind = "result" => FollowsCall(L, i)
  BY LenProperties DEF ResultsFollowCalls, FollowsCall

LEMMA PickedKeepsOrder ==
  ASSUME NEW X, NEW L \in Seq(X), NEW F \in Seq(X), NEW P \in SUBSET (1 .. Len(L)),
         Picked(F, L, P), ExchangesInOrder(L)
  PROVE  ExchangesInOrder(F)
  <1>1. PICK g \in [1 .. Len(F) -> P] :
          /\ \A j, k \in 1 .. Len(F) : j < k => g[j] < g[k]
          /\ \A k \in 1 .. Len(F) : F[k] = L[g[k]]
    BY DEF Picked
  <1>2. \A k \in 1 .. Len(F) : g[k] \in 1 .. Len(L)
    BY <1>1
  <1> SUFFICES ASSUME NEW i \in 1 .. Len(F), NEW j \in 1 .. Len(F), i < j,
                      IsExchange(F[i]), IsExchange(F[j])
               PROVE  Precedes(F[i], F[j])
    BY DEF ExchangesInOrder
  <1>3. g[i] < g[j] /\ F[i] = L[g[i]] /\ F[j] = L[g[j]]
    BY <1>1
  <1> QED
    BY <1>2, <1>3 DEF ExchangesInOrder

\* If the calls are picked that the results picked answer.
LEMMA PickedFollows ==
  ASSUME NEW X, NEW L \in Seq(X), NEW F \in Seq(X), NEW P \in SUBSET (1 .. Len(L)),
         Picked(F, L, P),
         \A p \in P : L[p].kind = "result" =>
           \E q \in P : q < p /\ L[q].kind = "call" /\ CallId(L[q]) = CallId(L[p])
  PROVE  ResultsFollowCalls(F)
  <1>1. PICK g \in [1 .. Len(F) -> P] :
          /\ \A j, k \in 1 .. Len(F) : j < k => g[j] < g[k]
          /\ \A k \in 1 .. Len(F) : F[k] = L[g[k]]
          /\ \A p \in P : \E k \in 1 .. Len(F) : g[k] = p
    BY DEF Picked
  <1>0. Len(F) \in Nat /\ Len(L) \in Nat
    BY LenProperties
  <1>2. ASSUME NEW i \in 1 .. Len(F), F[i].kind = "result" PROVE FollowsCall(F, i)
    <2>1. g[i] \in P /\ F[i] = L[g[i]] /\ g[i] \in Int
      <3>1. g[i] \in P /\ F[i] = L[g[i]]
        BY <1>1, <1>2
      <3>2. g[i] \in 1 .. Len(L)
        BY <3>1, P \in SUBSET (1 .. Len(L))
      <3> QED
        BY <1>0, <3>1, <3>2
    <2>2. PICK q \in P : q < g[i] /\ L[q].kind = "call" /\ CallId(L[q]) = CallId(L[g[i]])
      BY <1>2, <2>1
    <2>3. PICK k \in 1 .. Len(F) : g[k] = q
      BY <1>1
    <2>4. k < i
      <3> SUFFICES ASSUME ~ (k < i) PROVE FALSE
        OBVIOUS
      <3>1. k = i \/ i < k
        BY <1>0, <1>2, <2>3
      <3>2. q \in Int /\ (q = g[i] \/ g[i] < q)
        BY <1>1, <3>1, <2>3
      <3> QED
        BY <2>1, <2>2, <3>2
    <2>5. k \in 1 .. i - 1 /\ F[k] = L[q]
      BY <1>0, <1>1, <2>3, <2>4
    <2> QED
      BY <2>1, <2>2, <2>5 DEF FollowsCall
  <1> QED
    BY <1>2, FollowingCalls

LEMMA SubSeqPicks ==
  ASSUME NEW X, NEW L \in Seq(X), NEW a \in 1 .. Len(L) + 1, NEW b \in a - 1 .. Len(L)
  PROVE  /\ SubSeq(L, a, b) \in Seq(X) /\ Len(SubSeq(L, a, b)) = b - a + 1
         /\ \A k \in 1 .. b - a + 1 : SubSeq(L, a, b)[k] = L[a + k - 1]
         /\ Picked(SubSeq(L, a, b), L, a .. b)
  <1> DEFINE F == SubSeq(L, a, b)
             g == [k \in 1 .. b - a + 1 |-> a + k - 1]
  <1>1. Len(L) \in Nat /\ a \in Int /\ b \in Int /\ a >= 1 /\ b <= Len(L) /\ b >= a - 1
    BY LenProperties
  <1>2. \A i \in a .. b : L[i] \in X
    BY <1>1, ElementOfSeq
  <1>3. F \in Seq(X) /\ Len(F) = b - a + 1 /\ \A k \in 1 .. b - a + 1 : F[k] = L[a + k - 1]
    <2>1. /\ F \in Seq(X) /\ Len(F) = (IF a <= b THEN b - a + 1 ELSE 0)
          /\ \A k \in 1 .. b - a + 1 : F[k] = L[a + k - 1]
      BY <1>1, <1>2, SubSeqProperties
    <2> QED
      BY <1>1, <2>1
  <1>4. /\ g \in [1 .. b - a + 1 -> a .. b]
        /\ \A j, k \in 1 .. b - a + 1 : j < k => g[j] < g[k]
        /\ \A k \in 1 .. b - a + 1 : F[k] = L[g[k]]
    <2> HIDE DEF F
    <2> QED
      BY <1>1, <1>3
  <1>5. \A p \in a .. b : \E k \in 1 .. b - a + 1 : g[k] = p
    <2> TAKE p \in a .. b
    <2>1. p - a + 1 \in 1 .. b - a + 1 /\ a + (p - a + 1) - 1 = p
      BY <1>1
    <2> QED
      BY <2>1
  <1> HIDE DEF F, g
  <1>6. Picked(F, L, a .. b)
    <2>1. g \in [1 .. Len(F) -> a .. b]
      BY <1>3, <1>4
    <2>2. \A j, k \in 1 .. Len(F) : j < k => g[j] < g[k]
      BY <1>3, <1>4
    <2>3. \A k \in 1 .. Len(F) : F[k] = L[g[k]]
      BY <1>3, <1>4
    <2>4. \A p \in a .. b : \E k \in 1 .. Len(F) : g[k] = p
      BY <1>3, <1>5
    <2> QED
      BY <2>1, <2>2, <2>3, <2>4, Zenon DEF Picked
  <1> QED
    BY <1>3, <1>6 DEF F

\* Messages after a list.
LEMMA OrderOfBoth ==
  ASSUME NEW X, NEW A \in Seq(X), NEW B \in Seq(X), ExchangesInOrder(A), ExchangesInOrder(B),
         \A i \in 1 .. Len(A), j \in 1 .. Len(B) :
           IsExchange(A[i]) /\ IsExchange(B[j]) => Precedes(A[i], B[j])
  PROVE  ExchangesInOrder(A \o B)
  <1>1. /\ Len(A) \in Nat /\ Len(B) \in Nat /\ Len(A \o B) = Len(A) + Len(B)
        /\ \A i \in 1 .. Len(A) : (A \o B)[i] = A[i]
        /\ \A i \in Len(A) + 1 .. Len(A) + Len(B) :
             (A \o B)[i] = B[i - Len(A)] /\ i - Len(A) \in 1 .. Len(B)
    BY ConcatProperties, LenProperties
  <1> DEFINE C == A \o B
  <1> SUFFICES ASSUME NEW i \in 1 .. Len(C), NEW j \in 1 .. Len(C), i < j,
                      IsExchange(C[i]), IsExchange(C[j])
               PROVE  Precedes(C[i], C[j])
    BY DEF ExchangesInOrder
  <1> HIDE DEF C
  <1>2. CASE j <= Len(A)
    <2>1. i \in 1 .. Len(A) /\ j \in 1 .. Len(A) /\ C[i] = A[i] /\ C[j] = A[j]
      BY <1>1, <1>2 DEF C
    <2> QED
      BY <2>1 DEF ExchangesInOrder
  <1>3. CASE i <= Len(A) /\ j > Len(A)
    <2>1. /\ i \in 1 .. Len(A) /\ j - Len(A) \in 1 .. Len(B)
          /\ C[i] = A[i] /\ C[j] = B[j - Len(A)]
      BY <1>1, <1>3 DEF C
    <2> QED
      BY <2>1
  <1>4. CASE i > Len(A)
    <2>1. /\ i - Len(A) \in 1 .. Len(B) /\ j - Len(A) \in 1 .. Len(B) /\ i - Len(A) < j - Len(A)
          /\ C[i] = B[i - Len(A)] /\ C[j] = B[j - Len(A)]
      BY <1>1, <1>4 DEF C
    <2> QED
      BY <2>1 DEF ExchangesInOrder
  <1> QED
    BY <1>1, <1>2, <1>3, <1>4 DEF C

LEMMA BothFollow ==
  ASSUME NEW X, NEW A \in Seq(X), NEW B \in Seq(X), ResultsFollowCalls(A),
         \A k \in 1 .. Len(B) : B[k].kind = "result" =>
           \/ \E i \in 1 .. Len(A) : A[i].kind = "call" /\ CallId(A[i]) = CallId(B[k])
           \/ FollowsCall(B, k)
  PROVE  ResultsFollowCalls(A \o B)
  <1> DEFINE C == A \o B
  <1>1. /\ Len(A) \in Nat /\ Len(B) \in Nat /\ Len(C) = Len(A) + Len(B) /\ C \in Seq(X)
        /\ \A i \in 1 .. Len(A) : C[i] = A[i]
        /\ \A i \in Len(A) + 1 .. Len(A) + Len(B) :
             C[i] = B[i - Len(A)] /\ i - Len(A) \in 1 .. Len(B)
    BY ConcatProperties, LenProperties
  <1> HIDE DEF C
  <1>2. ASSUME NEW i \in 1 .. Len(C), C[i].kind = "result" PROVE FollowsCall(C, i)
    <2>1. CASE i <= Len(A)
      <3>1. i \in 1 .. Len(A) /\ C[i] = A[i] /\ \A j \in 1 .. i - 1 : C[j] = A[j]
        BY <1>1, <2>1
      <3>2. FollowsCall(A, i)
        BY <3>1, <1>2, FollowingCalls
      <3> QED
        BY <3>1, <3>2 DEF FollowsCall
    <2>2. CASE i > Len(A)
      <3> DEFINE k == i - Len(A)
      <3>1. k \in 1 .. Len(B) /\ C[i] = B[k] /\ k \in Int
        <4>1. i \in Len(A) + 1 .. Len(A) + Len(B)
          BY <1>1, <2>2
        <4> QED
          BY <1>1, <4>1
      <3>2. CASE \E j \in 1 .. Len(A) : A[j].kind = "call" /\ CallId(A[j]) = CallId(B[k])
        <4>1. PICK j \in 1 .. Len(A) : A[j].kind = "call" /\ CallId(A[j]) = CallId(B[k])
          BY <3>2
        <4>2. j \in 1 .. i - 1 /\ C[j] = A[j]
          BY <1>1, <2>2, <4>1
        <4> QED
          BY <3>1, <4>1, <4>2 DEF FollowsCall
      <3>3. CASE FollowsCall(B, k)
        <4>1. PICK j \in 1 .. k - 1 : B[j].kind = "call" /\ CallId(B[j]) = CallId(B[k])
          BY <3>3 DEF FollowsCall
        <4>2. j + Len(A) \in 1 .. i - 1 /\ C[j + Len(A)] = B[j]
          <5>1. j + Len(A) \in Len(A) + 1 .. Len(A) + Len(B) /\ j + Len(A) - Len(A) = j
            BY <1>1, <3>1, <4>1
          <5>2. j + Len(A) < i /\ 1 <= j + Len(A)
            BY <1>1, <3>1, <4>1
          <5>3. C[j + Len(A)] = B[(j + Len(A)) - Len(A)]
            BY <1>1, <5>1
          <5>4. j + Len(A) \in 1 .. i - 1
            BY <1>1, <3>1, <4>1
          <5> QED
            BY <5>1, <5>3, <5>4
        <4> QED
          BY <3>1, <4>1, <4>2 DEF FollowsCall
      <3> QED
        BY <1>2, <3>1, <3>2, <3>3
    <2> QED
      BY <1>1, <2>1, <2>2
  <1>3. ResultsFollowCalls(C)
    BY <1>1, <1>2, FollowingCalls
  <1> QED
    BY <1>3 DEF C

\* A list that is accepted has the calls of its results.
LEMMA AcceptedFollows ==
  ASSUME NEW L \in Seq(Messages), Accepted(L)
  PROVE  ResultsFollowCalls(L)
  <1>1. ASSUME NEW i \in 1 .. Len(L), L[i].kind = "result" PROVE FollowsCall(L, i)
    <2>1. CallId(L[i]) \in Pending(L, i)
      BY <1>1, LenProperties DEF Accepted
    <2> QED
      BY <2>1, PendingIs DEF FollowsCall
  <1> QED
    BY <1>1, FollowingCalls

\* Leaving out kinds that are neither calls nor results changes none of this.
LEMMA WithoutKeeps ==
  ASSUME NEW L \in Seq(Messages), NEW kinds, "call" \notin kinds
  PROVE  /\ WithoutKinds(kinds, L) \in Seq(Messages)
         /\ ExchangesInOrder(L) => ExchangesInOrder(WithoutKinds(kinds, L))
         /\ ResultsFollowCalls(L) => ResultsFollowCalls(WithoutKinds(kinds, L))
  <1> DEFINE F == WithoutKinds(kinds, L)
             P == {i \in 1 .. Len(L) : L[i].kind \notin kinds}
  <1>1. F \in Seq(Messages) /\ Picked(F, L, P) /\ P \in SUBSET (1 .. Len(L))
    BY WithoutPicks
  <1>2. ASSUME ResultsFollowCalls(L), NEW p \in P, L[p].kind = "result"
        PROVE  \E q \in P : q < p /\ L[q].kind = "call" /\ CallId(L[q]) = CallId(L[p])
    <2>1. FollowsCall(L, p)
      BY <1>2, FollowingCalls
    <2>2. PICK q \in 1 .. p - 1 : L[q].kind = "call" /\ CallId(L[q]) = CallId(L[p])
      BY <2>1 DEF FollowsCall
    <2>3. q \in 1 .. Len(L) /\ q < p
      BY <2>2, LenProperties
    <2> QED
      BY <2>2, <2>3
  <1> HIDE DEF F, P
  <1>3. ExchangesInOrder(L) => ExchangesInOrder(F)
    BY <1>1, PickedKeepsOrder
  <1>4. ResultsFollowCalls(L) => ResultsFollowCalls(F)
    BY <1>1, <1>2, PickedFollows
  <1> QED
    BY <1>1, <1>3, <1>4 DEF F

-----------------------------------------------------------------------------
\* What the operators of a turn return

LEMMA MinIsSmallest ==
  ASSUME NEW S \in SUBSET Nat, S # {}
  PROVE  Min(S) \in S /\ \A y \in S : Min(S) <= y
  <1>1. PICK x \in S : \A y \in S : x <= y
    BY LeastNumber
  <1>2. \E z \in S : \A y \in S : z <= y
    BY <1>1
  <1> QED
    BY <1>2 DEF Min

\* A is what L says after its last boundary.
IsActive(A, L, last) ==
  /\ A \in Seq(Messages) /\ last \in 0 .. Len(L) /\ Len(A) = Len(L) - last
  /\ \A k \in 1 .. Len(L) - last : A[k] = L[last + k]
  /\ last > 0 => L[last].kind = "boundary"
  /\ \A i \in last + 1 .. Len(L) : L[i].kind # "boundary"
  /\ Picked(A, L, last + 1 .. Len(L))

LEMMA AfterBoundaryIs ==
  ASSUME NEW L \in Seq(Messages)
  PROVE  \E last \in 0 .. Len(L) : IsActive(AfterBoundary(L), L, last)
  <1> DEFINE S == {0} \cup {i \in DOMAIN L : L[i].kind = "boundary"}
             last == Max(S)
  <1>1. DOMAIN L = 1 .. Len(L) /\ Len(L) \in Nat
    BY LenProperties
  <1>2. last \in S /\ \A y \in S : y <= last
    <2>1. S \in SUBSET (0 .. Len(L)) /\ S # {}
      BY <1>1
    <2> HIDE DEF S
    <2> QED
      BY <1>1, <2>1, MaxIsLargest DEF last
  <1> HIDE DEF last
  <1>3. last \in 0 .. Len(L) /\ (last > 0 => L[last].kind = "boundary")
    BY <1>1, <1>2
  <1>4. \A i \in last + 1 .. Len(L) : L[i].kind # "boundary"
    <2> SUFFICES ASSUME NEW i \in last + 1 .. Len(L), L[i].kind = "boundary" PROVE FALSE
      OBVIOUS
    <2>1. i \in DOMAIN L /\ i > last
      BY <1>1, <1>3
    <2>2. i \in S
      BY <2>1
    <2> QED
      BY <2>1, <2>2, <1>2, <1>3
  <1> DEFINE A == SubSeq(L, last + 1, Len(L))
  <1>5. AfterBoundary(L) = A
    BY DEF AfterBoundary, last
  <1>6. /\ A \in Seq(Messages) /\ Len(A) = Len(L) - (last + 1) + 1
        /\ \A k \in 1 .. Len(L) - (last + 1) + 1 : A[k] = L[last + 1 + k - 1]
        /\ Picked(A, L, last + 1 .. Len(L))
    <2>1. last + 1 \in 1 .. Len(L) + 1 /\ Len(L) \in (last + 1) - 1 .. Len(L)
      BY <1>1, <1>3
    <2> QED
      BY <2>1, SubSeqPicks
  <1> HIDE DEF A
  <1>7. Len(A) = Len(L) - last /\ \A k \in 1 .. Len(L) - last : A[k] = L[last + k]
    <2>1. Len(L) - (last + 1) + 1 = Len(L) - last /\ last \in Int
      BY <1>1, <1>3
    <2>2. \A k \in 1 .. Len(L) - last : last + 1 + k - 1 = last + k
      BY <1>1, <1>3
    <2> QED
      BY <1>6, <2>1, <2>2
  <1> QED
    BY <1>3, <1>4, <1>5, <1>6, <1>7 DEF IsActive

LEMMA NoBoundary ==
  ASSUME NEW L \in Seq(Messages), \A i \in 1 .. Len(L) : L[i].kind # "boundary"
  PROVE  AfterBoundary(L) = L
  <1>1. PICK last \in 0 .. Len(L) : IsActive(AfterBoundary(L), L, last)
    BY AfterBoundaryIs
  <1>2. Len(L) \in Nat
    BY LenProperties
  <1>3. last = 0
    BY <1>1, <1>2 DEF IsActive
  <1>4. /\ AfterBoundary(L) \in Seq(Messages) /\ Len(AfterBoundary(L)) = Len(L)
        /\ \A k \in 1 .. Len(L) : AfterBoundary(L)[k] = L[k]
    BY <1>1, <1>2, <1>3 DEF IsActive
  <1> QED
    BY <1>4, SeqEqual

LEMMA KeepStartsATurn ==
  ASSUME NEW L \in Seq(Messages), Len(L) > 0, NEW keep
  PROVE  KeepStart(L, keep) \in TurnStarts(L) /\ KeepStart(L, keep) \in 1 .. Len(L)
  <1> DEFINE T == TurnStarts(L)
             S == {i \in T : Tokens(SubSeq(L, i, Len(L))) <= keep}
  <1>1. DOMAIN L = 1 .. Len(L) /\ Len(L) \in Nat
    BY LenProperties
  <1>2. T \in SUBSET (0 .. Len(L)) /\ 1 \in T /\ T \subseteq 1 .. Len(L)
    BY <1>1 DEF TurnStarts
  <1> HIDE DEF T
  <1>3. Max(T) \in T
    <2>1. T # {} /\ Len(L) \in Nat /\ T \in SUBSET (0 .. Len(L))
      BY <1>1, <1>2
    <2> QED
      BY <2>1, MaxIsLargest
  <1>4. S \cup {Max(T)} \in SUBSET Nat /\ S \cup {Max(T)} # {} /\ S \cup {Max(T)} \subseteq T
    <2>1. S \subseteq T
      OBVIOUS
    <2> HIDE DEF S
    <2>2. T \subseteq Nat
      BY <1>1, <1>2
    <2>3. S \cup {Max(T)} \subseteq T
      BY <2>1, <1>3
    <2> QED
      BY <2>2, <2>3
  <1> HIDE DEF S
  <1>5. Min(S \cup {Max(T)}) \in S \cup {Max(T)}
    BY <1>4, MinIsSmallest
  <1>6. KeepStart(L, keep) = Min(S \cup {Max(T)})
    BY DEF KeepStart, S, T
  <1> QED
    BY <1>2, <1>4, <1>5, <1>6 DEF T

\* A summary's input is of what is summarized.
LEMMA TranscriptIs ==
  ASSUME NEW L \in Seq(Messages)
  PROVE  /\ Transcript(L) \in Seq(Messages) /\ Sayable(L) \in Seq(Messages)
         /\ \A k \in 1 .. Len(Transcript(L)) : \E i \in 1 .. Len(L) : Transcript(L)[k] = L[i]
         /\ \A i \in 1 .. Len(L) : L[i].kind \notin {"boundary", "signature"} =>
              \E k \in 1 .. Len(Sayable(L)) : Sayable(L)[k] = L[i]
  <1> DEFINE said == Sayable(L)
             P == {i \in 1 .. Len(L) : L[i].kind \notin {"boundary", "signature"}}
  <1>1. said \in Seq(Messages) /\ Picked(said, L, P)
    BY WithoutPicks DEF Sayable
  <1> HIDE DEF said
  <1>2. PICK g \in [1 .. Len(said) -> P] :
          /\ \A k \in 1 .. Len(said) : said[k] = L[g[k]]
          /\ \A p \in P : \E k \in 1 .. Len(said) : g[k] = p
    BY <1>1 DEF Picked
  <1>3. \A i \in P : \E k \in 1 .. Len(said) : said[k] = L[i]
    BY <1>2
  <1>4. \A k \in 1 .. Len(said) : \E i \in 1 .. Len(L) : said[k] = L[i]
    BY <1>2
  <1> DEFINE fits == {n \in 1 .. Len(said) : Tokens(SubSeq(said, 1, n)) <= SummaryInputTokens}
             least == IF said = <<>> THEN 0 ELSE 1
             S == fits \cup {least}
             to == Max(S)
  <1>5. Len(said) \in Nat /\ least \in 0 .. Len(said)
    BY <1>1, LenProperties, EmptySeq
  <1>6. S \in SUBSET (0 .. Len(said)) /\ S # {}
    BY <1>5
  <1> HIDE DEF S
  <1>7. to \in 0 .. Len(said)
    BY <1>5, <1>6, MaxIsLargest
  <1>8. Transcript(L) = SubSeq(said, 1, to)
    BY DEF Transcript, said, to, S, fits, least
  <1> HIDE DEF to
  <1>9. 1 \in 1 .. Len(said) + 1 /\ to \in 1 - 1 .. Len(said)
    BY <1>5, <1>7
  <1>10. /\ SubSeq(said, 1, to) \in Seq(Messages) /\ Len(SubSeq(said, 1, to)) = to - 1 + 1
         /\ \A k \in 1 .. to - 1 + 1 : SubSeq(said, 1, to)[k] = said[1 + k - 1]
    BY <1>1, <1>9, SubSeqPicks
  <1>11. ASSUME NEW k \in 1 .. Len(Transcript(L))
         PROVE  \E i \in 1 .. Len(L) : Transcript(L)[k] = L[i]
    <2>1. k \in 1 .. Len(said) /\ Transcript(L)[k] = said[k]
      <3>1. Len(Transcript(L)) = to - 1 + 1
        BY <1>8, <1>10
      <3>2. k \in 1 .. to - 1 + 1 /\ 1 + k - 1 = k /\ k \in 1 .. Len(said)
        BY <3>1, <1>5, <1>7, <1>11
      <3> QED
        BY <3>2, <1>8, <1>10
    <2> QED
      BY <2>1, <1>4
  <1> QED
    BY <1>1, <1>3, <1>8, <1>10, <1>11 DEF said

LEMMA ToldIs ==
  ASSUME NEW L \in Seq(Messages), NEW x
  PROVE  x \in Told(L) <=> x # 0 /\ \E i \in 1 .. Len(L) : x = L[i].pos \/ x \in L[i].covers
  <1> DEFINE all == {{m.pos} \cup m.covers : m \in ToSet(L)}
  <1>1. ToSet(L) = {L[i] : i \in 1 .. Len(L)}
    BY LenProperties DEF ToSet
  <1>2. x \in UNION all <=> \E i \in 1 .. Len(L) : x \in {L[i].pos} \cup L[i].covers
    <2>1. ASSUME x \in UNION all
          PROVE  \E i \in 1 .. Len(L) : x \in {L[i].pos} \cup L[i].covers
      <3>1. PICK m \in ToSet(L) : x \in {m.pos} \cup m.covers
        BY <2>1
      <3>2. PICK i \in 1 .. Len(L) : m = L[i]
        BY <1>1
      <3> QED
        BY <3>1, <3>2
    <2>2. ASSUME NEW i \in 1 .. Len(L), x \in {L[i].pos} \cup L[i].covers
          PROVE  x \in UNION all
      <3>1. L[i] \in ToSet(L)
        BY <1>1
      <3> QED
        BY <2>2, <3>1
    <2> QED
      BY <2>1, <2>2
  <1> DEFINE U == UNION all
  <1>3. Told(L) = U \ {0}
    BY DEF Told
  <1> HIDE DEF all
  <1>4. (\E i \in 1 .. Len(L) : x \in {L[i].pos} \cup L[i].covers)
          <=> (\E i \in 1 .. Len(L) : x = L[i].pos \/ x \in L[i].covers)
    OBVIOUS
  <1>5. x \in Told(L) <=> x # 0 /\ x \in U
    <2> HIDE DEF U
    <2> QED
      BY <1>3
  <1> QED
    BY <1>2, <1>4, <1>5

\* The context is a stretch of the active messages and the turn's own.
LEMMA ContextIs ==
  ASSUME NEW prior \in Seq(Messages), NEW own \in Seq(Messages)
  PROVE  \E part \in Seq(Messages) :
           /\ BuildContext(prior, own) = part \o own
           /\ \E P \in SUBSET (1 .. Len(AfterBoundary(prior))) : Picked(part, AfterBoundary(prior), P)
  <1> DEFINE active == AfterBoundary(prior)
             FitsIn(from, to) == Tokens(own) + Tokens(SubSeq(active, from, to))
                                 <= EffectiveContextTokens(MaxContextTokens)
             S == {0} \cup {i \in DOMAIN active : FitsIn(i, i)}
             last == Max(S)
             R == {last + 1} \cup {i \in 1 .. last : FitsIn(i, last)}
             first == Min(R)
             part == SubSeq(active, first, last)
  <1>1. active \in Seq(Messages)
    BY AfterBoundaryIs DEF IsActive
  <1>2. BuildContext(prior, own) = part \o own
    BY DEF BuildContext
  <1> HIDE DEF active, FitsIn
  <1>3. Len(active) \in Nat /\ DOMAIN active = 1 .. Len(active)
    BY <1>1, LenProperties
  <1>4. S \in SUBSET (0 .. Len(active)) /\ S # {}
    BY <1>3
  <1> HIDE DEF S
  <1>5. last \in 0 .. Len(active)
    BY <1>3, <1>4, MaxIsLargest
  <1> HIDE DEF last
  <1>6. R \in SUBSET Nat /\ R # {} /\ R \subseteq 1 .. last + 1
    BY <1>3, <1>5
  <1> HIDE DEF R
  <1>7. first \in 1 .. last + 1
    BY <1>6, MinIsSmallest
  <1> HIDE DEF first
  <1>8. first \in 1 .. Len(active) + 1 /\ last \in first - 1 .. Len(active)
    BY <1>3, <1>5, <1>7
  <1>9. part \in Seq(Messages) /\ Picked(part, active, first .. last)
    BY <1>1, <1>8, SubSeqPicks
  <1>10. first .. last \in SUBSET (1 .. Len(active))
    BY <1>3, <1>8
  <1> HIDE DEF part
  <1> QED
    BY <1>2, <1>9, <1>10 DEF active

\* The exchanges of a request are in order if the active messages' and the turn's own are.
LEMMA ContextInOrder ==
  ASSUME NEW prior \in Seq(Messages), NEW own \in Seq(Messages),
         ExchangesInOrder(AfterBoundary(prior)), ExchangesInOrder(own),
         NEW n \in Nat,
         \A i \in 1 .. Len(AfterBoundary(prior)) :
           IsExchange(AfterBoundary(prior)[i]) => AfterBoundary(prior)[i].turn < n,
         \A i \in 1 .. Len(own) : own[i].turn = n
  PROVE  BuildContext(prior, own) \in Seq(Messages) /\ ExchangesInOrder(BuildContext(prior, own))
  <1> DEFINE active == AfterBoundary(prior)
  <1>1. active \in Seq(Messages)
    BY AfterBoundaryIs DEF IsActive
  <1> HIDE DEF active
  <1>2. PICK part \in Seq(Messages) :
          /\ BuildContext(prior, own) = part \o own
          /\ \E P \in SUBSET (1 .. Len(active)) : Picked(part, active, P)
    BY ContextIs DEF active
  <1>3. PICK P \in SUBSET (1 .. Len(active)) : Picked(part, active, P)
    BY <1>2
  <1>4. ExchangesInOrder(part)
    BY <1>1, <1>3, PickedKeepsOrder DEF active
  <1>5. ASSUME NEW i \in 1 .. Len(part), NEW j \in 1 .. Len(own), IsExchange(part[i])
        PROVE  Precedes(part[i], own[j])
    <2>1. PICK p \in 1 .. Len(active) : part[i] = active[p]
      BY <1>3 DEF Picked
    <2>2. part[i].turn < n /\ own[j].turn = n
      BY <1>5, <2>1 DEF active
    <2> QED
      BY <2>2 DEF Precedes
  <1>6. ExchangesInOrder(part \o own) /\ part \o own \in Seq(Messages)
    BY <1>4, <1>5, OrderOfBoth, ConcatProperties
  <1> QED
    BY <1>2, <1>6

-----------------------------------------------------------------------------
\* The history of a session

ConversationTypes ==
  /\ messages \in Seq(Messages) /\ archive \in SUBSET (Nat \X Nat) /\ troubles \in Nat
  /\ turn \in [at : {"idle", "compact", "call", "tools"}, no : Nat, step : Nat,
               prior : Seq(Messages), own : Seq(Messages), calls : Seq(Messages),
               saved : BOOLEAN, compacted : BOOLEAN, cut : BOOLEAN]

\* These positions are in the history, and in a snapshot or of a compaction.
Covered(msgs, ranges, positions) ==
  \A p \in positions :
    /\ p \in 1 .. Len(msgs)
    /\ msgs[p].kind \in SystemKinds \/ \E r \in ranges : p \in r[1] .. r[2]

\* Messages stand at their positions, one turn after the other; a turn's boundary is
\* its first message; exchanges are in order and whole; and what a summary replaces
\* is in a snapshot.
IsHistory(msgs, ranges) ==
  /\ \A i \in 1 .. Len(msgs) : msgs[i].pos = i /\ Covered(msgs, ranges, msgs[i].covers)
  /\ \A i, j \in 1 .. Len(msgs) : i < j => msgs[i].turn <= msgs[j].turn
  /\ \A i, j \in 1 .. Len(msgs) : i < j /\ msgs[j].kind = "boundary" => msgs[i].turn < msgs[j].turn
  /\ ExchangesInOrder(msgs)
  /\ ResultsFollowCalls(msgs)

\* The turn's exchanges in a list are of the steps it has taken; while its tools
\* run, those of the last step are calls.
StepsTaken(list, t) ==
  \A i \in 1 .. Len(list) : IsExchange(list[i]) /\ list[i].turn = t.no =>
    /\ list[i].step <= t.step /\ (t.at = "call" => list[i].step < t.step)
    /\ t.at = "tools" /\ list[i].step = t.step => list[i].kind = "call"

Stored ==
  /\ IsHistory(messages, archive)
  /\ \A i \in 1 .. Len(messages) :
       messages[i].turn <= turn.no /\ (turn.at = "compact" => messages[i].turn < turn.no)
  /\ turn.at \in {"call", "tools"} => StepsTaken(messages, turn)

\* Alike but for the sizes of tool results.
Alike(loaded, msgs) ==
  /\ Len(loaded) = Len(msgs)
  /\ \A i \in 1 .. Len(msgs) : loaded[i] = [msgs[i] EXCEPT !.size = loaded[i].size]

\* What the turn itself has said is whole, and in the store once it has been saved.
OwnIsWhole ==
  turn.at # "idle" =>
    /\ \A i \in 1 .. Len(turn.own) :
         /\ turn.own[i].turn = turn.no /\ turn.own[i].covers = {}
         /\ turn.own[i].kind \notin SystemKinds
         /\ turn.saved \/ ~ IsExchange(turn.own[i])
         /\ turn.saved /\ turn.own[i].kind = "call" =>
              \E j \in 1 .. Len(messages) : /\ messages[j].kind = "call"
                                            /\ CallId(messages[j]) = CallId(turn.own[i])
    /\ ExchangesInOrder(turn.own) /\ ResultsFollowCalls(turn.own) /\ StepsTaken(turn.own, turn)
    /\ turn.at = "compact" => ~ turn.saved
    /\ turn.at = "tools" =>
         /\ turn.saved
         /\ \A k \in 1 .. Len(turn.calls) : \E i \in 1 .. Len(turn.own) :
              /\ turn.calls[k] = turn.own[i] /\ turn.own[i].kind = "call"
              /\ turn.own[i].step = turn.step

\* What earlier turns have said after the last boundary before turn n.
LastBoundary(msgs, n) ==
  Max({0} \cup {i \in DOMAIN msgs : msgs[i].kind = "boundary" /\ msgs[i].turn < n})
Earlier(msgs, n) ==
  {i \in LastBoundary(msgs, n) + 1 .. Len(msgs) :
     msgs[i].kind \notin SystemKinds \cup {"signature"} /\ msgs[i].turn < n}

\* What a turn goes on with is whole, and tells everything unless the summary's
\* input was cut.
PriorIsWhole ==
  LET active == AfterBoundary(turn.prior) IN
  /\ turn.at = "compact" => Alike(turn.prior, messages)
  /\ turn.at \in {"call", "tools"} =>
       /\ ExchangesInOrder(active) /\ ResultsFollowCalls(active)
       /\ \A i \in 1 .. Len(active) : /\ IsExchange(active[i]) => active[i].turn < turn.no
                                      /\ Covered(messages, archive, active[i].covers)
       /\ turn.compacted /\ ~ turn.cut => Earlier(messages, turn.no) \subseteq Told(active)

ConversationInv == ConversationTypes /\ Stored /\ OwnIsWhole /\ PriorIsWhole

-----------------------------------------------------------------------------
\* What the invariant says of a request

LEMMA ActiveTail ==
  ASSUME NEW L \in Seq(Messages)
  PROVE  AfterBoundary(L) \in Seq(Messages) /\ Len(AfterBoundary(L)) \in Nat
  <1>1. AfterBoundary(L) \in Seq(Messages)
    BY AfterBoundaryIs DEF IsActive
  <1> QED
    BY <1>1, LenProperties

LEMMA OwnFacts ==
  ASSUME ConversationInv, turn.at = "call"
  PROVE  /\ turn.prior \in Seq(Messages) /\ turn.own \in Seq(Messages) /\ turn.no \in Nat
         /\ AfterBoundary(turn.prior) \in Seq(Messages)
         /\ ExchangesInOrder(AfterBoundary(turn.prior)) /\ ResultsFollowCalls(AfterBoundary(turn.prior))
         /\ ExchangesInOrder(turn.own) /\ ResultsFollowCalls(turn.own)
         /\ \A i \in 1 .. Len(AfterBoundary(turn.prior)) :
              /\ IsExchange(AfterBoundary(turn.prior)[i]) => AfterBoundary(turn.prior)[i].turn < turn.no
              /\ Covered(messages, archive, AfterBoundary(turn.prior)[i].covers)
         /\ \A i \in 1 .. Len(turn.own) : turn.own[i].turn = turn.no /\ turn.own[i].covers = {}
         /\ turn.compacted /\ ~ turn.cut =>
              Earlier(messages, turn.no) \subseteq Told(AfterBoundary(turn.prior))
  <1>1. turn.prior \in Seq(Messages) /\ turn.own \in Seq(Messages) /\ turn.no \in Nat
    BY DEF ConversationInv, ConversationTypes
  <1>2. AfterBoundary(turn.prior) \in Seq(Messages)
    BY <1>1, ActiveTail
  <1> QED
    BY <1>1, <1>2 DEF ConversationInv, OwnIsWhole, PriorIsWhole

\* What both providers are sent is whole: of the exchanges of a request that is accepted.
LEMMA InvAnswered ==
  ASSUME ConversationInv PROVE CallsAreAnswered
  <1> DEFINE context == BuildContext(turn.prior, turn.own)
             request == Request
             wire == ToAnthropicMessages(request)
             input == ToResponsesInput(request)
  <1> SUFFICES ASSUME turn.at = "call", Accepted(request)
               PROVE  /\ \A k \in DOMAIN wire :
                           LET calls == IdsOf(wire[k].content, "call") IN
                           /\ k > 1 => wire[k].role # wire[k - 1].role
                           /\ calls # {} =>
                                /\ k < Len(wire) /\ Len(wire[k + 1].content) >= Cardinality(calls)
                                /\ IdsOf(SubSeq(wire[k + 1].content, 1, Cardinality(calls)), "result") = calls
                      /\ ResultsFollowCalls(input)
    BY DEF CallsAreAnswered, IdsOf
  <1>1. context \in Seq(Messages) /\ ExchangesInOrder(context)
    BY OwnFacts, ContextInOrder
  <1>2. request = WithoutKinds({"boundary"}, context)
    BY DEF Request, ToModelMessages
  <1> HIDE DEF context, request
  <1>3. request \in Seq(Messages) /\ ExchangesInOrder(request)
    BY <1>1, <1>2, WithoutKeeps
  <1>4. DOMAIN wire = 1 .. Len(wire)
    BY <1>3, SentInRuns, LenProperties
  <1>5. ResultsFollowCalls(input)
    BY <1>3, AcceptedFollows, WithoutKeeps DEF ToResponsesInput
  <1> HIDE DEF wire, input
  <1>6. WireWhole(wire)
    BY <1>3, WireIsAnswered DEF wire
  <1> QED
    BY <1>4, <1>5, <1>6 DEF WireWhole

\* A context that nothing was cut off from holds all active messages, then the turn's own.
LEMMA InvWhole ==
  ASSUME ConversationInv PROVE CompactionIsWhole
  <1> DEFINE active == AfterBoundary(turn.prior)
             own == turn.own
             all == active \o own
             request == Request
  <1> SUFFICES ASSUME turn.at = "call", Untruncated
               PROVE  /\ turn.compacted /\ ~ turn.cut =>
                           EarlierMessages(LastBoundaryBefore(turn.no) + 1) \subseteq Told(request)
                      /\ \A i \in DOMAIN request : Archived(request[i].covers)
                      /\ ResultsFollowCalls(request)
    BY DEF CompactionIsWhole
  <1>1. /\ active \in Seq(Messages) /\ own \in Seq(Messages)
        /\ ResultsFollowCalls(active) /\ ResultsFollowCalls(own)
        /\ \A i \in 1 .. Len(active) : Covered(messages, archive, active[i].covers)
        /\ \A i \in 1 .. Len(own) : own[i].covers = {}
        /\ turn.compacted /\ ~ turn.cut => Earlier(messages, turn.no) \subseteq Told(active)
    BY OwnFacts
  <1>2. \A i \in 1 .. Len(active) : active[i].kind # "boundary"
    <2>1. turn.prior \in Seq(Messages)
      BY OwnFacts
    <2>2. PICK last \in 0 .. Len(turn.prior) : IsActive(active, turn.prior, last)
      BY <2>1, AfterBoundaryIs
    <2> HIDE DEF active
    <2> SUFFICES ASSUME NEW i \in 1 .. Len(active) PROVE active[i].kind # "boundary"
      OBVIOUS
    <2>3. Len(turn.prior) \in Nat
      BY <2>1, LenProperties
    <2>4. i \in 1 .. Len(turn.prior) - last /\ last + i \in last + 1 .. Len(turn.prior)
      BY <2>2, <2>3 DEF IsActive
    <2> QED
      BY <2>2, <2>4 DEF IsActive
  <1>3. request = WithoutKinds({"boundary"}, all)
    BY DEF Request, ToModelMessages, Untruncated
  <1> HIDE DEF active, own, request
  <1>4. /\ all \in Seq(Messages) /\ Len(all) = Len(active) + Len(own)
        /\ Len(active) \in Nat /\ Len(own) \in Nat
        /\ \A i \in 1 .. Len(active) + Len(own) :
             all[i] = IF i <= Len(active) THEN active[i] ELSE own[i - Len(active)]
    BY <1>1, ConcatProperties, LenProperties
  <1>5. ResultsFollowCalls(all)
    BY <1>1, BothFollow, FollowingCalls
  <1> DEFINE P == {i \in 1 .. Len(all) : all[i].kind \notin {"boundary"}}
  <1>6. request \in Seq(Messages) /\ ResultsFollowCalls(request) /\ Picked(request, all, P)
    BY <1>3, <1>4, <1>5, WithoutKeeps, WithoutPicks
  <1>7. PICK g \in [1 .. Len(request) -> P] :
          /\ \A k \in 1 .. Len(request) : request[k] = all[g[k]]
          /\ \A p \in P : \E k \in 1 .. Len(request) : g[k] = p
    BY <1>6 DEF Picked
  <1>8. Told(active) \subseteq Told(request)
    <2> SUFFICES ASSUME NEW x \in Told(active) PROVE x \in Told(request)
      OBVIOUS
    <2>1. x # 0 /\ \E i \in 1 .. Len(active) : x = active[i].pos \/ x \in active[i].covers
      BY <1>1, ToldIs
    <2>2. PICK i \in 1 .. Len(active) : x = active[i].pos \/ x \in active[i].covers
      BY <2>1
    <2>3. i \in 1 .. Len(all) /\ all[i] = active[i]
      BY <1>4
    <2>4. i \in P
      BY <2>3, <1>2
    <2>5. PICK k \in 1 .. Len(request) : g[k] = i
      BY <2>4, <1>7
    <2>6. request[k] = active[i]
      BY <2>3, <2>5, <1>7
    <2> QED
      BY <2>1, <2>2, <2>6, <1>6, ToldIs
  <1>9. ASSUME NEW i \in 1 .. Len(request) PROVE Archived(request[i].covers)
    <2>1. g[i] \in 1 .. Len(all) /\ request[i] = all[g[i]]
      BY <1>7
    <2>2. Covered(messages, archive, request[i].covers)
      <3>1. CASE g[i] <= Len(active)
        <4>1. g[i] \in 1 .. Len(active) /\ request[i] = active[g[i]]
          BY <2>1, <3>1, <1>4
        <4> QED
          BY <4>1, <1>1
      <3>2. CASE g[i] > Len(active)
        <4>1. g[i] - Len(active) \in 1 .. Len(own) /\ request[i] = own[g[i] - Len(active)]
          BY <2>1, <3>2, <1>4
        <4> QED
          BY <4>1, <1>1 DEF Covered
      <3> QED
        BY <2>1, <3>1, <3>2, <1>4
    <2> QED
      BY <2>2 DEF Covered, Archived
  <1>10. Earlier(messages, turn.no) = EarlierMessages(LastBoundaryBefore(turn.no) + 1)
    BY DEF Earlier, EarlierMessages, LastBoundaryBefore, LastBoundary
  <1>11. DOMAIN request = 1 .. Len(request)
    BY <1>6, LenProperties
  <1> QED
    BY <1>1, <1>6, <1>8, <1>9, <1>10, <1>11

-----------------------------------------------------------------------------
\* What a step stores

LEMMA ConcatIs ==
  ASSUME NEW X, NEW L \in Seq(X), NEW N \in Seq(X)
  PROVE  /\ L \o N \in Seq(X) /\ Len(L \o N) = Len(L) + Len(N)
         /\ Len(L) \in Nat /\ Len(N) \in Nat
         /\ \A i \in 1 .. Len(L) : i \in 1 .. Len(L) + Len(N) /\ (L \o N)[i] = L[i]
         /\ \A i \in Len(L) + 1 .. Len(L) + Len(N) :
              i - Len(L) \in 1 .. Len(N) /\ (L \o N)[i] = N[i - Len(L)]
         /\ \A k \in 1 .. Len(N) : /\ Len(L) + k \in Len(L) + 1 .. Len(L) + Len(N)
                                   /\ (L \o N)[Len(L) + k] = N[k]
  <1>1. /\ L \o N \in Seq(X) /\ Len(L \o N) = Len(L) + Len(N)
        /\ \A i \in 1 .. Len(L) + Len(N) : (L \o N)[i] = IF i <= Len(L) THEN L[i] ELSE N[i - Len(L)]
    BY ConcatProperties
  <1>2. Len(L) \in Nat /\ Len(N) \in Nat
    BY LenProperties
  <1>3. \A i \in 1 .. Len(L) : i \in 1 .. Len(L) + Len(N) /\ (L \o N)[i] = L[i]
    BY <1>1, <1>2
  <1>4. \A i \in Len(L) + 1 .. Len(L) + Len(N) :
          i - Len(L) \in 1 .. Len(N) /\ (L \o N)[i] = N[i - Len(L)]
    BY <1>1, <1>2
  <1>5. ASSUME NEW k \in 1 .. Len(N)
        PROVE  Len(L) + k \in Len(L) + 1 .. Len(L) + Len(N) /\ (L \o N)[Len(L) + k] = N[k]
    <2>1. Len(L) + k \in Len(L) + 1 .. Len(L) + Len(N) /\ (Len(L) + k) - Len(L) = k
      BY <1>2, <1>5
    <2> QED
      BY <2>1, <1>4
  <1> QED
    BY <1>1, <1>2, <1>3, <1>4, <1>5

LEMMA PositionedIs ==
  ASSUME messages \in Seq(Messages), NEW M \in Seq(Messages)
  PROVE  /\ Positioned(M) \in Seq(Messages) /\ Len(Positioned(M)) = Len(M)
         /\ \A k \in 1 .. Len(M) :
              /\ Positioned(M)[k].pos = Len(messages) + k
              /\ Positioned(M)[k].turn = M[k].turn /\ Positioned(M)[k].step = M[k].step
              /\ Positioned(M)[k].kind = M[k].kind /\ Positioned(M)[k].covers = M[k].covers
              /\ CallId(Positioned(M)[k]) = CallId(M[k])
  <1>1. Len(M) \in Nat /\ Len(messages) \in Nat /\ DOMAIN M = 1 .. Len(M)
    BY LenProperties
  <1> DEFINE at == [k \in 1 .. Len(M) |-> [M[k] EXCEPT !.pos = Len(messages) + k]]
  <1>2. Positioned(M) = at
    BY <1>1 DEF Positioned
  <1>3. ASSUME NEW k \in 1 .. Len(M)
        PROVE  /\ at[k] \in Messages /\ at[k].pos = Len(messages) + k
               /\ at[k].turn = M[k].turn /\ at[k].step = M[k].step /\ at[k].call = M[k].call
               /\ at[k].kind = M[k].kind /\ at[k].covers = M[k].covers
    <2>1. M[k] \in Messages /\ Len(messages) + k \in Nat
      BY <1>1, ElementOfSeq
    <2>2. at[k] = [M[k] EXCEPT !.pos = Len(messages) + k]
      OBVIOUS
    <2> HIDE DEF at
    <2> QED
      BY <2>1, <2>2 DEF Messages
  <1>4. at \in [1 .. Len(M) -> Messages]
    <2> DEFINE f(k) == [M[k] EXCEPT !.pos = Len(messages) + k]
    <2>1. \A k \in 1 .. Len(M) : f(k) \in Messages
      BY <1>3
    <2>2. at = [k \in 1 .. Len(M) |-> f(k)]
      OBVIOUS
    <2> HIDE DEF f, at
    <2> QED
      BY <2>1, <2>2
  <1> HIDE DEF at
  <1>5. at \in Seq(Messages) /\ Len(at) = Len(M)
    <2>1. at \in Seq(Messages)
      BY <1>1, <1>4, SeqDef
    <2>2. DOMAIN at = 1 .. Len(M) /\ DOMAIN at = 1 .. Len(at) /\ Len(at) \in Nat
      BY <2>1, <1>4, LenProperties
    <2> QED
      BY <2>1, <2>2, <1>1
  <1> QED
    BY <1>2, <1>3, <1>5 DEF CallId

\* What is covered stays covered.
LEMMA CoveredGrows ==
  ASSUME NEW L \in Seq(Messages), NEW N \in Seq(Messages), NEW A, NEW B, A \subseteq B,
         NEW S, Covered(L, A, S)
  PROVE  Covered(L \o N, B, S)
  <1>1. /\ Len(L \o N) = Len(L) + Len(N)
        /\ \A i \in 1 .. Len(L) : i \in 1 .. Len(L) + Len(N) /\ (L \o N)[i] = L[i]
    BY ConcatIs
  <1> DEFINE all == L \o N
  <1> SUFFICES ASSUME NEW p \in S
               PROVE  /\ p \in 1 .. Len(all)
                      /\ all[p].kind \in SystemKinds \/ \E r \in B : p \in r[1] .. r[2]
    BY DEF Covered
  <1>2. p \in 1 .. Len(L) /\ (L[p].kind \in SystemKinds \/ \E r \in A : p \in r[1] .. r[2])
    BY DEF Covered
  <1> QED
    BY <1>1, <1>2

\* A turn's own messages are nothing that earlier turns have said.
LEMMA EarlierStays ==
  ASSUME NEW L \in Seq(Messages), NEW N \in Seq(Messages), NEW n \in Nat,
         \A k \in 1 .. Len(N) : N[k].turn = n
  PROVE  Earlier(L \o N, n) = Earlier(L, n)
  <1> DEFINE all == L \o N
             S == {i \in DOMAIN L : L[i].kind = "boundary" /\ L[i].turn < n}
             R == {i \in DOMAIN all : all[i].kind = "boundary" /\ all[i].turn < n}
  <1>1. /\ all \in Seq(Messages) /\ Len(all) = Len(L) + Len(N)
        /\ Len(L) \in Nat /\ Len(N) \in Nat
        /\ \A i \in 1 .. Len(L) : i \in 1 .. Len(L) + Len(N) /\ all[i] = L[i]
        /\ \A i \in Len(L) + 1 .. Len(L) + Len(N) :
             i - Len(L) \in 1 .. Len(N) /\ all[i] = N[i - Len(L)]
    BY ConcatIs
  <1> HIDE DEF all
  <1>2. DOMAIN L = 1 .. Len(L) /\ DOMAIN all = 1 .. Len(all)
    BY <1>1, LenProperties
  <1>3. \A i \in 1 .. Len(all) : all[i].turn < n => i \in 1 .. Len(L)
    <2> SUFFICES ASSUME NEW i \in 1 .. Len(all), all[i].turn < n, i \notin 1 .. Len(L) PROVE FALSE
      OBVIOUS
    <2>1. i \in Len(L) + 1 .. Len(L) + Len(N)
      BY <1>1
    <2>2. all[i].turn = n
      BY <1>1, <2>1
    <2> QED
      BY <2>2
  <1>4. R = S
    BY <1>1, <1>2, <1>3
  <1>5. LastBoundary(all, n) = LastBoundary(L, n)
    BY <1>4 DEF LastBoundary
  <1>6. LastBoundary(L, n) \in 0 .. Len(L)
    <2>1. {0} \cup S \in SUBSET (0 .. Len(L)) /\ {0} \cup S # {}
      BY <1>1, <1>2
    <2> HIDE DEF S
    <2>2. Max({0} \cup S) \in 0 .. Len(L)
      BY <1>1, <2>1, MaxIsLargest
    <2> QED
      BY <2>2 DEF LastBoundary, S
  <1> DEFINE b == LastBoundary(L, n)
             Is(m) == m.kind \notin SystemKinds \cup {"signature"} /\ m.turn < n
  <1>7. {i \in b + 1 .. Len(all) : Is(all[i])} = {i \in b + 1 .. Len(L) : Is(L[i])}
    <2> HIDE DEF b
    <2>1. ASSUME NEW i \in b + 1 .. Len(all), Is(all[i]) PROVE i \in b + 1 .. Len(L) /\ Is(L[i])
      <3>1. b \in 0 .. Len(L)
        BY <1>6 DEF b
      <3>2. i \in 1 .. Len(all)
        BY <1>1, <3>1
      <3>3. i \in 1 .. Len(L)
        BY <1>3, <2>1, <3>2
      <3> QED
        BY <1>1, <2>1, <3>1, <3>3
    <2>2. ASSUME NEW i \in b + 1 .. Len(L), Is(L[i]) PROVE i \in b + 1 .. Len(all) /\ Is(all[i])
      <3>1. b \in 0 .. Len(L)
        BY <1>6 DEF b
      <3>2. i \in 1 .. Len(L)
        BY <1>1, <3>1
      <3> QED
        BY <1>1, <2>2, <3>1, <3>2
    <2> HIDE DEF Is
    <2> QED
      BY <2>1, <2>2
  <1> QED
    BY <1>5, <1>7 DEF Earlier, all

\* A history goes on with what turn n stores.
LEMMA HistoryGrows ==
  ASSUME messages \in Seq(Messages), IsHistory(messages, archive),
         NEW bigger, archive \subseteq bigger, NEW n \in Nat,
         \A i \in 1 .. Len(messages) : messages[i].turn <= n,
         NEW M \in Seq(Messages),
         \A k \in 1 .. Len(M) : M[k].turn = n /\ Covered(messages, bigger, M[k].covers),
         \A k \in 1 .. Len(M) : M[k].kind = "boundary" =>
           k = 1 /\ \A i \in 1 .. Len(messages) : messages[i].turn < n,
         ExchangesInOrder(M),
         \A i \in 1 .. Len(messages), k \in 1 .. Len(M) :
           IsExchange(messages[i]) /\ IsExchange(M[k]) => Precedes(messages[i], M[k]),
         \A k \in 1 .. Len(M) : M[k].kind = "result" =>
           \E i \in 1 .. Len(messages) : messages[i].kind = "call" /\ CallId(messages[i]) = CallId(M[k])
  PROVE  IsHistory(messages \o Positioned(M), bigger)
  <1> DEFINE L == messages
             N == Positioned(M)
             all == L \o N
  <1>1. /\ N \in Seq(Messages) /\ Len(N) = Len(M)
        /\ \A k \in 1 .. Len(N) :
             /\ N[k].pos = Len(L) + k
             /\ N[k].turn = M[k].turn /\ N[k].step = M[k].step
             /\ N[k].kind = M[k].kind /\ N[k].covers = M[k].covers
             /\ CallId(N[k]) = CallId(M[k])
    BY PositionedIs
  <1> HIDE DEF N
  <1>2. /\ all \in Seq(Messages) /\ Len(all) = Len(L) + Len(N)
        /\ Len(L) \in Nat /\ Len(N) \in Nat
        /\ \A i \in 1 .. Len(L) : i \in 1 .. Len(L) + Len(N) /\ all[i] = L[i]
        /\ \A i \in Len(L) + 1 .. Len(L) + Len(N) :
             i - Len(L) \in 1 .. Len(N) /\ all[i] = N[i - Len(L)]
    <2>1. L \in Seq(Messages) /\ N \in Seq(Messages)
      BY <1>1
    <2> HIDE DEF L
    <2> QED
      BY <2>1, ConcatIs
  <1>3. ASSUME NEW i \in 1 .. Len(all), i \notin 1 .. Len(L)
        PROVE  /\ i \in Len(L) + 1 .. Len(L) + Len(N) /\ i > Len(L)
               /\ i - Len(L) \in 1 .. Len(N) /\ all[i] = N[i - Len(L)]
    BY <1>2, <1>3
  <1>4. ASSUME NEW i \in 1 .. Len(all)
        PROVE  all[i].pos = i /\ Covered(all, bigger, all[i].covers)
    <2>1. CASE i \in 1 .. Len(L)
      <3>1. L[i].pos = i /\ Covered(L, archive, L[i].covers)
        BY <2>1 DEF IsHistory
      <3> QED
        BY <2>1, <3>1, <1>1, <1>2, CoveredGrows
    <2>2. CASE i \notin 1 .. Len(L)
      <3> DEFINE k == i - Len(L)
      <3>1. k \in 1 .. Len(N) /\ all[i] = N[k] /\ Len(L) + k = i
        BY <1>2, <1>3, <2>2
      <3> HIDE DEF k
      <3>2. N[k].pos = Len(L) + k /\ Covered(L, bigger, N[k].covers)
        BY <1>1, <3>1
      <3> QED
        BY <3>1, <3>2, <1>1, CoveredGrows
    <2> QED
      BY <2>1, <2>2
  <1> HIDE DEF all
  <1>5. ASSUME NEW i \in 1 .. Len(all), NEW j \in 1 .. Len(all), i < j
        PROVE  all[i].turn <= all[j].turn /\ (all[j].kind = "boundary" => all[i].turn < all[j].turn)
    <2>1. CASE j \in 1 .. Len(L)
      <3>1. i \in 1 .. Len(L) /\ all[i] = L[i] /\ all[j] = L[j]
        BY <1>2, <1>5, <2>1
      <3> QED
        BY <2>1, <3>1, <1>5 DEF IsHistory
    <2>2. CASE j \notin 1 .. Len(L) /\ i \in 1 .. Len(L)
      <3>1. all[i] = L[i]
        BY <1>2, <2>2
      <3>2. j - Len(L) \in 1 .. Len(N) /\ all[j] = N[j - Len(L)]
        BY <1>3, <2>2
      <3>3. all[j].turn = n /\ all[j].kind = M[j - Len(L)].kind
        BY <1>1, <3>2
      <3> QED
        BY <3>1, <3>2, <3>3, <2>2, <1>1
    <2>3. CASE i \notin 1 .. Len(L)
      <3>1. j \notin 1 .. Len(L)
        BY <1>2, <1>3, <1>5, <2>3
      <3>2. /\ all[i].turn = n /\ all[j].turn = n
            /\ j - Len(L) \in 1 .. Len(N) /\ all[j].kind = M[j - Len(L)].kind
        BY ZenonT(40), <1>1, <1>3, <2>3, <3>1
      <3>3. j - Len(L) # 1
        BY <1>2, <1>3, <1>5, <2>3, <3>1
      <3>4. all[j].kind # "boundary"
        BY <3>2, <3>3, <1>1
      <3> QED
        BY <3>2, <3>4
    <2> QED
      BY <2>1, <2>2, <2>3
  <1>6. ExchangesInOrder(all)
    <2>1. ExchangesInOrder(N)
      <3> SUFFICES ASSUME NEW i \in 1 .. Len(N), NEW j \in 1 .. Len(N), i < j,
                          IsExchange(N[i]), IsExchange(N[j])
                   PROVE  Precedes(N[i], N[j])
        BY DEF ExchangesInOrder
      <3>1. IsExchange(M[i]) /\ IsExchange(M[j]) /\ i \in 1 .. Len(M) /\ j \in 1 .. Len(M)
        BY <1>1 DEF IsExchange
      <3>2. Precedes(M[i], M[j])
        BY <3>1 DEF ExchangesInOrder
      <3> QED
        BY <1>1, <3>2 DEF Precedes
    <2>2. ASSUME NEW i \in 1 .. Len(L), NEW k \in 1 .. Len(N), IsExchange(L[i]), IsExchange(N[k])
          PROVE  Precedes(L[i], N[k])
      <3>1. IsExchange(M[k]) /\ k \in 1 .. Len(M)
        BY <1>1, <2>2 DEF IsExchange
      <3>2. Precedes(L[i], M[k])
        BY <2>2, <3>1
      <3> QED
        BY <1>1, <3>2 DEF Precedes
    <2>3. ExchangesInOrder(L)
      BY DEF IsHistory
    <2> QED
      BY <1>1, <2>1, <2>2, <2>3, OrderOfBoth DEF all
  <1>7. ResultsFollowCalls(all)
    <2>1. \A k \in 1 .. Len(N) : N[k].kind = "result" =>
            \E i \in 1 .. Len(L) : L[i].kind = "call" /\ CallId(L[i]) = CallId(N[k])
      BY SMTT(20), <1>1
    <2>2. ResultsFollowCalls(L)
      BY DEF IsHistory
    <2> QED
      BY <1>1, <2>1, <2>2, BothFollow DEF all
  <1>8. IsHistory(all, bigger)
    BY <1>4, <1>5, <1>6, <1>7 DEF IsHistory
  <1> QED
    BY <1>8 DEF all, N

-----------------------------------------------------------------------------
\* The steps of a turn

LEMMA SingleIs ==
  ASSUME NEW X, NEW m \in X
  PROVE  /\ <<m>> \in Seq(X) /\ Len(<<m>>) = 1 /\ <<m>>[1] = m
         /\ \A k \in 1 .. Len(<<m>>) : k = 1
  OBVIOUS

LEMMA MessageIs ==
  ASSUME NEW t \in Nat, NEW s \in Nat, NEW kind \in Kinds, NEW z \in Nat
  PROVE  /\ Message(t, s, kind, z) \in Messages
         /\ Message(t, s, kind, z).turn = t /\ Message(t, s, kind, z).step = s
         /\ Message(t, s, kind, z).kind = kind /\ Message(t, s, kind, z).covers = {}
  BY DEF Message, Messages

\* After the list L comes what M says.
GoesOn(all, L, M) ==
  /\ all \in Seq(Messages) /\ Len(all) = Len(L) + Len(M)
  /\ \A i \in 1 .. Len(L) : i \in 1 .. Len(L) + Len(M) /\ all[i] = L[i]
  /\ \A i \in 1 .. Len(L) + Len(M) :
       \/ i \in 1 .. Len(L)
       \/ \E k \in 1 .. Len(M) :
            all[i].kind = M[k].kind /\ all[i].turn = M[k].turn /\ all[i].step = M[k].step
  /\ \A k \in 1 .. Len(M) :
       /\ Len(L) + k \in 1 .. Len(L) + Len(M)
       /\ all[Len(L) + k].kind = M[k].kind /\ CallId(all[Len(L) + k]) = CallId(M[k])

LEMMA StoredIs ==
  ASSUME messages \in Seq(Messages), NEW M \in Seq(Messages)
  PROVE  GoesOn(messages \o Positioned(M), messages, M)
  <1> DEFINE L == messages
             N == Positioned(M)
             all == L \o N
  <1>1. /\ N \in Seq(Messages) /\ Len(N) = Len(M)
        /\ \A k \in 1 .. Len(M) :
             /\ N[k].turn = M[k].turn /\ N[k].step = M[k].step /\ N[k].kind = M[k].kind
             /\ CallId(N[k]) = CallId(M[k])
    BY PositionedIs
  <1> HIDE DEF N
  <1>2. /\ all \in Seq(Messages) /\ Len(all) = Len(L) + Len(N)
        /\ Len(L) \in Nat /\ Len(N) \in Nat
        /\ \A i \in 1 .. Len(L) : i \in 1 .. Len(L) + Len(N) /\ all[i] = L[i]
        /\ \A i \in Len(L) + 1 .. Len(L) + Len(N) :
             i - Len(L) \in 1 .. Len(N) /\ all[i] = N[i - Len(L)]
        /\ \A k \in 1 .. Len(N) : Len(L) + k \in Len(L) + 1 .. Len(L) + Len(N) /\ all[Len(L) + k] = N[k]
    <2>1. L \in Seq(Messages) /\ N \in Seq(Messages)
      BY <1>1
    <2> HIDE DEF L
    <2> QED
      BY <2>1, ConcatIs
  <1> HIDE DEF all
  <1>3. ASSUME NEW i \in 1 .. Len(L) + Len(M), i \notin 1 .. Len(L)
        PROVE  \E k \in 1 .. Len(M) :
                 /\ all[i].kind = M[k].kind /\ all[i].turn = M[k].turn /\ all[i].step = M[k].step
    <2>1. i \in Len(L) + 1 .. Len(L) + Len(N)
      BY <1>1, <1>2, <1>3
    <2>2. i - Len(L) \in 1 .. Len(M) /\ all[i] = N[i - Len(L)]
      BY <1>1, <1>2, <2>1
    <2> QED
      BY <1>1, <2>2
  <1>4. ASSUME NEW k \in 1 .. Len(M)
        PROVE  /\ Len(L) + k \in 1 .. Len(L) + Len(M)
               /\ all[Len(L) + k].kind = M[k].kind /\ CallId(all[Len(L) + k]) = CallId(M[k])
    <2>1. all[Len(L) + k] = N[k] /\ Len(L) + k \in Len(L) + 1 .. Len(L) + Len(N)
      BY <1>1, <1>2, <1>4
    <2>2. Len(L) + k \in 1 .. Len(L) + Len(M)
      BY <1>1, <1>2, <2>1
    <2> QED
      BY <1>1, <2>1, <2>2
  <1>5. all \in Seq(Messages) /\ Len(all) = Len(L) + Len(M)
    BY <1>1, <1>2
  <1>6. \A i \in 1 .. Len(L) : i \in 1 .. Len(L) + Len(M) /\ all[i] = L[i]
    BY <1>1, <1>2
  <1>7. GoesOn(all, L, M)
    BY <1>3, <1>4, <1>5, <1>6 DEF GoesOn
  <1> QED
    BY <1>7 DEF all, N

LEMMA MicrocompactIs ==
  ASSUME NEW L \in Seq(Messages)
  PROVE  Microcompact(L) \in Seq(Messages) /\ Alike(Microcompact(L), L)
  <1>1. Len(L) \in Nat /\ DOMAIN L = 1 .. Len(L) /\ \A i \in 1 .. Len(L) : L[i] \in Messages
    BY LenProperties, ElementOfSeq
  <1>2. \A i \in 1 .. Len(L) : L[i] = [L[i] EXCEPT !.size = L[i].size]
    BY <1>1 DEF Messages
  <1>3. CASE Microcompact(L) = L
    BY <1>2, <1>3 DEF Alike
  <1>4. CASE Microcompact(L) # L
    <2> DEFINE results == {i \in DOMAIN L : L[i].kind = "result" /\ L[i].size > PreviewTokens}
               old == {i \in results : Cardinality({j \in results : j > i}) >= KeepToolResults}
               new(i) == IF i \in old THEN [L[i] EXCEPT !.size = PreviewTokens] ELSE L[i]
               M == [i \in DOMAIN L |-> new(i)]
    <2>1. Microcompact(L) = M
      BY <1>4 DEF Microcompact
    <2> HIDE DEF old
    <2>2. \A i \in 1 .. Len(L) : new(i) \in Messages /\ new(i) = [L[i] EXCEPT !.size = new(i).size]
      <3> SUFFICES ASSUME NEW i \in 1 .. Len(L)
                   PROVE  new(i) \in Messages /\ new(i) = [L[i] EXCEPT !.size = new(i).size]
        OBVIOUS
      <3>1. L[i] \in Messages
        BY <1>1
      <3>2. CASE i \in old
        <4>1. new(i) = [L[i] EXCEPT !.size = PreviewTokens] /\ PreviewTokens \in Nat
          BY <3>2 DEF PreviewTokens
        <4> HIDE DEF new
        <4>2. new(i) \in Messages /\ new(i).size = PreviewTokens
          BY <3>1, <4>1 DEF Messages
        <4> QED
          BY <4>1, <4>2
      <3>3. CASE i \notin old
        <4>1. new(i) = L[i]
          BY <3>3
        <4> HIDE DEF new
        <4> QED
          BY <3>1, <4>1, <1>2
      <3> QED
        BY <3>2, <3>3
    <2> HIDE DEF new
    <2>3. M \in [1 .. Len(L) -> Messages] /\ \A i \in 1 .. Len(L) : M[i] = new(i)
      BY <1>1, <2>2
    <2> HIDE DEF M
    <2>4. M \in Seq(Messages) /\ Len(M) = Len(L)
      <3>1. M \in Seq(Messages)
        BY <1>1, <2>3, SeqDef
      <3>2. DOMAIN M = 1 .. Len(L) /\ DOMAIN M = 1 .. Len(M) /\ Len(M) \in Nat
        BY <3>1, <2>3, LenProperties
      <3> QED
        BY <1>1, <3>1, <3>2
    <2> QED
      BY <2>1, <2>2, <2>3, <2>4 DEF Alike
  <1> QED
    BY <1>3, <1>4

\* A turn that has ended leaves a history.
LEMMA TurnEnds ==
  ASSUME ConversationInv, turn' = [Idle EXCEPT !.no = turn.no],
         messages' \in Seq(Messages), archive' \in SUBSET (Nat \X Nat), troubles' \in Nat,
         IsHistory(messages', archive'), \A i \in 1 .. Len(messages') : messages'[i].turn <= turn.no
  PROVE  ConversationInv'
  <1>1. turn.no \in Nat
    BY DEF ConversationInv, ConversationTypes
  <1>2. /\ turn'.at = "idle" /\ turn'.no = turn.no
        /\ turn' \in [at : {"idle", "compact", "call", "tools"}, no : Nat, step : Nat,
                      prior : Seq(Messages), own : Seq(Messages), calls : Seq(Messages),
                      saved : BOOLEAN, compacted : BOOLEAN, cut : BOOLEAN]
    BY <1>1, EmptySeq DEF Idle
  <1>3. ConversationTypes'
    BY <1>2 DEF ConversationTypes
  <1>4. Stored'
    BY <1>2 DEF Stored
  <1>5. OwnIsWhole'
    BY <1>2 DEF OwnIsWhole
  <1>6. PriorIsWhole'
    BY <1>2 DEF PriorIsWhole
  <1> QED
    BY <1>3, <1>4, <1>5, <1>6 DEF ConversationInv

LEMMA InitInv == ConversationInit => ConversationInv
  <1> SUFFICES ASSUME ConversationInit PROVE ConversationInv
    OBVIOUS
  <1>1. turn = Idle /\ messages = <<>> /\ archive = {} /\ troubles = 0
    BY DEF ConversationInit
  <1>2. /\ turn.at = "idle" /\ turn.no = 0
        /\ turn \in [at : {"idle", "compact", "call", "tools"}, no : Nat, step : Nat,
                     prior : Seq(Messages), own : Seq(Messages), calls : Seq(Messages),
                     saved : BOOLEAN, compacted : BOOLEAN, cut : BOOLEAN]
    BY <1>1, EmptySeq DEF Idle
  <1>3. messages \in Seq(Messages) /\ Len(messages) = 0 /\ DOMAIN messages = {}
    BY <1>1, EmptySeq
  <1>4. ConversationTypes
    BY <1>1, <1>2, <1>3 DEF ConversationTypes
  <1>5. Stored
    <2>1. IsHistory(messages, archive)
      BY <1>3 DEF IsHistory, ExchangesInOrder, ResultsFollowCalls
    <2> QED
      BY <1>2, <1>3, <2>1 DEF Stored
  <1> QED
    BY <1>2, <1>4, <1>5 DEF ConversationInv, OwnIsWhole, PriorIsWhole

LEMMA BeginTurnInv == ConversationInv /\ BeginTurn => ConversationInv'
  <1> SUFFICES ASSUME ConversationInv, BeginTurn PROVE ConversationInv'
    OBVIOUS
  <1>1. /\ ConversationTypes /\ Stored /\ turn.no \in Nat /\ messages \in Seq(Messages)
        /\ IsHistory(messages, archive)
        /\ \A i \in 1 .. Len(messages) : messages[i].turn \in Nat /\ messages[i].turn <= turn.no
    <2>1. /\ ConversationTypes /\ Stored /\ turn.no \in Nat /\ messages \in Seq(Messages)
          /\ IsHistory(messages, archive)
          /\ \A i \in 1 .. Len(messages) : messages[i].turn <= turn.no
      BY DEF ConversationInv, ConversationTypes, Stored
    <2>2. \A i \in 1 .. Len(messages) : messages[i] \in Messages
      BY <2>1, ElementOfSeq
    <2> QED
      BY <2>1, <2>2 DEF Messages
  <1>2. PICK z \in Sizes :
          turn' = [Idle EXCEPT !.at = "compact", !.no = turn.no + 1,
                               !.prior = Microcompact(messages),
                               !.own = <<Message(turn.no + 1, 0, "user", z)>>]
    BY DEF BeginTurn
  <1> DEFINE user == Message(turn.no + 1, 0, "user", z)
             own == <<user>>
             prior == Microcompact(messages)
  <1>3. messages' = messages /\ archive' = archive /\ troubles' = troubles
    BY DEF BeginTurn
  <1>4. user \in Messages /\ user.turn = turn.no + 1 /\ user.kind = "user" /\ user.covers = {}
    <2>1. turn.no + 1 \in Nat /\ 0 \in Nat /\ "user" \in Kinds /\ z \in Nat
      BY <1>1, ConversationParameters DEF Kinds
    <2> QED
      BY <2>1, MessageIs
  <1> HIDE DEF user
  <1>5. /\ own \in Seq(Messages) /\ Len(own) = 1 /\ own[1] = user
        /\ \A k \in 1 .. Len(own) : k = 1
    BY <1>4, SingleIs
  <1> HIDE DEF own
  <1>6. prior \in Seq(Messages) /\ Alike(prior, messages)
    BY <1>1, MicrocompactIs
  <1> HIDE DEF prior
  <1>7. /\ turn'.at = "compact" /\ turn'.no = turn.no + 1 /\ turn'.step = 0
        /\ turn'.prior = prior /\ turn'.own = own /\ turn'.saved = FALSE
        /\ turn' \in [at : {"idle", "compact", "call", "tools"}, no : Nat, step : Nat,
                      prior : Seq(Messages), own : Seq(Messages), calls : Seq(Messages),
                      saved : BOOLEAN, compacted : BOOLEAN, cut : BOOLEAN]
    <2>1. turn' = [Idle EXCEPT !.at = "compact", !.no = turn.no + 1, !.prior = prior, !.own = own]
      BY <1>2 DEF prior, own, user
    <2>2. <<>> \in Seq(Messages) /\ turn.no + 1 \in Nat
      BY <1>1, EmptySeq
    <2> QED
      BY <2>1, <2>2, <1>5, <1>6 DEF Idle
  <1>8. ConversationTypes'
    BY <1>1, <1>3, <1>7 DEF ConversationTypes
  <1>9. Stored'
    <2>1. \A i \in 1 .. Len(messages) : messages[i].turn < turn.no + 1
      BY <1>1
    <2> QED
      BY <1>1, <1>3, <1>7, <2>1 DEF Stored
  <1>10. OwnIsWhole'
    <2>1. \A i \in 1 .. Len(own) : /\ own[i].turn = turn.no + 1 /\ own[i].covers = {}
                                   /\ own[i].kind = "user"
      BY <1>4, <1>5
    <2>2. \A i \in 1 .. Len(own) : ~ IsExchange(own[i]) /\ own[i].kind \notin SystemKinds /\ own[i].kind # "result"
                                     /\ own[i].kind # "call"
      BY <2>1 DEF IsExchange, SystemKinds
    <2>3. ExchangesInOrder(own) /\ ResultsFollowCalls(own) /\ StepsTaken(own, turn')
      BY <2>2, <1>5, FollowingCalls DEF ExchangesInOrder, StepsTaken
    <2> QED
      BY <1>7, <2>1, <2>2, <2>3 DEF OwnIsWhole
  <1>11. PriorIsWhole'
    BY <1>3, <1>6, <1>7 DEF PriorIsWhole
  <1> QED
    BY <1>8, <1>9, <1>10, <1>11 DEF ConversationInv

LEMMA RequestRefusedInv == ConversationInv /\ RequestRefused => ConversationInv'
  <1> SUFFICES ASSUME ConversationInv, RequestRefused PROVE ConversationInv'
    OBVIOUS
  <1>1. /\ messages' = messages /\ archive' = archive /\ troubles' = troubles
        /\ turn' = [Idle EXCEPT !.no = turn.no]
    BY DEF RequestRefused
  <1>2. /\ messages \in Seq(Messages) /\ archive \in SUBSET (Nat \X Nat) /\ troubles \in Nat
        /\ IsHistory(messages, archive) /\ \A i \in 1 .. Len(messages) : messages[i].turn <= turn.no
    BY DEF ConversationInv, ConversationTypes, Stored
  <1> QED
    BY <1>1, <1>2, TurnEnds

\* What the invariant says while a turn asks the model, or runs its tools.
LEMMA TurnFacts ==
  ASSUME ConversationInv, turn.at \in {"call", "tools"}
  PROVE  /\ messages \in Seq(Messages) /\ archive \in SUBSET (Nat \X Nat) /\ troubles \in Nat
         /\ turn.no \in Nat /\ turn.step \in Nat /\ turn.own \in Seq(Messages)
         /\ turn.prior \in Seq(Messages) /\ turn.calls \in Seq(Messages)
         /\ turn.saved \in BOOLEAN /\ turn.compacted \in BOOLEAN /\ turn.cut \in BOOLEAN
         /\ IsHistory(messages, archive)
         /\ \A i \in 1 .. Len(messages) : /\ messages[i].turn \in Nat /\ messages[i].step \in Nat
                                          /\ messages[i].turn <= turn.no
         /\ StepsTaken(messages, turn)
         /\ \A i \in 1 .. Len(turn.own) :
              /\ turn.own[i].turn = turn.no /\ turn.own[i].covers = {}
              /\ turn.own[i].kind \notin SystemKinds
              /\ turn.saved \/ ~ IsExchange(turn.own[i])
              /\ turn.saved /\ turn.own[i].kind = "call" =>
                   \E j \in 1 .. Len(messages) : /\ messages[j].kind = "call"
                                                 /\ CallId(messages[j]) = CallId(turn.own[i])
         /\ ExchangesInOrder(turn.own) /\ ResultsFollowCalls(turn.own) /\ StepsTaken(turn.own, turn)
  <1>1. /\ messages \in Seq(Messages) /\ archive \in SUBSET (Nat \X Nat) /\ troubles \in Nat
        /\ turn.no \in Nat /\ turn.step \in Nat /\ turn.own \in Seq(Messages)
        /\ turn.prior \in Seq(Messages) /\ turn.calls \in Seq(Messages)
        /\ turn.saved \in BOOLEAN /\ turn.compacted \in BOOLEAN /\ turn.cut \in BOOLEAN
    BY DEF ConversationInv, ConversationTypes
  <1>2. /\ IsHistory(messages, archive) /\ StepsTaken(messages, turn)
        /\ \A i \in 1 .. Len(messages) : messages[i].turn <= turn.no
    BY DEF ConversationInv, Stored
  <1>3. \A i \in 1 .. Len(messages) : messages[i].turn \in Nat /\ messages[i].step \in Nat
    <2>1. \A i \in 1 .. Len(messages) : messages[i] \in Messages
      BY <1>1, ElementOfSeq
    <2> QED
      BY <2>1 DEF Messages
  <1>4. turn.at # "idle"
    OBVIOUS
  <1>5. OwnIsWhole
    BY DEF ConversationInv
  <1> QED
    BY <1>1, <1>2, <1>3, <1>4, <1>5 DEF OwnIsWhole

\* An answer is stored, with the user's message if it is the first one.
LEMMA AnswerIsStored ==
  ASSUME ConversationInv, turn.at = "call", NEW said \in Seq(Messages),
         \A k \in 1 .. Len(said) :
           /\ said[k].turn = turn.no /\ said[k].step = turn.step
           /\ said[k].covers = {} /\ said[k].kind \notin SystemKinds \cup {"result"},
         Persist(said)
  PROVE  \E N \in Seq(Messages) :
           /\ messages' = messages \o N /\ \A k \in 1 .. Len(N) : N[k].turn = turn.no
           /\ messages' \in Seq(Messages) /\ IsHistory(messages', archive)
           /\ \A i \in 1 .. Len(messages') : messages'[i].turn <= turn.no
           /\ \A i \in 1 .. Len(messages) : i \in 1 .. Len(messages') /\ messages'[i] = messages[i]
           /\ \A i \in 1 .. Len(messages') : IsExchange(messages'[i]) /\ messages'[i].turn = turn.no =>
                /\ messages'[i].step <= turn.step
                /\ messages'[i].step = turn.step => messages'[i].kind = "call"
           /\ \A k \in 1 .. Len(said) : \E j \in 1 .. Len(messages') :
                messages'[j].kind = said[k].kind /\ CallId(messages'[j]) = CallId(said[k])
  <1> DEFINE pre == IF turn.saved THEN <<>> ELSE turn.own
             M == pre \o said
             all == messages \o Positioned(M)
  <1>0. messages' = all
    BY DEF Persist
  <1>1. /\ messages \in Seq(Messages) /\ turn.no \in Nat /\ turn.step \in Nat /\ turn.own \in Seq(Messages)
        /\ turn.saved \in BOOLEAN /\ IsHistory(messages, archive) /\ StepsTaken(messages, turn)
        /\ \A i \in 1 .. Len(messages) : /\ messages[i].turn \in Nat /\ messages[i].step \in Nat
                                         /\ messages[i].turn <= turn.no
        /\ \A i \in 1 .. Len(turn.own) :
             /\ turn.own[i].turn = turn.no /\ turn.own[i].covers = {}
             /\ turn.own[i].kind \notin SystemKinds
             /\ turn.saved \/ ~ IsExchange(turn.own[i])
    BY TurnFacts
  <1>2. /\ pre \in Seq(Messages)
        /\ \A i \in 1 .. Len(pre) : /\ pre[i].turn = turn.no /\ pre[i].covers = {}
                                    /\ pre[i].kind \notin SystemKinds /\ ~ IsExchange(pre[i])
    BY <1>1, EmptySeq
  <1> HIDE DEF pre
  <1>3. \A k \in 1 .. Len(said) :
          IsExchange(said[k]) => said[k].kind = "call" /\ said[k].step = turn.step /\ said[k].turn = turn.no
    BY DEF IsExchange
  <1>4. /\ M \in Seq(Messages) /\ Len(M) = Len(pre) + Len(said)
        /\ Len(pre) \in Nat /\ Len(said) \in Nat
        /\ \A i \in 1 .. Len(pre) : M[i] = pre[i]
        /\ \A i \in Len(pre) + 1 .. Len(pre) + Len(said) :
             i - Len(pre) \in 1 .. Len(said) /\ M[i] = said[i - Len(pre)]
        /\ \A k \in 1 .. Len(said) : /\ Len(pre) + k \in Len(pre) + 1 .. Len(pre) + Len(said)
                                     /\ M[Len(pre) + k] = said[k]
    BY <1>2, ConcatIs
  <1>5. ExchangesInOrder(M)
    <2>1. ExchangesInOrder(pre)
      BY <1>2 DEF ExchangesInOrder
    <2>2. ExchangesInOrder(said)
      BY <1>3 DEF ExchangesInOrder, Precedes
    <2> QED
      BY <2>1, <2>2, <1>2, OrderOfBoth
  <1> HIDE DEF M
  <1>6. ASSUME NEW k \in 1 .. Len(M)
        PROVE  /\ M[k].turn = turn.no /\ M[k].covers = {}
               /\ M[k].kind \notin SystemKinds \cup {"result"}
               /\ IsExchange(M[k]) => M[k].kind = "call" /\ M[k].step = turn.step
    <2>1. CASE k \in 1 .. Len(pre)
      BY <2>1, <1>2, <1>4 DEF IsExchange
    <2>2. CASE k \notin 1 .. Len(pre)
      <3>1. k \in Len(pre) + 1 .. Len(pre) + Len(said)
        BY <2>2, <1>4, <1>6
      <3>2. k - Len(pre) \in 1 .. Len(said) /\ M[k] = said[k - Len(pre)]
        BY <3>1, <1>4
      <3> QED
        BY <3>2, <1>3
    <2> QED
      BY <2>1, <2>2
  <1>7. ASSUME NEW i \in 1 .. Len(messages), NEW k \in 1 .. Len(M),
               IsExchange(messages[i]), IsExchange(M[k])
        PROVE  Precedes(messages[i], M[k])
    <2>1. M[k].turn = turn.no /\ M[k].step = turn.step
      BY <1>6, <1>7
    <2>2. messages[i].turn = turn.no => messages[i].step < turn.step
      BY <1>1, <1>7 DEF StepsTaken
    <2>3. messages[i].turn < turn.no \/ messages[i].turn = turn.no
      BY SMTT(20), <1>1
    <2> QED
      BY <2>1, <2>2, <2>3 DEF Precedes
  <1>8. IsHistory(all, archive)
    <2>1. \A k \in 1 .. Len(M) : M[k].turn = turn.no /\ Covered(messages, archive, M[k].covers)
      BY <1>6 DEF Covered
    <2>2. \A k \in 1 .. Len(M) : M[k].kind # "boundary" /\ M[k].kind # "result"
      BY <1>6 DEF SystemKinds
    <2> QED
      BY ZenonT(40), <1>1, <1>4, <1>5, <1>7, <2>1, <2>2, HistoryGrows
  <1>9. GoesOn(all, messages, M)
    BY <1>1, <1>4, StoredIs
  <1>10. Positioned(M) \in Seq(Messages) /\ \A k \in 1 .. Len(Positioned(M)) : Positioned(M)[k].turn = turn.no
    BY <1>1, <1>4, <1>6, PositionedIs
  <1> DEFINE N == Positioned(M)
  <1>11. all = messages \o N
    OBVIOUS
  <1> HIDE DEF all, N
  <1>12. ASSUME NEW i \in 1 .. Len(all)
         PROVE  /\ all[i].turn <= turn.no
                /\ IsExchange(all[i]) /\ all[i].turn = turn.no =>
                     all[i].step <= turn.step /\ (all[i].step = turn.step => all[i].kind = "call")
    <2>1. CASE i \in 1 .. Len(messages)
      <3>1. all[i] = messages[i]
        BY <2>1, <1>9 DEF GoesOn
      <3>2. IsExchange(messages[i]) /\ messages[i].turn = turn.no => messages[i].step < turn.step
        BY <2>1 DEF StepsTaken, ConversationInv, Stored
      <3> QED
        BY <2>1, <3>1, <3>2, <1>1
    <2>2. CASE \E k \in 1 .. Len(M) :
                 all[i].kind = M[k].kind /\ all[i].turn = M[k].turn /\ all[i].step = M[k].step
      <3>1. PICK k \in 1 .. Len(M) :
              all[i].kind = M[k].kind /\ all[i].turn = M[k].turn /\ all[i].step = M[k].step
        BY <2>2
      <3>2. IsExchange(all[i]) => M[k].kind = "call" /\ M[k].step = turn.step
        BY <3>1, <1>6 DEF IsExchange
      <3> QED
        BY <3>1, <3>2, <1>1, <1>6
    <2> QED
      BY <2>1, <2>2, <1>9 DEF GoesOn
  <1>13. ASSUME NEW k \in 1 .. Len(said)
         PROVE  \E j \in 1 .. Len(all) : all[j].kind = said[k].kind /\ CallId(all[j]) = CallId(said[k])
    <2> DEFINE q == Len(pre) + k
    <2>1. q \in 1 .. Len(M) /\ M[q] = said[k]
      BY <1>4, <1>13
    <2> HIDE DEF q
    <2>2. /\ Len(messages) + q \in 1 .. Len(all)
          /\ all[Len(messages) + q].kind = M[q].kind
          /\ CallId(all[Len(messages) + q]) = CallId(M[q])
      BY <1>9, <2>1 DEF GoesOn
    <2> QED
      BY <2>1, <2>2
  <1>14. \A i \in 1 .. Len(messages) : i \in 1 .. Len(all) /\ all[i] = messages[i]
    BY <1>9 DEF GoesOn
  <1>15. N \in Seq(Messages) /\ \A k \in 1 .. Len(N) : N[k].turn = turn.no
    BY <1>10 DEF N
  <1>16. all \in Seq(Messages)
    BY <1>9 DEF GoesOn
  <1> QED
    BY <1>0, <1>8, <1>16, <1>11, <1>12, <1>13, <1>14, <1>15

LEMMA FinalAnswerInv == ConversationInv /\ FinalAnswer => ConversationInv'
  <1> SUFFICES ASSUME ConversationInv, FinalAnswer PROVE ConversationInv'
    OBVIOUS
  <1>1. turn.at = "call" /\ turn' = [Idle EXCEPT !.no = turn.no] /\ archive' = archive
    BY DEF FinalAnswer, FailConversation
  <1>2. /\ messages \in Seq(Messages) /\ archive \in SUBSET (Nat \X Nat) /\ troubles \in Nat
        /\ turn.no \in Nat /\ turn.step \in Nat /\ IsHistory(messages, archive)
        /\ \A i \in 1 .. Len(messages) : messages[i].turn <= turn.no
    BY <1>1, TurnFacts
  <1>3. CASE /\ Persist(<<Message(turn.no, turn.step, "text", 1)>>) /\ UNCHANGED troubles
    <2> DEFINE text == Message(turn.no, turn.step, "text", 1)
               said == <<text>>
    <2>1. /\ text \in Messages /\ text.turn = turn.no /\ text.step = turn.step
          /\ text.kind = "text" /\ text.covers = {}
      <3>1. "text" \in Kinds /\ 1 \in Nat
        BY DEF Kinds
      <3> QED
        BY <1>2, <3>1, MessageIs
    <2> HIDE DEF text
    <2>2. /\ said \in Seq(Messages) /\ Len(said) = 1 /\ said[1] = text
          /\ \A k \in 1 .. Len(said) : k = 1
      BY <2>1, SingleIs
    <2>3. Persist(said)
      BY <1>3 DEF text
    <2> HIDE DEF said
    <2>4. \A k \in 1 .. Len(said) :
            /\ said[k].turn = turn.no /\ said[k].step = turn.step
            /\ said[k].covers = {} /\ said[k].kind \notin SystemKinds \cup {"result"}
      BY <2>1, <2>2 DEF SystemKinds
    <2>5. /\ messages' \in Seq(Messages) /\ IsHistory(messages', archive)
          /\ \A i \in 1 .. Len(messages') : messages'[i].turn <= turn.no
      BY <1>1, <2>2, <2>3, <2>4, AnswerIsStored
    <2> QED
      BY <1>1, <1>2, <1>3, <2>5, TurnEnds
  <1>4. CASE FailConversation /\ UNCHANGED messages
    <2>1. troubles' \in Nat /\ messages' = messages
      BY <1>2, <1>4 DEF FailConversation, Trouble
    <2> QED
      BY <1>1, <1>2, <2>1, TurnEnds
  <1> QED
    BY <1>3, <1>4 DEF FinalAnswer

\* What the turn goes on with stays whole while it stores more.
LEMMA PriorStays ==
  ASSUME ConversationInv, turn.at \in {"call", "tools"},
         NEW N \in Seq(Messages), messages' = messages \o N,
         \A k \in 1 .. Len(N) : N[k].turn = turn.no, archive' = archive,
         turn'.at \in {"call", "tools"}, turn'.no = turn.no, turn'.prior = turn.prior,
         turn'.compacted = turn.compacted, turn'.cut = turn.cut
  PROVE  PriorIsWhole'
  <1> DEFINE active == AfterBoundary(turn.prior)
             all == messages \o N
  <1>1. turn.no \in Nat /\ messages \in Seq(Messages)
    BY TurnFacts
  <1>2. /\ ExchangesInOrder(active) /\ ResultsFollowCalls(active)
        /\ \A i \in 1 .. Len(active) : /\ IsExchange(active[i]) => active[i].turn < turn.no
                                       /\ Covered(messages, archive, active[i].covers)
        /\ turn.compacted /\ ~ turn.cut => Earlier(messages, turn.no) \subseteq Told(active)
    BY DEF ConversationInv, PriorIsWhole
  <1>3. Earlier(all, turn.no) = Earlier(messages, turn.no)
    BY <1>1, EarlierStays
  <1> HIDE DEF active
  <1>4. \A i \in 1 .. Len(active) : Covered(all, archive, active[i].covers)
    BY <1>1, <1>2, CoveredGrows
  <1> HIDE DEF all
  <1>5. messages' = all /\ turn'.at # "compact"
    BY DEF all
  <1>6. AfterBoundary(turn.prior)' = active
    BY DEF active
  <1> QED
    BY <1>2, <1>3, <1>4, <1>5, <1>6 DEF PriorIsWhole

LEMMA CallToolsInv == ConversationInv /\ CallTools => ConversationInv'
  <1> SUFFICES ASSUME ConversationInv, CallTools PROVE ConversationInv'
    OBVIOUS
  <1>1. turn.at = "call" /\ archive' = archive /\ troubles' = troubles
    BY DEF CallTools
  <1>2. PICK response \in Responses :
          LET said == FromModelItems(response) IN
          /\ Persist(said)
          /\ turn' = [turn EXCEPT !.at = "tools", !.own = @ \o said, !.saved = TRUE,
                                  !.calls = WithoutKinds({"text", "signature"}, said)]
    BY DEF CallTools
  <1> DEFINE said == FromModelItems(response)
             calls == WithoutKinds({"text", "signature"}, said)
             own == turn.own
             longer == own \o said
  <1>3. /\ messages \in Seq(Messages) /\ archive \in SUBSET (Nat \X Nat) /\ troubles \in Nat
        /\ turn.no \in Nat /\ turn.step \in Nat /\ own \in Seq(Messages)
        /\ \A i \in 1 .. Len(own) :
             /\ own[i].turn = turn.no /\ own[i].covers = {} /\ own[i].kind \notin SystemKinds
             /\ turn.saved \/ ~ IsExchange(own[i])
             /\ turn.saved /\ own[i].kind = "call" =>
                  \E j \in 1 .. Len(messages) : /\ messages[j].kind = "call"
                                                /\ CallId(messages[j]) = CallId(own[i])
        /\ ExchangesInOrder(own) /\ ResultsFollowCalls(own) /\ StepsTaken(own, turn)
    BY <1>1, TurnFacts
  <1>4. /\ said \in Seq(Messages)
        /\ \A k \in 1 .. Len(said) :
             /\ said[k].turn = turn.no /\ said[k].step = turn.step /\ said[k].covers = {}
             /\ said[k].kind \in {"text", "signature", "call"}
    <2>0. \A kind \in Kinds, c \in Nat :
            LET it == [Message(turn.no, turn.step, kind, 1) EXCEPT !.call = c] IN
            /\ it \in Messages /\ it.turn = turn.no /\ it.step = turn.step
            /\ it.covers = {} /\ it.kind = kind
      BY <1>3 DEF Message, Messages
    <2>1. response \in Seq({"text", "signature", "call"})
      BY <1>2, ConversationParameters
    <2>2. /\ Len(response) \in Nat /\ DOMAIN response = 1 .. Len(response)
          /\ \A k \in 1 .. Len(response) : response[k] \in {"text", "signature", "call"}
      BY <2>1, LenProperties, ElementOfSeq
    <2> DEFINE id(k) == IF response[k] = "call" THEN k ELSE 0
               item(k) == [Message(turn.no, turn.step, response[k], 1) EXCEPT !.call = id(k)]
    <2>3. said = [k \in 1 .. Len(response) |-> item(k)]
      BY <2>2 DEF FromModelItems
    <2>4. ASSUME NEW k \in 1 .. Len(response)
          PROVE  /\ item(k) \in Messages /\ item(k).turn = turn.no /\ item(k).step = turn.step
                 /\ item(k).covers = {} /\ item(k).kind \in {"text", "signature", "call"}
      <3>1. response[k] \in {"text", "signature", "call"} /\ id(k) \in Nat
        BY <2>2, <2>4
      <3>2. response[k] \in Kinds
        BY <3>1 DEF Kinds
      <3> DEFINE kind == response[k]
                 c == id(k)
                 it == [Message(turn.no, turn.step, kind, 1) EXCEPT !.call = c]
      <3>3. kind \in Kinds /\ c \in Nat /\ item(k) = it
        BY <3>1, <3>2
      <3> HIDE DEF kind, c, item, id
      <3>4. /\ it \in Messages /\ it.turn = turn.no /\ it.step = turn.step
            /\ it.covers = {} /\ it.kind = kind
        BY <2>0, <3>3
      <3> HIDE DEF it
      <3> QED
        BY <3>1, <3>3, <3>4 DEF kind
    <2> HIDE DEF item, said
    <2>5. said \in [1 .. Len(response) -> Messages] /\ \A k \in 1 .. Len(response) : said[k] = item(k)
      BY <2>3, <2>4
    <2>6. said \in Seq(Messages)
      BY <2>2, <2>5, SeqDef
    <2>7. Len(said) \in Nat /\ 1 .. Len(said) = 1 .. Len(response)
      BY <2>5, <2>6, LenProperties
    <2> QED
      BY <2>4, <2>5, <2>6, <2>7
  <1>5. /\ calls \in Seq(Messages)
        /\ \A k \in 1 .. Len(calls) : \E i \in 1 .. Len(said) : calls[k] = said[i] /\ said[i].kind = "call"
    <2> DEFINE P == {i \in 1 .. Len(said) : said[i].kind \notin {"text", "signature"}}
    <2> HIDE DEF said
    <2>1. calls \in Seq(Messages) /\ Picked(calls, said, P)
      BY <1>4, WithoutPicks
    <2> HIDE DEF calls
    <2>2. PICK g \in [1 .. Len(calls) -> P] : \A k \in 1 .. Len(calls) : calls[k] = said[g[k]]
      BY <2>1 DEF Picked
    <2>3. \A i \in P : i \in 1 .. Len(said) /\ said[i].kind = "call"
      BY <1>4
    <2> HIDE DEF P
    <2> QED
      BY <2>1, <2>2, <2>3
  <1>6. /\ turn' = [turn EXCEPT !.at = "tools", !.own = longer, !.saved = TRUE, !.calls = calls]
        /\ Persist(said)
    BY <1>2
  <1> HIDE DEF said, calls, own
  <1>7. PICK N \in Seq(Messages) :
          /\ messages' = messages \o N /\ \A k \in 1 .. Len(N) : N[k].turn = turn.no
          /\ messages' \in Seq(Messages) /\ IsHistory(messages', archive)
          /\ \A i \in 1 .. Len(messages') : messages'[i].turn <= turn.no
          /\ \A i \in 1 .. Len(messages) : i \in 1 .. Len(messages') /\ messages'[i] = messages[i]
          /\ \A i \in 1 .. Len(messages') : IsExchange(messages'[i]) /\ messages'[i].turn = turn.no =>
               /\ messages'[i].step <= turn.step
               /\ messages'[i].step = turn.step => messages'[i].kind = "call"
          /\ \A k \in 1 .. Len(said) : \E j \in 1 .. Len(messages') :
               messages'[j].kind = said[k].kind /\ CallId(messages'[j]) = CallId(said[k])
    <2>1. \A k \in 1 .. Len(said) : said[k].kind \notin SystemKinds \cup {"result"}
      BY <1>4 DEF SystemKinds
    <2> QED
      BY <1>1, <1>4, <1>6, <2>1, AnswerIsStored
  <1>8. /\ longer \in Seq(Messages) /\ Len(longer) = Len(own) + Len(said)
        /\ Len(own) \in Nat /\ Len(said) \in Nat
        /\ \A i \in 1 .. Len(own) : i \in 1 .. Len(own) + Len(said) /\ longer[i] = own[i]
        /\ \A i \in Len(own) + 1 .. Len(own) + Len(said) :
             i - Len(own) \in 1 .. Len(said) /\ longer[i] = said[i - Len(own)]
        /\ \A k \in 1 .. Len(said) : /\ Len(own) + k \in Len(own) + 1 .. Len(own) + Len(said)
                                     /\ longer[Len(own) + k] = said[k]
    BY <1>3, <1>4, ConcatIs
  <1>9. \A i \in 1 .. Len(own) : IsExchange(own[i]) => own[i].turn = turn.no /\ own[i].step < turn.step
    BY <1>1, <1>3 DEF StepsTaken
  <1>10. ExchangesInOrder(longer)
    <2>1. ExchangesInOrder(said)
      BY <1>4 DEF ExchangesInOrder, Precedes, IsExchange
    <2>2. \A i \in 1 .. Len(own), k \in 1 .. Len(said) :
            IsExchange(own[i]) /\ IsExchange(said[k]) => Precedes(own[i], said[k])
      BY <1>4, <1>9 DEF Precedes
    <2> QED
      BY <1>3, <1>4, <2>1, <2>2, OrderOfBoth
  <1>11. ResultsFollowCalls(longer)
    BY <1>3, <1>4, BothFollow
  <1> HIDE DEF longer
  <1>12. ASSUME NEW i \in 1 .. Len(longer)
         PROVE  /\ longer[i].turn = turn.no /\ longer[i].covers = {} /\ longer[i].kind \notin SystemKinds
                /\ IsExchange(longer[i]) =>
                     longer[i].step <= turn.step /\ (longer[i].step = turn.step => longer[i].kind = "call")
                /\ longer[i].kind = "call" =>
                     \E j \in 1 .. Len(messages') : /\ messages'[j].kind = "call"
                                                    /\ CallId(messages'[j]) = CallId(longer[i])
    <2>1. CASE i \in 1 .. Len(own)
      <3>1. longer[i] = own[i]
        BY <2>1, <1>8
      <3>2. IsExchange(own[i]) => own[i].step < turn.step /\ own[i].step \in Nat
        <4>1. own[i] \in Messages
          BY <2>1, <1>3, ElementOfSeq
        <4> QED
          BY <2>1, <4>1, <1>9 DEF Messages
      <3>3. own[i].kind = "call" =>
              \E j \in 1 .. Len(messages') : /\ messages'[j].kind = "call"
                                             /\ CallId(messages'[j]) = CallId(own[i])
        <4> SUFFICES ASSUME own[i].kind = "call"
                     PROVE  \E j \in 1 .. Len(messages') : /\ messages'[j].kind = "call"
                                                          /\ CallId(messages'[j]) = CallId(own[i])
          OBVIOUS
        <4>1. turn.saved
          BY <2>1, <1>3 DEF IsExchange
        <4>2. PICK j \in 1 .. Len(messages) : messages[j].kind = "call" /\ CallId(messages[j]) = CallId(own[i])
          BY <2>1, <4>1, <1>3
        <4> QED
          BY <4>2, <1>7
      <3> QED
        BY <2>1, <3>1, <3>2, <3>3, <1>3
    <2>2. CASE i \notin 1 .. Len(own)
      <3>1. i \in Len(own) + 1 .. Len(own) + Len(said)
        BY <2>2, <1>8, <1>12
      <3>2. i - Len(own) \in 1 .. Len(said) /\ longer[i] = said[i - Len(own)]
        BY <3>1, <1>8
      <3> DEFINE k == i - Len(own)
      <3> HIDE DEF k
      <3>3. k \in 1 .. Len(said) /\ longer[i] = said[k]
        BY <3>2 DEF k
      <3>4. /\ said[k].turn = turn.no /\ said[k].step = turn.step /\ said[k].covers = {}
            /\ said[k].kind \in {"text", "signature", "call"}
            /\ \E j \in 1 .. Len(messages') :
                 messages'[j].kind = said[k].kind /\ CallId(messages'[j]) = CallId(said[k])
        BY <3>3, <1>4, <1>7
      <3>5. said[k].kind \notin SystemKinds /\ (IsExchange(said[k]) => said[k].kind = "call")
        BY <3>4 DEF IsExchange, SystemKinds
      <3> QED
        BY SMTT(20), <3>3, <3>4, <3>5, <1>3
    <2> QED
      BY <2>1, <2>2
  <1>13. /\ turn'.at = "tools" /\ turn'.own = longer /\ turn'.saved = TRUE /\ turn'.calls = calls
         /\ turn'.no = turn.no /\ turn'.step = turn.step /\ turn'.prior = turn.prior
         /\ turn'.compacted = turn.compacted /\ turn'.cut = turn.cut
         /\ turn' \in [at : {"idle", "compact", "call", "tools"}, no : Nat, step : Nat,
                       prior : Seq(Messages), own : Seq(Messages), calls : Seq(Messages),
                       saved : BOOLEAN, compacted : BOOLEAN, cut : BOOLEAN]
    <2>1. turn \in [at : {"idle", "compact", "call", "tools"}, no : Nat, step : Nat,
                    prior : Seq(Messages), own : Seq(Messages), calls : Seq(Messages),
                    saved : BOOLEAN, compacted : BOOLEAN, cut : BOOLEAN]
      BY DEF ConversationInv, ConversationTypes
    <2> QED
      BY <2>1, <1>5, <1>6, <1>8
  <1>14. ConversationTypes'
    BY <1>1, <1>3, <1>7, <1>13 DEF ConversationTypes
  <1>15. Stored'
    <2>1. StepsTaken(messages', turn')
      BY ZenonT(40), <1>7, <1>13 DEF StepsTaken
    <2> QED
      BY <1>1, <1>7, <1>13, <2>1 DEF Stored
  <1>16. OwnIsWhole'
    <2>1. StepsTaken(longer, turn')
      BY <1>12, <1>13 DEF StepsTaken
    <2>2. ASSUME NEW k \in 1 .. Len(calls)
          PROVE  \E i \in 1 .. Len(longer) :
                   calls[k] = longer[i] /\ longer[i].kind = "call" /\ longer[i].step = turn.step
      <3>1. PICK i \in 1 .. Len(said) : calls[k] = said[i] /\ said[i].kind = "call"
        BY <1>5, <2>2
      <3> DEFINE q == Len(own) + i
      <3>2. q \in 1 .. Len(longer) /\ longer[q] = said[i]
        BY <1>8, <3>1
      <3> HIDE DEF q
      <3> QED
        BY <3>1, <3>2, <1>4
    <2> QED
      BY <1>10, <1>11, <1>12, <1>13, <2>1, <2>2 DEF OwnIsWhole
  <1>17. PriorIsWhole'
    <2>1. turn.at \in {"call", "tools"} /\ turn'.at \in {"call", "tools"}
      BY <1>1, <1>13
    <2> QED
      BY <1>1, <1>7, <1>13, <2>1, PriorStays
  <1> QED
    BY <1>14, <1>15, <1>16, <1>17 DEF ConversationInv

LEMMA ToolResultsInv == ConversationInv /\ ToolResults => ConversationInv'
  <1> SUFFICES ASSUME ConversationInv, ToolResults PROVE ConversationInv'
    OBVIOUS
  <1>1. turn.at = "tools" /\ archive' = archive
    BY DEF ToolResults
  <1> DEFINE own == turn.own
             calls == turn.calls
  <1>2. /\ messages \in Seq(Messages) /\ archive \in SUBSET (Nat \X Nat) /\ troubles \in Nat
        /\ turn.no \in Nat /\ turn.step \in Nat /\ own \in Seq(Messages) /\ calls \in Seq(Messages)
        /\ IsHistory(messages, archive) /\ StepsTaken(messages, turn)
        /\ \A i \in 1 .. Len(messages) : /\ messages[i].turn \in Nat /\ messages[i].step \in Nat
                                         /\ messages[i].turn <= turn.no
        /\ ExchangesInOrder(own) /\ ResultsFollowCalls(own) /\ StepsTaken(own, turn)
    BY <1>1, TurnFacts
  <1>3. /\ turn.saved
        /\ \A i \in 1 .. Len(own) :
             /\ own[i].turn = turn.no /\ own[i].covers = {} /\ own[i].kind \notin SystemKinds
             /\ own[i].kind = "call" =>
                  \E j \in 1 .. Len(messages) : /\ messages[j].kind = "call"
                                                /\ CallId(messages[j]) = CallId(own[i])
        /\ \A k \in 1 .. Len(calls) : \E i \in 1 .. Len(own) :
             calls[k] = own[i] /\ own[i].kind = "call" /\ own[i].step = turn.step
    BY <1>1 DEF ConversationInv, OwnIsWhole
  <1>4. CASE FailConversation /\ UNCHANGED messages
    <2>1. /\ troubles' \in Nat /\ messages' = messages
          /\ turn' = [Idle EXCEPT !.no = turn.no]
      BY <1>2, <1>4 DEF FailConversation, Trouble
    <2> QED
      BY <1>1, <1>2, <2>1, TurnEnds
  <1>5. ASSUME NEW z \in Sizes,
               messages' = messages \o Positioned([k \in DOMAIN turn.calls |->
                             [turn.calls[k] EXCEPT !.kind = "result", !.size = z]]),
               turn' = IF turn.step + 1 < MaxSteps
                       THEN [turn EXCEPT !.at = "call", !.step = @ + 1,
                               !.own = @ \o [k \in DOMAIN turn.calls |->
                                 [turn.calls[k] EXCEPT !.kind = "result", !.size = z]],
                               !.calls = <<>>]
                       ELSE [Idle EXCEPT !.no = turn.no],
               troubles' = troubles
        PROVE  ConversationInv'
    <2> DEFINE result(k) == [calls[k] EXCEPT !.kind = "result", !.size = z]
               M == [k \in DOMAIN calls |-> result(k)]
               all == messages \o Positioned(M)
               longer == own \o M
    <2>1. /\ messages' = all
          /\ turn' = IF turn.step + 1 < MaxSteps
                     THEN [turn EXCEPT !.at = "call", !.step = @ + 1, !.own = longer, !.calls = <<>>]
                     ELSE [Idle EXCEPT !.no = turn.no]
      BY <1>5
    <2>2. /\ Len(calls) \in Nat /\ DOMAIN calls = 1 .. Len(calls) /\ z \in Nat
          /\ \A k \in 1 .. Len(calls) : calls[k] \in Messages
      BY <1>2, LenProperties, ElementOfSeq, ConversationParameters
    <2> HIDE DEF calls
    <2>3. ASSUME NEW k \in 1 .. Len(calls)
          PROVE  /\ result(k) \in Messages /\ result(k).kind = "result"
                 /\ result(k).turn = turn.no /\ result(k).step = turn.step /\ result(k).covers = {}
                 /\ CallId(result(k)) = CallId(calls[k])
                 /\ \E i \in 1 .. Len(own) : own[i].kind = "call" /\ CallId(own[i]) = CallId(calls[k])
      <3>1. PICK i \in 1 .. Len(own) :
              calls[k] = own[i] /\ own[i].kind = "call" /\ own[i].step = turn.step
        BY <1>3, <2>3
      <3>2. calls[k] \in Messages /\ "result" \in Kinds
        BY <2>2, <2>3 DEF Kinds
      <3>3. /\ result(k) \in Messages /\ result(k).kind = "result"
            /\ result(k).turn = calls[k].turn /\ result(k).step = calls[k].step
            /\ result(k).call = calls[k].call /\ result(k).covers = calls[k].covers
        BY <2>2, <3>2 DEF Messages
      <3> HIDE DEF result
      <3> QED
        BY <3>1, <3>3, <1>3 DEF CallId
    <2> HIDE DEF result
    <2>4. M \in Seq(Messages) /\ Len(M) = Len(calls) /\ \A k \in 1 .. Len(calls) : M[k] = result(k)
      <3>1. M \in [1 .. Len(calls) -> Messages] /\ \A k \in 1 .. Len(calls) : M[k] = result(k)
        BY <2>2, <2>3
      <3> HIDE DEF M
      <3>2. M \in Seq(Messages)
        BY <2>2, <3>1, SeqDef
      <3>3. DOMAIN M = 1 .. Len(calls) /\ DOMAIN M = 1 .. Len(M) /\ Len(M) \in Nat
        BY <3>1, <3>2, LenProperties
      <3> QED
        BY <2>2, <3>1, <3>2, <3>3
    <2> HIDE DEF M
    <2>5. \A k \in 1 .. Len(M) :
            /\ M[k].kind = "result" /\ M[k].turn = turn.no /\ M[k].step = turn.step /\ M[k].covers = {}
            /\ \E i \in 1 .. Len(own) : own[i].kind = "call" /\ CallId(own[i]) = CallId(M[k])
      BY <2>3, <2>4
    <2> HIDE DEF own
    <2>6. ExchangesInOrder(M)
      BY <2>5 DEF ExchangesInOrder, Precedes
    <2>7. ASSUME NEW i \in 1 .. Len(messages), NEW k \in 1 .. Len(M), IsExchange(messages[i])
          PROVE  Precedes(messages[i], M[k])
      <3>1. M[k].turn = turn.no /\ M[k].step = turn.step
        BY <2>5
      <3>2. messages[i].turn = turn.no =>
              messages[i].step < turn.step \/ (messages[i].step = turn.step /\ messages[i].kind = "call")
        <4>1. messages[i].turn = turn.no =>
                /\ messages[i].step <= turn.step
                /\ messages[i].step = turn.step => messages[i].kind = "call"
          BY <1>1, <1>2, <2>7 DEF StepsTaken
        <4>2. messages[i].step \in Nat /\ turn.step \in Nat
          BY <1>2
        <4> QED
          BY <4>1, <4>2
      <3>3. messages[i].turn < turn.no \/ messages[i].turn = turn.no
        BY <1>2
      <3>4. messages[i].kind = "call" => messages[i].kind # "result"
        OBVIOUS
      <3> QED
        BY <3>1, <3>2, <3>3, <3>4 DEF Precedes
    <2>8. \A k \in 1 .. Len(M) :
            \E i \in 1 .. Len(messages) : messages[i].kind = "call" /\ CallId(messages[i]) = CallId(M[k])
      <3> TAKE k \in 1 .. Len(M)
      <3>1. PICK i \in 1 .. Len(own) : own[i].kind = "call" /\ CallId(own[i]) = CallId(M[k])
        BY <2>5
      <3>2. PICK j \in 1 .. Len(messages) : messages[j].kind = "call" /\ CallId(messages[j]) = CallId(own[i])
        BY <1>3, <3>1 DEF own
      <3> QED
        BY <3>1, <3>2
    <2>9. IsHistory(all, archive)
      <3>1. \A k \in 1 .. Len(M) : M[k].turn = turn.no /\ Covered(messages, archive, M[k].covers)
        BY <2>5 DEF Covered
      <3>2. \A k \in 1 .. Len(M) : M[k].kind # "boundary"
        BY <2>5
      <3> QED
        BY <1>2, <2>4, <2>6, <2>7, <2>8, <3>1, <3>2, HistoryGrows
    <2>10. GoesOn(all, messages, M)
      BY <1>2, <2>4, StoredIs
    <2>11. /\ Positioned(M) \in Seq(Messages)
           /\ \A k \in 1 .. Len(Positioned(M)) : Positioned(M)[k].turn = turn.no
      <3>1. messages \in Seq(Messages) /\ M \in Seq(Messages)
        BY <1>2, <2>4
      <3>2. /\ Positioned(M) \in Seq(Messages) /\ Len(Positioned(M)) = Len(M)
            /\ \A k \in 1 .. Len(M) : Positioned(M)[k].turn = M[k].turn
        BY <3>1, PositionedIs
      <3> QED
        BY <3>2, <2>5
    <2> DEFINE N == Positioned(M)
    <2>12. all = messages \o N
      OBVIOUS
    <2>13. N \in Seq(Messages) /\ \A k \in 1 .. Len(N) : N[k].turn = turn.no
      BY <2>11
    <2> HIDE DEF all, N
    <2>14. ASSUME NEW i \in 1 .. Len(all)
           PROVE  /\ all[i].turn <= turn.no
                  /\ IsExchange(all[i]) /\ all[i].turn = turn.no => all[i].step <= turn.step
      <3>1. CASE i \in 1 .. Len(messages)
        <4>1. all[i] = messages[i]
          BY <3>1, <2>10 DEF GoesOn
        <4>2. IsExchange(messages[i]) /\ messages[i].turn = turn.no => messages[i].step <= turn.step
          BY <3>1, <1>2 DEF StepsTaken
        <4> QED
          BY <4>1, <4>2, <3>1, <1>2
      <3>2. CASE \E k \in 1 .. Len(M) :
                   all[i].kind = M[k].kind /\ all[i].turn = M[k].turn /\ all[i].step = M[k].step
        BY <3>2, <2>5, <1>2
      <3> QED
        BY <3>1, <3>2, <2>10 DEF GoesOn
    <2>15. all \in Seq(Messages) /\ \A i \in 1 .. Len(messages) : i \in 1 .. Len(all) /\ all[i] = messages[i]
      BY <2>10 DEF GoesOn
    <2>16. CASE ~ (turn.step + 1 < MaxSteps)
      <3>1. turn' = [Idle EXCEPT !.no = turn.no]
        BY <2>1, <2>16
      <3>2. /\ messages' \in Seq(Messages) /\ IsHistory(messages', archive') /\ troubles' \in Nat
            /\ archive' \in SUBSET (Nat \X Nat)
            /\ \A i \in 1 .. Len(messages') : messages'[i].turn <= turn.no
        BY <1>1, <1>2, <1>5, <2>1, <2>9, <2>14, <2>15
      <3> QED
        BY <3>1, <3>2, TurnEnds
    <2>17. CASE turn.step + 1 < MaxSteps
      <3>1. /\ longer \in Seq(Messages) /\ Len(longer) = Len(own) + Len(M)
            /\ Len(own) \in Nat /\ Len(M) \in Nat
            /\ \A i \in 1 .. Len(own) : i \in 1 .. Len(own) + Len(M) /\ longer[i] = own[i]
            /\ \A i \in Len(own) + 1 .. Len(own) + Len(M) :
                 i - Len(own) \in 1 .. Len(M) /\ longer[i] = M[i - Len(own)]
        <4>1. own \in Seq(Messages)
          BY <1>2 DEF own
        <4>2. M \in Seq(Messages)
          BY <2>4
        <4> QED
          BY <4>1, <4>2, ConcatIs
      <3>2. ExchangesInOrder(longer)
        <4>1. ASSUME NEW i \in 1 .. Len(own), NEW k \in 1 .. Len(M), IsExchange(own[i])
              PROVE  Precedes(own[i], M[k])
          <5>1. own[i].turn = turn.no
            BY <1>3 DEF own
          <5>2. own[i].step <= turn.step /\ (own[i].step = turn.step => own[i].kind = "call")
            BY <1>1, <1>2, <4>1, <5>1 DEF StepsTaken, own
          <5>3. own[i].step \in Nat
            <6>1. own[i] \in Messages
              BY <1>2, ElementOfSeq DEF own
            <6> QED
              BY <6>1 DEF Messages
          <5>4. own[i].step < turn.step \/ (own[i].step = turn.step /\ own[i].kind # "result")
            <6>1. turn.step \in Nat
              BY <1>2
            <6>2. own[i].step < turn.step \/ own[i].step = turn.step
              BY <6>1, <5>2, <5>3
            <6> QED
              BY <6>2, <5>2
          <5>5. M[k].turn = turn.no /\ M[k].step = turn.step
            BY <2>5
          <5> QED
            BY <5>1, <5>4, <5>5 DEF Precedes
        <4>2. own \in Seq(Messages) /\ ExchangesInOrder(own)
          BY <1>2 DEF own
        <4> QED
          BY <2>4, <2>6, <4>1, <4>2, OrderOfBoth
      <3>3. ResultsFollowCalls(longer)
        <4>1. own \in Seq(Messages) /\ ResultsFollowCalls(own)
          BY <1>2 DEF own
        <4> QED
          BY <2>4, <2>5, <4>1, BothFollow
      <3> HIDE DEF longer
      <3>4. ASSUME NEW i \in 1 .. Len(longer)
            PROVE  /\ longer[i].turn = turn.no /\ longer[i].covers = {}
                   /\ longer[i].kind \notin SystemKinds
                   /\ IsExchange(longer[i]) => longer[i].step <= turn.step
                   /\ longer[i].kind = "call" =>
                        \E j \in 1 .. Len(all) : all[j].kind = "call" /\ CallId(all[j]) = CallId(longer[i])
        <4>1. CASE i \in 1 .. Len(own)
          <5>1. longer[i] = own[i]
            BY <4>1, <3>1
          <5>2. /\ own[i].turn = turn.no /\ own[i].covers = {} /\ own[i].kind \notin SystemKinds
                /\ IsExchange(own[i]) => own[i].step <= turn.step
            BY <4>1, <1>2, <1>3 DEF own, StepsTaken
          <5>3. own[i].kind = "call" =>
                  \E j \in 1 .. Len(messages) : /\ messages[j].kind = "call"
                                                /\ CallId(messages[j]) = CallId(own[i])
            BY <4>1, <1>3 DEF own
          <5> QED
            BY <5>1, <5>2, <5>3, <2>15
        <4>2. CASE i \notin 1 .. Len(own)
          <5>1. i \in Len(own) + 1 .. Len(own) + Len(M)
            BY <4>2, <3>1, <3>4
          <5> DEFINE k == i - Len(own)
          <5>2. k \in 1 .. Len(M) /\ longer[i] = M[k]
            BY <5>1, <3>1
          <5> HIDE DEF k
          <5>3. /\ M[k].kind = "result" /\ M[k].turn = turn.no /\ M[k].step = turn.step
                /\ M[k].covers = {}
            BY <5>2, <2>5
          <5> QED
            BY <5>2, <5>3, <1>2 DEF SystemKinds
        <4> QED
          BY <4>1, <4>2
      <3>5. /\ turn'.at = "call" /\ turn'.own = longer /\ turn'.saved = turn.saved
            /\ turn'.no = turn.no /\ turn'.step = turn.step + 1 /\ turn'.prior = turn.prior
            /\ turn'.compacted = turn.compacted /\ turn'.cut = turn.cut
            /\ turn' \in [at : {"idle", "compact", "call", "tools"}, no : Nat, step : Nat,
                          prior : Seq(Messages), own : Seq(Messages), calls : Seq(Messages),
                          saved : BOOLEAN, compacted : BOOLEAN, cut : BOOLEAN]
        <4>1. turn \in [at : {"idle", "compact", "call", "tools"}, no : Nat, step : Nat,
                        prior : Seq(Messages), own : Seq(Messages), calls : Seq(Messages),
                        saved : BOOLEAN, compacted : BOOLEAN, cut : BOOLEAN]
          BY DEF ConversationInv, ConversationTypes
        <4>2. <<>> \in Seq(Messages)
          BY EmptySeq
        <4>3. turn' = [turn EXCEPT !.at = "call", !.step = @ + 1, !.own = longer, !.calls = <<>>]
          BY <2>1, <2>17 DEF longer
        <4> QED
          <5>1. turn.step + 1 \in Nat
            BY <1>2
          <5> DEFINE next == turn.step + 1
          <5>2. turn' = [turn EXCEPT !.at = "call", !.step = next, !.own = longer, !.calls = <<>>]
            BY <4>1, <4>3
          <5>3. next \in Nat /\ longer \in Seq(Messages)
            BY <5>1, <3>1
          <5> HIDE DEF next
          <5> QED
            BY <4>1, <4>2, <5>2, <5>3 DEF next
      <3>6. ConversationTypes'
        BY <1>1, <1>2, <1>5, <2>1, <2>15, <3>5 DEF ConversationTypes
      <3>7. Stored'
        <4>1. ASSUME NEW i \in 1 .. Len(all), IsExchange(all[i]), all[i].turn = turn.no
              PROVE  all[i].step < turn.step + 1 /\ all[i].step <= turn.step + 1
          <5>1. all[i] \in Messages
            BY <2>15, ElementOfSeq
          <5>2. all[i].step \in Nat
            BY <5>1 DEF Messages
          <5> QED
            BY <5>2, <4>1, <2>14, <1>2
        <4>2. StepsTaken(all, turn')
          BY <4>1, <3>5 DEF StepsTaken
        <4> QED
          BY <1>1, <2>1, <2>9, <2>14, <3>5, <4>2 DEF Stored
      <3>8. OwnIsWhole'
        <4>1. ASSUME NEW i \in 1 .. Len(longer), IsExchange(longer[i])
              PROVE  longer[i].step < turn.step + 1 /\ longer[i].step <= turn.step + 1
          <5>1. longer[i] \in Messages
            BY <3>1, ElementOfSeq
          <5>2. longer[i].step \in Nat
            BY <5>1 DEF Messages
          <5> QED
            BY <5>2, <4>1, <3>4, <1>2
        <4>2. StepsTaken(longer, turn')
          BY <4>1, <3>5 DEF StepsTaken
        <4> QED
          <5>1. turn'.at # "compact" /\ turn'.at # "tools" /\ turn'.saved
            BY <1>3, <3>5
          <5>2. \A i \in 1 .. Len(longer) :
                  /\ longer[i].turn = turn'.no /\ longer[i].covers = {}
                  /\ longer[i].kind \notin SystemKinds
                  /\ longer[i].kind = "call" =>
                       \E j \in 1 .. Len(messages') : /\ messages'[j].kind = "call"
                                                      /\ CallId(messages'[j]) = CallId(longer[i])
            BY <2>1, <3>4, <3>5
          <5>3. turn'.own = longer
            BY <3>5
          <5> QED
            BY <3>2, <3>3, <4>2, <5>1, <5>2, <5>3 DEF OwnIsWhole
      <3>9. PriorIsWhole'
        <4>1. turn.at \in {"call", "tools"} /\ turn'.at \in {"call", "tools"} /\ messages' = messages \o N
          BY <1>1, <2>1, <2>12, <3>5
        <4> QED
          BY <1>1, <2>13, <3>5, <4>1, PriorStays
      <3> QED
        BY <3>6, <3>7, <3>8, <3>9 DEF ConversationInv
    <2> QED
      BY <2>16, <2>17
  <1> QED
    BY <1>4, <1>5 DEF ToolResults

-----------------------------------------------------------------------------
\* Compaction

LEMMA AlikeIs ==
  ASSUME NEW L \in Seq(Messages), NEW A \in Seq(Messages), Alike(A, L), NEW i \in 1 .. Len(L)
  PROVE  /\ A[i].turn = L[i].turn /\ A[i].step = L[i].step /\ A[i].kind = L[i].kind
         /\ A[i].pos = L[i].pos /\ A[i].covers = L[i].covers /\ CallId(A[i]) = CallId(L[i])
  <1>1. L[i] \in Messages /\ A[i] = [L[i] EXCEPT !.size = A[i].size]
    BY ElementOfSeq DEF Alike
  <1> DEFINE m == A[i]
             o == L[i]
             z == A[i].size
  <1>2. o \in Messages /\ m = [o EXCEPT !.size = z]
    BY <1>1
  <1> HIDE DEF m, o, z
  <1>3. /\ m.turn = o.turn /\ m.step = o.step /\ m.kind = o.kind
        /\ m.pos = o.pos /\ m.covers = o.covers /\ m.call = o.call
    BY <1>2 DEF Messages
  <1> QED
    BY <1>3 DEF m, o, CallId

\* What a turn begins with, after the last boundary.
IsRecent(active, last, L, ranges, n) ==
  /\ active \in Seq(Messages) /\ Len(L) \in Nat /\ last \in 0 .. Len(L)
  /\ Len(active) = Len(L) - last /\ Len(active) \in Nat
  /\ \A k \in 1 .. Len(active) :
       /\ active[k].pos = last + k /\ active[k].turn \in Nat /\ active[k].turn < n
       /\ active[k].kind = L[last + k].kind /\ active[k].kind # "boundary"
       /\ Covered(L, ranges, active[k].covers)
  /\ \A j, k \in 1 .. Len(active) : j < k => active[j].turn <= active[k].turn
  /\ ExchangesInOrder(active) /\ ResultsFollowCalls(active)
  /\ \A i \in Earlier(L, n) : i - last \in 1 .. Len(active) /\ L[i].kind \notin SystemKinds \cup {"signature"}

LEMMA RecentIs ==
  ASSUME ConversationInv, turn.at = "compact"
  PROVE  \E last \in 0 .. Len(messages) :
           IsRecent(AfterBoundary(turn.prior), last, messages, archive, turn.no)
  <1> DEFINE active == AfterBoundary(turn.prior)
             prior == turn.prior
             n == turn.no
  <1>1. /\ messages \in Seq(Messages) /\ prior \in Seq(Messages) /\ n \in Nat
        /\ Alike(prior, messages) /\ IsHistory(messages, archive)
        /\ \A i \in 1 .. Len(messages) : messages[i].turn < n
    BY DEF ConversationInv, ConversationTypes, Stored, PriorIsWhole
  <1>2. PICK last \in 0 .. Len(prior) : IsActive(active, prior, last)
    BY <1>1, AfterBoundaryIs
  <1> HIDE DEF active, prior, n
  <1>3. /\ Len(prior) = Len(messages) /\ Len(messages) \in Nat
        /\ \A i \in 1 .. Len(messages) :
             /\ prior[i].turn = messages[i].turn /\ prior[i].step = messages[i].step
             /\ prior[i].kind = messages[i].kind /\ prior[i].pos = messages[i].pos
             /\ prior[i].covers = messages[i].covers /\ CallId(prior[i]) = CallId(messages[i])
             /\ messages[i].turn \in Nat
    <2>1. Len(prior) = Len(messages)
      BY <1>1 DEF Alike
    <2>2. \A i \in 1 .. Len(messages) : messages[i] \in Messages
      BY <1>1, ElementOfSeq
    <2>3. \A i \in 1 .. Len(messages) : messages[i].turn \in Nat
      BY <2>2 DEF Messages
    <2> QED
      BY <1>1, <2>1, <2>3, AlikeIs, LenProperties
  <1>4. /\ active \in Seq(Messages) /\ last \in 0 .. Len(messages) /\ last \in Int
        /\ Len(active) = Len(messages) - last /\ Len(active) \in Nat
        /\ \A k \in 1 .. Len(active) : active[k] = prior[last + k] /\ last + k \in last + 1 .. Len(messages)
        /\ last > 0 => prior[last].kind = "boundary"
        /\ \A i \in last + 1 .. Len(messages) : prior[i].kind # "boundary"
        /\ Picked(active, prior, last + 1 .. Len(prior))
    <2>1. /\ active \in Seq(Messages) /\ last \in 0 .. Len(messages)
          /\ Len(active) = Len(messages) - last
          /\ \A k \in 1 .. Len(messages) - last : active[k] = prior[last + k]
          /\ last > 0 => prior[last].kind = "boundary"
          /\ \A i \in last + 1 .. Len(messages) : prior[i].kind # "boundary"
          /\ Picked(active, prior, last + 1 .. Len(prior))
      BY <1>2, <1>3 DEF IsActive
    <2>2. Len(active) \in Nat /\ \A k \in 1 .. Len(active) : last + k \in last + 1 .. Len(messages)
      BY <2>1, <1>3
    <2> QED
      BY <2>1, <2>2
  <1>5. ASSUME NEW k \in 1 .. Len(active)
        PROVE  /\ last + k \in 1 .. Len(messages) /\ active[k].pos = last + k
               /\ active[k].turn = messages[last + k].turn
               /\ active[k].turn \in Nat /\ active[k].turn < n
               /\ active[k].kind = messages[last + k].kind /\ active[k].kind # "boundary"
               /\ Covered(messages, archive, active[k].covers)
    <2>1. last + k \in last + 1 .. Len(messages) /\ last + k \in 1 .. Len(messages)
      BY <1>3, <1>4, <1>5
    <2> DEFINE i == last + k
    <2>2. active[k] = prior[i] /\ i \in 1 .. Len(messages) /\ i \in last + 1 .. Len(messages)
      BY <1>4, <2>1
    <2> HIDE DEF i
    <2>3. messages[i].pos = i /\ Covered(messages, archive, messages[i].covers)
      BY <1>1, <2>2 DEF IsHistory
    <2>4. /\ active[k].pos = i /\ active[k].turn = messages[i].turn
          /\ active[k].turn \in Nat /\ active[k].turn < n
          /\ active[k].kind = messages[i].kind /\ active[k].kind # "boundary"
          /\ Covered(messages, archive, active[k].covers)
      BY <1>1, <1>3, <1>4, <2>2, <2>3
    <2> QED
      BY <2>1, <2>4 DEF i
  <1>6. ASSUME NEW j \in 1 .. Len(active), NEW k \in 1 .. Len(active), j < k
        PROVE  active[j].turn <= active[k].turn
    <2>1. last + j < last + k
      BY <1>4, <1>6
    <2>2. last + j \in 1 .. Len(messages) /\ last + k \in 1 .. Len(messages)
      BY <1>5
    <2>3. messages[last + j].turn <= messages[last + k].turn
      BY <1>1, <2>1, <2>2 DEF IsHistory
    <2> QED
      BY <2>3, <1>5
  <1>7. ExchangesInOrder(prior)
    <2> SUFFICES ASSUME NEW i \in 1 .. Len(prior), NEW j \in 1 .. Len(prior), i < j,
                        IsExchange(prior[i]), IsExchange(prior[j])
                 PROVE  Precedes(prior[i], prior[j])
      BY DEF ExchangesInOrder
    <2>1. IsExchange(messages[i]) /\ IsExchange(messages[j])
      BY <1>3 DEF IsExchange
    <2>2. Precedes(messages[i], messages[j])
      BY <1>1, <1>3, <2>1 DEF IsHistory, ExchangesInOrder
    <2> QED
      BY <1>3, <2>2 DEF Precedes
  <1>8. ExchangesInOrder(active)
    <2>1. last + 1 .. Len(prior) \in SUBSET (1 .. Len(prior))
      BY <1>3, <1>4
    <2> QED
      BY <1>1, <1>4, <1>7, <2>1, PickedKeepsOrder
  <1>9. ResultsFollowCalls(active)
    <2> SUFFICES ASSUME NEW p \in last + 1 .. Len(prior), prior[p].kind = "result"
                 PROVE  \E q \in last + 1 .. Len(prior) :
                          q < p /\ prior[q].kind = "call" /\ CallId(prior[q]) = CallId(prior[p])
      <3>1. last + 1 .. Len(prior) \in SUBSET (1 .. Len(prior))
        BY <1>3, <1>4
      <3> QED
        BY <1>1, <1>4, <3>1, PickedFollows
    <2>1. p \in 1 .. Len(messages) /\ messages[p].kind = "result" /\ p > last
      BY <1>3, <1>4
    <2>2. FollowsCall(messages, p)
      BY <1>1, <2>1, FollowingCalls DEF IsHistory
    <2>3. PICK q \in 1 .. p - 1 : messages[q].kind = "call" /\ CallId(messages[q]) = CallId(messages[p])
      BY <2>2 DEF FollowsCall
    <2>4. q \in 1 .. Len(messages) /\ q < p
      BY <2>1, <2>3, <1>3
    <2>5. messages[q].turn = messages[p].turn
      BY <2>3 DEF CallId
    <2>6. q > last
      <3> SUFFICES ASSUME q <= last PROVE FALSE
        BY <1>4, <2>4
      <3>1. last > 0 /\ last \in 1 .. Len(messages) /\ messages[last].kind = "boundary"
        BY <1>3, <1>4, <2>4
      <3>2. q < last
        <4>1. q # last
          BY <2>3, <3>1
        <4> QED
          BY <4>1, <2>4, <1>4
      <3>3. messages[q].turn < messages[last].turn
        BY <1>1, <2>4, <3>1, <3>2 DEF IsHistory
      <3>4. messages[last].turn <= messages[p].turn
        BY <1>1, <2>1, <3>1 DEF IsHistory
      <3> QED
        BY <2>1, <2>4, <2>5, <3>1, <3>3, <3>4, <1>3
    <2>7. q \in last + 1 .. Len(prior)
      BY <1>3, <1>4, <2>4, <2>6
    <2> QED
      BY <1>3, <2>1, <2>3, <2>4, <2>7
  <1>10. ASSUME NEW i \in Earlier(messages, n)
         PROVE  i - last \in 1 .. Len(active) /\ messages[i].kind \notin SystemKinds \cup {"signature"}
    <2> DEFINE S == {j \in DOMAIN messages : messages[j].kind = "boundary" /\ messages[j].turn < n}
               b == LastBoundary(messages, n)
    <2>1. DOMAIN messages = 1 .. Len(messages)
      BY <1>1, LenProperties
    <2>2. {0} \cup S \in SUBSET (0 .. Len(messages)) /\ {0} \cup S # {}
      BY <1>3, <2>1
    <2>3. last \in {0} \cup S
      BY <1>1, <1>3, <1>4, <2>1
    <2> HIDE DEF S
    <2>4. Max({0} \cup S) \in 0 .. Len(messages) /\ last <= Max({0} \cup S)
      BY <1>3, <2>2, <2>3, MaxIsLargest
    <2>5. b = Max({0} \cup S)
      BY DEF LastBoundary, S
    <2>6. i \in b + 1 .. Len(messages) /\ messages[i].kind \notin SystemKinds \cup {"signature"}
      BY <1>10 DEF Earlier
    <2> HIDE DEF b
    <2> QED
      BY <1>3, <1>4, <2>4, <2>5, <2>6
  <1>11. IsRecent(active, last, messages, archive, n)
    BY <1>3, <1>4, <1>5, <1>6, <1>8, <1>9, <1>10 DEF IsRecent
  <1> QED
    BY <1>4, <1>11 DEF active, n

\* From a turn's start on, results keep their calls.
LEMMA KeptIs ==
  ASSUME NEW active, NEW last, NEW L, NEW ranges, NEW n, IsRecent(active, last, L, ranges, n),
         NEW start \in TurnStarts(active), start > 1
  PROVE  /\ start \in 2 .. Len(active)
         /\ SubSeq(active, start, Len(active)) \in Seq(Messages)
         /\ Len(SubSeq(active, start, Len(active))) = Len(active) - start + 1
         /\ \A k \in 1 .. Len(active) - start + 1 :
              SubSeq(active, start, Len(active))[k] = active[start + k - 1]
         /\ ExchangesInOrder(SubSeq(active, start, Len(active)))
         /\ ResultsFollowCalls(SubSeq(active, start, Len(active)))
  <1> DEFINE kept == SubSeq(active, start, Len(active))
             P == start .. Len(active)
  <1>1. /\ active \in Seq(Messages) /\ Len(active) \in Nat /\ DOMAIN active = 1 .. Len(active)
        /\ ExchangesInOrder(active) /\ ResultsFollowCalls(active)
        /\ \A j, k \in 1 .. Len(active) : j < k => active[j].turn <= active[k].turn
        /\ \A k \in 1 .. Len(active) : active[k].turn \in Nat
    BY LenProperties DEF IsRecent
  <1>2. start \in 2 .. Len(active) /\ active[start].turn # active[start - 1].turn
    BY <1>1 DEF TurnStarts
  <1>3. start \in 1 .. Len(active) + 1 /\ Len(active) \in start - 1 .. Len(active) /\ P \in SUBSET (1 .. Len(active))
    BY <1>1, <1>2
  <1>4. /\ kept \in Seq(Messages) /\ Len(kept) = Len(active) - start + 1
        /\ \A k \in 1 .. Len(active) - start + 1 : kept[k] = active[start + k - 1]
        /\ Picked(kept, active, P)
    BY <1>1, <1>3, SubSeqPicks
  <1> HIDE DEF kept
  <1>5. ExchangesInOrder(kept)
    BY <1>1, <1>3, <1>4, PickedKeepsOrder
  <1>6. ASSUME NEW p \in P, active[p].kind = "result"
        PROVE  \E q \in P : q < p /\ active[q].kind = "call" /\ CallId(active[q]) = CallId(active[p])
    <2>1. p \in 1 .. Len(active) /\ p >= start
      BY <1>1, <1>2
    <2>2. FollowsCall(active, p)
      BY <1>1, <1>6, <2>1, FollowingCalls
    <2>3. PICK q \in 1 .. p - 1 : active[q].kind = "call" /\ CallId(active[q]) = CallId(active[p])
      BY <2>2 DEF FollowsCall
    <2>4. q \in 1 .. Len(active) /\ q < p
      BY <1>1, <2>1, <2>3
    <2>5. active[q].turn = active[p].turn
      BY <2>3 DEF CallId
    <2>6. q >= start
      <3> SUFFICES ASSUME q < start PROVE FALSE
        BY <1>2, <2>4
      <3>1. start - 1 \in 1 .. Len(active) /\ start \in 1 .. Len(active) /\ start - 1 < start
        BY <1>1, <1>2
      <3>2. active[q].turn <= active[start - 1].turn
        <4>1. q = start - 1 \/ q < start - 1
          BY <2>4, <1>2
        <4>2. active[q].turn \in Nat
          BY <1>1, <2>4
        <4> QED
          BY <1>1, <2>4, <3>1, <4>1, <4>2
      <3>3. active[start - 1].turn < active[start].turn
        BY <1>1, <1>2, <3>1
      <3>4. active[start].turn <= active[p].turn
        <4>1. start = p \/ start < p
          BY <2>1, <1>2
        <4> QED
          BY <1>1, <2>1, <3>1, <4>1
      <3> QED
        BY <1>1, <2>1, <2>4, <2>5, <3>1, <3>2, <3>3, <3>4
    <2>7. q \in P
      BY <1>1, <2>4, <2>6
    <2> QED
      BY <2>3, <2>4, <2>7
  <1>7. ResultsFollowCalls(kept)
    BY <1>1, <1>3, <1>4, <1>6, PickedFollows
  <1> QED
    BY <1>2, <1>4, <1>5, <1>7 DEF kept

\* The snapshot of what is summarized holds all of it.
LEMMA SnapshotHolds ==
  ASSUME NEW active, NEW last, NEW L, NEW ranges, NEW n, IsRecent(active, last, L, ranges, n),
         NEW start \in 2 .. Len(active), NEW range,
         range = {m.pos : m \in ToSet(SubSeq(active, 1, start - 1))}
  PROVE  /\ <<Min(range), Max(range)>> \in Nat \X Nat
         /\ \A k \in 1 .. start - 1 : active[k].pos \in Min(range) .. Max(range)
         /\ SubSeq(active, 1, start - 1) \in Seq(Messages)
         /\ Len(SubSeq(active, 1, start - 1)) = start - 1
         /\ \A k \in 1 .. start - 1 : SubSeq(active, 1, start - 1)[k] = active[k]
  <1> DEFINE part == SubSeq(active, 1, start - 1)
  <1>1. /\ active \in Seq(Messages) /\ Len(active) \in Nat /\ Len(L) \in Nat /\ last \in 0 .. Len(L)
        /\ Len(active) = Len(L) - last
        /\ \A k \in 1 .. Len(active) : active[k].pos = last + k
    BY DEF IsRecent
  <1>2. 1 \in 1 .. Len(active) + 1 /\ start - 1 \in 1 - 1 .. Len(active) /\ start - 1 - 1 + 1 = start - 1
    BY <1>1
  <1>3. /\ part \in Seq(Messages) /\ Len(part) = start - 1
        /\ \A k \in 1 .. start - 1 : part[k] = active[k]
    <2>1. /\ part \in Seq(Messages) /\ Len(part) = start - 1 - 1 + 1
          /\ \A k \in 1 .. start - 1 - 1 + 1 : part[k] = active[1 + k - 1]
      BY <1>1, <1>2, SubSeqPicks
    <2>2. \A k \in 1 .. start - 1 : 1 + k - 1 = k
      BY <1>2
    <2> QED
      BY <1>2, <2>1, <2>2
  <1> HIDE DEF part
  <1>4. range = {active[k].pos : k \in 1 .. start - 1}
    <2>1. ToSet(part) = {part[k] : k \in 1 .. start - 1}
      BY <1>3, LenProperties DEF ToSet
    <2>2. range = {m.pos : m \in ToSet(part)}
      BY DEF part
    <2>3. ASSUME NEW x \in range PROVE x \in {active[k].pos : k \in 1 .. start - 1}
      <3>1. PICK m \in ToSet(part) : x = m.pos
        BY <2>2
      <3>2. PICK k \in 1 .. start - 1 : m = part[k]
        BY <2>1
      <3>3. m = active[k]
        BY <1>3, <3>2
      <3> QED
        BY <3>1, <3>2, <3>3
    <2>4. ASSUME NEW k \in 1 .. start - 1 PROVE active[k].pos \in range
      <3>1. part[k] \in ToSet(part) /\ part[k] = active[k]
        BY <1>3, <2>1
      <3> QED
        BY <2>2, <3>1
    <2> QED
      BY <2>3, <2>4
  <1>5. \A k \in 1 .. start - 1 : k \in 1 .. Len(active) /\ active[k].pos \in 0 .. Len(L)
    BY <1>1
  <1>6. range \in SUBSET (0 .. Len(L)) /\ range # {} /\ range \in SUBSET Nat
    <2>1. 1 \in 1 .. start - 1
      BY <1>1
    <2>2. \A x \in range : x \in 0 .. Len(L)
      BY <1>4, <1>5
    <2>3. active[1].pos \in range
      BY <1>4, <2>1
    <2>4. range \in SUBSET Nat
      BY <1>1, <2>2
    <2> QED
      BY <2>2, <2>3, <2>4
  <1>7. Max(range) \in range /\ \A y \in range : y <= Max(range)
    BY <1>1, <1>6, MaxIsLargest
  <1>8. Min(range) \in range /\ \A y \in range : Min(range) <= y
    BY <1>6, MinIsSmallest
  <1>9. \A k \in 1 .. start - 1 : active[k].pos \in Min(range) .. Max(range)
    <2> TAKE k \in 1 .. start - 1
    <2>1. active[k].pos \in range
      BY <1>4
    <2>2. active[k].pos \in Int /\ Min(range) \in Int /\ Max(range) \in Int
      BY <1>6, <1>7, <1>8, <2>1
    <2> QED
      BY <1>7, <1>8, <2>1, <2>2
  <1> QED
    BY <1>3, <1>6, <1>7, <1>8, <1>9 DEF part

\* What a summary covers is in the history, in the snapshot or in one before.
LEMMA SummaryCovers ==
  ASSUME NEW active, NEW last, NEW L, NEW ranges, NEW n, IsRecent(active, last, L, ranges, n),
         NEW start \in 2 .. Len(active), NEW range,
         range = {m.pos : m \in ToSet(SubSeq(active, 1, start - 1))},
         NEW said, said = Transcript(SubSeq(active, 1, start - 1))
  PROVE  /\ Told(said) \in SUBSET Nat
         /\ Covered(L, ranges \cup {<<Min(range), Max(range)>>}, Told(said))
         /\ said = Sayable(SubSeq(active, 1, start - 1)) =>
              \A k \in 1 .. start - 1 :
                active[k].kind \notin {"boundary", "signature"} => active[k].pos \in Told(said)
  <1> DEFINE part == SubSeq(active, 1, start - 1)
             r == <<Min(range), Max(range)>>
  <1>1. /\ part \in Seq(Messages) /\ Len(part) = start - 1
        /\ \A k \in 1 .. start - 1 : part[k] = active[k]
        /\ r \in Nat \X Nat /\ \A k \in 1 .. start - 1 : active[k].pos \in r[1] .. r[2]
    BY SnapshotHolds
  <1> HIDE DEF part, r
  <1>2. /\ Len(active) \in Nat /\ Len(L) \in Nat /\ last \in 0 .. Len(L) /\ Len(active) = Len(L) - last
        /\ \A k \in 1 .. Len(active) : active[k].pos = last + k /\ Covered(L, ranges, active[k].covers)
    BY DEF IsRecent
  <1>3. /\ said \in Seq(Messages) /\ Sayable(part) \in Seq(Messages)
        /\ \A k \in 1 .. Len(said) : \E i \in 1 .. start - 1 : said[k] = active[i]
        /\ \A i \in 1 .. start - 1 : active[i].kind \notin {"boundary", "signature"} =>
             \E k \in 1 .. Len(Sayable(part)) : Sayable(part)[k] = active[i]
    <2>1. said = Transcript(part)
      BY DEF part
    <2>2. /\ said \in Seq(Messages) /\ Sayable(part) \in Seq(Messages)
          /\ \A k \in 1 .. Len(said) : \E i \in 1 .. Len(part) : said[k] = part[i]
          /\ \A i \in 1 .. Len(part) : part[i].kind \notin {"boundary", "signature"} =>
               \E k \in 1 .. Len(Sayable(part)) : Sayable(part)[k] = part[i]
      <3>1. /\ Transcript(part) \in Seq(Messages) /\ Sayable(part) \in Seq(Messages)
            /\ \A k \in 1 .. Len(Transcript(part)) : \E i \in 1 .. Len(part) : Transcript(part)[k] = part[i]
            /\ \A i \in 1 .. Len(part) : part[i].kind \notin {"boundary", "signature"} =>
                 \E k \in 1 .. Len(Sayable(part)) : Sayable(part)[k] = part[i]
        BY <1>1, TranscriptIs
      <3> QED
        BY <2>1, <3>1
    <2>3. \A k \in 1 .. Len(said) : \E i \in 1 .. start - 1 : said[k] = active[i]
      <3> TAKE k \in 1 .. Len(said)
      <3>1. PICK i \in 1 .. Len(part) : said[k] = part[i]
        BY <2>2
      <3>2. i \in 1 .. start - 1
        BY <1>1, <3>1
      <3> QED
        BY <1>1, <3>1, <3>2
    <2>4. ASSUME NEW i \in 1 .. start - 1, active[i].kind \notin {"boundary", "signature"}
          PROVE  \E k \in 1 .. Len(Sayable(part)) : Sayable(part)[k] = active[i]
      <3>1. i \in 1 .. Len(part) /\ part[i] = active[i]
        BY <1>1, <2>4
      <3> QED
        BY <2>2, <2>4, <3>1
    <2> QED
      BY <2>2, <2>3, <2>4
  <1>4. ASSUME NEW p \in Told(said)
        PROVE  /\ p \in 1 .. Len(L)
               /\ L[p].kind \in SystemKinds \/ \E x \in ranges \cup {r} : p \in x[1] .. x[2]
    <2>1. \E k \in 1 .. Len(said) : p = said[k].pos \/ p \in said[k].covers
      BY <1>3, ToldIs
    <2>2. PICK i \in 1 .. start - 1 : p = active[i].pos \/ p \in active[i].covers
      BY <1>3, <2>1
    <2>3. i \in 1 .. Len(active)
      BY <1>2
    <2>4. CASE p = active[i].pos
      <3>1. p \in 1 .. Len(L)
        BY <1>2, <2>3, <2>4
      <3> QED
        BY <3>1, <1>1, <2>4
    <2>5. CASE p \in active[i].covers
      BY <1>2, <2>3, <2>5 DEF Covered
    <2> QED
      BY <2>2, <2>4, <2>5
  <1>5. ASSUME said = Sayable(part), NEW k \in 1 .. start - 1,
               active[k].kind \notin {"boundary", "signature"}
        PROVE  active[k].pos \in Told(said)
    <2>1. PICK j \in 1 .. Len(said) : said[j] = active[k]
      BY <1>3, <1>5
    <2>2. active[k].pos # 0
      BY <1>2, k \in 1 .. Len(active)
    <2> QED
      BY <2>1, <2>2, <1>3, ToldIs
  <1>6. Covered(L, ranges \cup {r}, Told(said))
    BY <1>4 DEF Covered
  <1>7. Told(said) \in SUBSET Nat
    BY <1>2, <1>4
  <1> QED
    BY <1>5, <1>6, <1>7 DEF part, r

LEMMA HistoryStaysWhole ==
  ASSUME NEW L \in Seq(Messages), NEW A, NEW B, A \subseteq B, IsHistory(L, A)
  PROVE  IsHistory(L, B)
  BY DEF IsHistory, Covered

\* The boundary and the summary begin what the turn goes on with.
LEMMA SummaryFirst ==
  ASSUME NEW b \in Messages, NEW s \in Messages, NEW kept \in Seq(Messages),
         b.kind = "boundary", s.kind # "boundary",
         \A k \in 1 .. Len(kept) : kept[k].kind # "boundary"
  PROVE  /\ <<b, s>> \o kept \in Seq(Messages)
         /\ AfterBoundary(<<b, s>> \o kept) = <<s>> \o kept
  <1> DEFINE both == <<b, s>>
             one == <<s>>
             L == both \o kept
             A == one \o kept
  <1>1. /\ both \in Seq(Messages) /\ Len(both) = 2 /\ both[1] = b /\ both[2] = s
        /\ one \in Seq(Messages) /\ Len(one) = 1 /\ one[1] = s
    OBVIOUS
  <1> HIDE DEF both, one
  <1>2. /\ L \in Seq(Messages) /\ Len(L) = 2 + Len(kept) /\ Len(kept) \in Nat
        /\ \A i \in 1 .. 2 + Len(kept) : L[i] = IF i <= 2 THEN both[i] ELSE kept[i - 2]
        /\ A \in Seq(Messages) /\ Len(A) = 1 + Len(kept)
        /\ \A i \in 1 .. 1 + Len(kept) : A[i] = IF i <= 1 THEN one[i] ELSE kept[i - 1]
    <2>1. /\ L \in Seq(Messages) /\ Len(L) = Len(both) + Len(kept)
          /\ \A i \in 1 .. Len(both) + Len(kept) : L[i] = IF i <= Len(both) THEN both[i] ELSE kept[i - Len(both)]
      BY <1>1, ConcatProperties
    <2>2. /\ A \in Seq(Messages) /\ Len(A) = Len(one) + Len(kept)
          /\ \A i \in 1 .. Len(one) + Len(kept) : A[i] = IF i <= Len(one) THEN one[i] ELSE kept[i - Len(one)]
      BY <1>1, ConcatProperties
    <2>3. Len(kept) \in Nat
      BY LenProperties
    <2> HIDE DEF L, A
    <2> QED
      BY <1>1, <2>1, <2>2, <2>3
  <1> HIDE DEF L, A
  <1>3. L[1] = b /\ L[2] = s /\ \A k \in 1 .. Len(kept) : L[2 + k] = kept[k] /\ 2 + k \in 1 .. Len(L)
    <2>1. L[1] = b /\ L[2] = s
      BY <1>1, <1>2
    <2>2. ASSUME NEW k \in 1 .. Len(kept) PROVE L[2 + k] = kept[k] /\ 2 + k \in 1 .. Len(L)
      <3>1. 2 + k \in 1 .. 2 + Len(kept) /\ ~ (2 + k <= 2) /\ (2 + k) - 2 = k
        BY <1>2, <2>2
      <3> QED
        BY <1>2, <3>1
    <2> QED
      BY <2>1, <2>2
  <1>4. PICK last \in 0 .. Len(L) : IsActive(AfterBoundary(L), L, last)
    BY <1>2, AfterBoundaryIs
  <1> DEFINE F == AfterBoundary(L)
  <1>5. /\ F \in Seq(Messages) /\ Len(F) = Len(L) - last
        /\ \A k \in 1 .. Len(L) - last : F[k] = L[last + k]
        /\ last > 0 => L[last].kind = "boundary"
        /\ \A i \in last + 1 .. Len(L) : L[i].kind # "boundary"
    BY <1>4 DEF IsActive
  <1>6. last = 1
    <2>1. last \in Nat /\ last <= 2 + Len(kept)
      BY <1>2, <1>4
    <2>2. last # 0
      <3> SUFFICES ASSUME last = 0 PROVE FALSE
        OBVIOUS
      <3>1. 1 \in last + 1 .. Len(L)
        BY <1>2
      <3> QED
        BY <1>3, <1>5, <3>1
    <2>3. last # 2
      BY <1>3, <1>5
    <2>4. ~ (last > 2)
      <3> SUFFICES ASSUME last > 2 PROVE FALSE
        OBVIOUS
      <3>1. last - 2 \in 1 .. Len(kept) /\ 2 + (last - 2) = last
        BY <1>2, <2>1
      <3>2. L[last] = kept[last - 2]
        BY <1>3, <3>1
      <3> QED
        BY <1>5, <3>1, <3>2
    <2> QED
      BY <2>1, <2>2, <2>3, <2>4
  <1> HIDE DEF F
  <1>7. Len(F) = Len(A) /\ \A k \in 1 .. Len(F) : F[k] = L[1 + k] /\ k \in 1 .. 1 + Len(kept)
    BY <1>2, <1>5, <1>6
  <1>8. ASSUME NEW k \in 1 .. Len(F) PROVE F[k] = A[k]
    <2>1. CASE k = 1
      BY <1>1, <1>2, <1>3, <1>7, <2>1
    <2>2. CASE k # 1
      <3> DEFINE q == k - 1
      <3>1. q \in 1 .. Len(kept) /\ 1 + k = 2 + q /\ ~ (k <= 1) /\ k \in 1 .. 1 + Len(kept)
        BY <1>2, <1>7, <1>8, <2>2
      <3>2. A[k] = kept[q]
        BY <1>2, <3>1
      <3>3. F[k] = L[2 + q]
        BY <1>7, <3>1
      <3> HIDE DEF q
      <3> QED
        BY <1>3, <3>1, <3>2, <3>3
    <2> QED
      BY <2>1, <2>2
  <1>9. F = A
    BY <1>2, <1>5, <1>7, <1>8, SeqEqual
  <1> QED
    BY <1>2, <1>9 DEF F, L, A, both, one

LEMMA CompactInv == ConversationInv /\ Compact => ConversationInv'
  <1> SUFFICES ASSUME ConversationInv, Compact PROVE ConversationInv'
    OBVIOUS
  <1> DEFINE active == AfterBoundary(turn.prior)
             start == KeepStart(active, CompactKeepRecentTokens(MaxContextTokens))
             summarize == SubSeq(active, 1, start - 1)
             needed == /\ Tokens(active) + Tokens(turn.own) >= AutoCompactThreshold(MaxContextTokens)
                       /\ Len(active) > 1 /\ start > 1
             said == Transcript(summarize)
             range == {m.pos : m \in ToSet(summarize)}
             b == Message(turn.no, 0, "boundary", 1)
             s == [Message(turn.no, 0, "summary", PreviewTokens) EXCEPT !.covers = Told(said)]
             recap == <<b, s>>
             kept == SubSeq(active, start, Len(active))
             r == <<Min(range), Max(range)>>
             bigger == archive \cup {r}
             all == messages \o Positioned(recap)
  <1>1. /\ turn.at = "compact"
        /\ \/ /\ IF needed THEN Trouble ELSE UNCHANGED troubles
              /\ turn' = [turn EXCEPT !.at = "call", !.prior = active]
              /\ UNCHANGED <<messages, archive>>
           \/ /\ needed /\ messages' = all /\ archive' = bigger
              /\ turn' = [turn EXCEPT !.at = "call", !.compacted = TRUE,
                            !.cut = said # Sayable(summarize) \/ Tokens(said) > SummaryInputTokens,
                            !.prior = recap \o kept]
              /\ UNCHANGED troubles
           \/ /\ needed /\ FailConversation
              /\ archive' \in {archive, bigger}
              /\ messages' \in {messages} \cup {all : x \in archive' \ archive}
    BY DEF Compact
  <1>2. PICK last \in 0 .. Len(messages) : IsRecent(active, last, messages, archive, turn.no)
    BY <1>1, RecentIs
  <1>3. /\ messages \in Seq(Messages) /\ archive \in SUBSET (Nat \X Nat) /\ troubles \in Nat
        /\ turn.no \in Nat /\ turn.step \in Nat /\ turn.own \in Seq(Messages)
        /\ turn \in [at : {"idle", "compact", "call", "tools"}, no : Nat, step : Nat,
                     prior : Seq(Messages), own : Seq(Messages), calls : Seq(Messages),
                     saved : BOOLEAN, compacted : BOOLEAN, cut : BOOLEAN]
        /\ IsHistory(messages, archive)
        /\ \A i \in 1 .. Len(messages) : messages[i].turn < turn.no
    BY <1>1 DEF ConversationInv, ConversationTypes, Stored
  <1>4. /\ \A i \in 1 .. Len(turn.own) :
             /\ turn.own[i].turn = turn.no /\ turn.own[i].covers = {}
             /\ turn.own[i].kind \notin SystemKinds /\ ~ IsExchange(turn.own[i])
        /\ ExchangesInOrder(turn.own) /\ ResultsFollowCalls(turn.own) /\ ~ turn.saved
    BY <1>1 DEF ConversationInv, OwnIsWhole
  <1>5. /\ active \in Seq(Messages) /\ Len(active) \in Nat /\ Len(messages) \in Nat
        /\ last \in 0 .. Len(messages) /\ Len(active) = Len(messages) - last
        /\ \A k \in 1 .. Len(active) :
             /\ active[k].pos = last + k /\ active[k].turn \in Nat /\ active[k].turn < turn.no
             /\ active[k].kind = messages[last + k].kind /\ active[k].kind # "boundary"
             /\ Covered(messages, archive, active[k].covers)
        /\ ExchangesInOrder(active) /\ ResultsFollowCalls(active)
        /\ \A i \in Earlier(messages, turn.no) :
             i - last \in 1 .. Len(active) /\ messages[i].kind \notin SystemKinds \cup {"signature"}
    BY <1>2 DEF IsRecent
  <1>6. \A i \in 1 .. Len(messages) : messages[i].turn \in Nat /\ messages[i].turn <= turn.no
                                      /\ messages[i].turn # turn.no
    <2>1. \A i \in 1 .. Len(messages) : messages[i] \in Messages
      BY <1>3, ElementOfSeq
    <2>2. \A i \in 1 .. Len(messages) : messages[i].turn \in Nat
      BY <2>1 DEF Messages
    <2> QED
      BY <1>3, <2>2
  <1>7. \A i \in Earlier(messages, turn.no) :
          /\ i - last \in 1 .. Len(active) /\ active[i - last].pos = i /\ i # 0 /\ i \in Int
          /\ active[i - last].kind \notin SystemKinds \cup {"signature"}
    <2> TAKE i \in Earlier(messages, turn.no)
    <2> DEFINE k == i - last
    <2>1. k \in 1 .. Len(active) /\ messages[i].kind \notin SystemKinds \cup {"signature"}
      BY <1>5
    <2>2. i \in Int
      BY DEF Earlier
    <2>3. last + k = i
      BY <1>5, <2>2
    <2> HIDE DEF k
    <2>4. active[k].pos = i /\ active[k].kind = messages[i].kind /\ i # 0
      <3>1. active[k].pos = last + k /\ active[k].kind = messages[last + k].kind
        BY <1>5, <2>1
      <3>2. k >= 1 /\ last >= 0 /\ k \in Int /\ last \in Int
        BY <1>5, <2>1
      <3> QED
        BY <2>3, <3>1, <3>2
    <2> QED
      BY <2>1, <2>2, <2>4 DEF k
  <1>8. CASE /\ IF needed THEN Trouble ELSE UNCHANGED troubles
             /\ turn' = [turn EXCEPT !.at = "call", !.prior = active]
             /\ UNCHANGED <<messages, archive>>
    <2>1. messages' = messages /\ archive' = archive /\ troubles' \in Nat
      BY <1>3, <1>8 DEF Trouble
    <2>2. turn' = [turn EXCEPT !.at = "call", !.prior = active]
      BY <1>8
    <2> HIDE DEF active, needed
    <2>3. /\ turn'.at = "call" /\ turn'.prior = active /\ turn'.own = turn.own /\ turn'.no = turn.no
          /\ turn'.step = turn.step /\ turn'.saved = turn.saved
          /\ turn' \in [at : {"idle", "compact", "call", "tools"}, no : Nat, step : Nat,
                        prior : Seq(Messages), own : Seq(Messages), calls : Seq(Messages),
                        saved : BOOLEAN, compacted : BOOLEAN, cut : BOOLEAN]
      BY <1>3, <1>5, <2>2
    <2>4. ConversationTypes'
      BY <1>3, <2>1, <2>3 DEF ConversationTypes
    <2>5. Stored'
      <3>1. StepsTaken(messages, turn')
        BY <1>6, <2>3 DEF StepsTaken
      <3> QED
        BY <1>3, <1>6, <2>1, <2>3, <3>1 DEF Stored
    <2>6. OwnIsWhole'
      <3>1. StepsTaken(turn.own, turn')
        BY <1>4 DEF StepsTaken
      <3>2. \A i \in 1 .. Len(turn.own) : turn.own[i].kind # "call"
        BY <1>4 DEF IsExchange
      <3> QED
        BY <1>4, <2>1, <2>3, <3>1, <3>2 DEF OwnIsWhole
    <2>7. PriorIsWhole'
      <3>1. AfterBoundary(active) = active
        BY <1>5, NoBoundary
      <3>2. Earlier(messages, turn.no) \subseteq Told(active)
        BY <1>5, <1>7, ToldIs
      <3>3. AfterBoundary(turn.prior)' = active
        BY <2>3, <3>1
      <3>4. \A i \in 1 .. Len(active) : /\ IsExchange(active[i]) => active[i].turn < turn.no
                                        /\ Covered(messages, archive, active[i].covers)
        BY <1>5
      <3>5. turn'.at # "compact"
        BY <2>3
      <3> QED
        BY <1>5, <2>1, <2>3, <3>2, <3>3, <3>4, <3>5 DEF PriorIsWhole
    <2> QED
      BY <2>4, <2>5, <2>6, <2>7 DEF ConversationInv
  <1>9. SUFFICES ASSUME needed PROVE ConversationInv'
    BY <1>1, <1>8
  <1>10. start \in TurnStarts(active) /\ start > 1
    BY <1>5, <1>9, KeepStartsATurn
  <1> HIDE DEF active, needed, start
  <1>11. /\ start \in 2 .. Len(active) /\ kept \in Seq(Messages)
         /\ Len(kept) = Len(active) - start + 1
         /\ \A k \in 1 .. Len(active) - start + 1 : kept[k] = active[start + k - 1]
         /\ ExchangesInOrder(kept) /\ ResultsFollowCalls(kept)
    BY <1>2, <1>10, KeptIs
  <1>12. /\ r \in Nat \X Nat /\ Told(said) \in SUBSET Nat
         /\ Covered(messages, bigger, Told(said))
         /\ said = Sayable(summarize) =>
              \A k \in 1 .. start - 1 :
                active[k].kind \notin {"boundary", "signature"} => active[k].pos \in Told(said)
    <2>1. r \in Nat \X Nat
      BY <1>2, <1>11, SnapshotHolds
    <2>2. /\ Told(said) \in SUBSET Nat /\ Covered(messages, bigger, Told(said))
          /\ said = Sayable(summarize) =>
               \A k \in 1 .. start - 1 :
                 active[k].kind \notin {"boundary", "signature"} => active[k].pos \in Told(said)
      BY <1>2, <1>11, SummaryCovers
    <2> QED
      BY <2>1, <2>2
  <1> DEFINE cut == said # Sayable(summarize) \/ Tokens(said) > SummaryInputTokens
  <1>13. /\ ~ cut => \A k \in 1 .. start - 1 :
              active[k].kind \notin {"boundary", "signature"} => active[k].pos \in Told(said)
         /\ cut \in BOOLEAN
    BY <1>12
  <1> HIDE DEF cut, r, kept, said, summarize, range
  <1>14. /\ b \in Messages /\ b.turn = turn.no /\ b.kind = "boundary" /\ b.covers = {}
         /\ s \in Messages /\ s.turn = turn.no /\ s.kind = "summary" /\ s.covers = Told(said)
    BY <1>3, <1>12 DEF Message, Messages, Kinds, PreviewTokens
  <1> HIDE DEF b, s
  <1>15. /\ recap \in Seq(Messages) /\ Len(recap) = 2 /\ recap[1] = b /\ recap[2] = s
         /\ \A k \in 1 .. Len(recap) : k = 1 \/ k = 2
    BY <1>14
  <1>16. \A k \in 1 .. Len(kept) :
           /\ start + k - 1 \in 1 .. Len(active) /\ kept[k] = active[start + k - 1]
           /\ kept[k].kind # "boundary"
    <2> TAKE k \in 1 .. Len(kept)
    <2>1. start + k - 1 \in 1 .. Len(active) /\ k \in 1 .. Len(active) - start + 1
      BY <1>5, <1>11
    <2> QED
      BY <2>1, <1>5, <1>11
  <1>17. recap \o kept \in Seq(Messages) /\ AfterBoundary(recap \o kept) = <<s>> \o kept
    BY <1>11, <1>14, <1>16, SummaryFirst
  <1> DEFINE next == recap \o kept
  <1>18. next \in Seq(Messages) /\ AfterBoundary(next) = <<s>> \o kept
    BY <1>17
  <1> HIDE DEF recap, next
  <1>19. \A k \in 1 .. Len(recap) :
           /\ recap[k].turn = turn.no /\ recap[k].kind \in SystemKinds /\ ~ IsExchange(recap[k])
           /\ recap[k].kind # "result" /\ (recap[k].kind = "boundary" => k = 1)
           /\ Covered(messages, bigger, recap[k].covers)
    <2> TAKE k \in 1 .. Len(recap)
    <2>1. CASE k = 1
      <3>1. recap[k] = b
        BY <2>1, <1>15
      <3> QED
        BY <2>1, <3>1, <1>14 DEF IsExchange, SystemKinds, Covered
    <2>2. CASE k = 2
      <3>1. recap[k] = s
        BY <2>2, <1>15
      <3> HIDE DEF bigger
      <3> QED
        BY <2>2, <3>1, <1>12, <1>14 DEF IsExchange, SystemKinds
    <2> QED
      BY <2>1, <2>2, <1>15
  <1>20. archive \subseteq bigger /\ bigger \in SUBSET (Nat \X Nat)
    BY <1>3, <1>12
  <1> HIDE DEF bigger
  <1>21. IsHistory(all, bigger)
    <2>1. ExchangesInOrder(recap)
      BY <1>19 DEF ExchangesInOrder
    <2>2. \A k \in 1 .. Len(recap) :
            recap[k].turn = turn.no /\ Covered(messages, bigger, recap[k].covers)
      BY <1>19
    <2>3. \A k \in 1 .. Len(recap) : recap[k].kind = "boundary" =>
            k = 1 /\ \A i \in 1 .. Len(messages) : messages[i].turn < turn.no
      BY <1>3, <1>19
    <2>4. \A k \in 1 .. Len(recap) : ~ IsExchange(recap[k]) /\ recap[k].kind # "result"
      BY <1>19
    <2> QED
      BY <1>3, <1>6, <1>15, <1>20, <2>1, <2>2, <2>3, <2>4, HistoryGrows
  <1>22. GoesOn(all, messages, recap)
    BY <1>3, <1>15, StoredIs
  <1> DEFINE N == Positioned(recap)
  <1>23. /\ all = messages \o N /\ N \in Seq(Messages)
         /\ \A k \in 1 .. Len(N) : N[k].turn = turn.no
    <2>1. /\ N \in Seq(Messages) /\ Len(N) = Len(recap)
          /\ \A k \in 1 .. Len(recap) : N[k].turn = recap[k].turn
      BY <1>3, <1>15, PositionedIs
    <2> QED
      BY <2>1, <1>19
  <1> HIDE DEF all, N
  <1>24. /\ all \in Seq(Messages)
         /\ \A i \in 1 .. Len(all) :
              all[i].turn <= turn.no /\ (IsExchange(all[i]) => all[i].turn # turn.no)
    <2>1. all \in Seq(Messages)
      BY <1>22 DEF GoesOn
    <2>2. ASSUME NEW i \in 1 .. Len(all)
          PROVE  all[i].turn <= turn.no /\ (IsExchange(all[i]) => all[i].turn # turn.no)
      <3>1. CASE i \in 1 .. Len(messages)
        <4>1. all[i] = messages[i]
          BY <3>1, <1>22 DEF GoesOn
        <4> QED
          BY <3>1, <4>1, <1>6
      <3>2. CASE \E k \in 1 .. Len(recap) :
                   all[i].kind = recap[k].kind /\ all[i].turn = recap[k].turn /\ all[i].step = recap[k].step
        <4>1. PICK k \in 1 .. Len(recap) : all[i].kind = recap[k].kind /\ all[i].turn = recap[k].turn
          BY <3>2
        <4>2. all[i].turn = turn.no /\ ~ IsExchange(all[i])
          BY <4>1, <1>19 DEF IsExchange
        <4> QED
          BY <4>2, <1>3
      <3> QED
        BY <3>1, <3>2, <1>22 DEF GoesOn
    <2> QED
      BY <2>1, <2>2
  <1>25. CASE /\ messages' = all /\ archive' = bigger
              /\ turn' = [turn EXCEPT !.at = "call", !.compacted = TRUE, !.cut = cut, !.prior = next]
              /\ UNCHANGED troubles
    <2>1. messages' = all /\ archive' = bigger /\ troubles' = troubles
      BY <1>25
    <2>2. /\ turn'.at = "call" /\ turn'.prior = next /\ turn'.own = turn.own /\ turn'.no = turn.no
          /\ turn'.step = turn.step /\ turn'.saved = turn.saved /\ turn'.cut = cut
          /\ turn' \in [at : {"idle", "compact", "call", "tools"}, no : Nat, step : Nat,
                        prior : Seq(Messages), own : Seq(Messages), calls : Seq(Messages),
                        saved : BOOLEAN, compacted : BOOLEAN, cut : BOOLEAN]
      BY <1>3, <1>13, <1>18, <1>25
    <2>3. ConversationTypes'
      BY <1>3, <1>20, <1>24, <2>1, <2>2 DEF ConversationTypes
    <2>4. Stored'
      <3>1. StepsTaken(all, turn')
        BY <1>24, <2>2 DEF StepsTaken
      <3> QED
        BY <1>21, <1>24, <2>1, <2>2, <3>1 DEF Stored
    <2>5. OwnIsWhole'
      <3>1. StepsTaken(turn.own, turn')
        BY <1>4 DEF StepsTaken
      <3>2. \A i \in 1 .. Len(turn.own) : turn.own[i].kind # "call"
        BY <1>4 DEF IsExchange
      <3> QED
        BY <1>4, <2>1, <2>2, <3>1, <3>2 DEF OwnIsWhole
    <2>6. PriorIsWhole'
      <3> DEFINE one == <<s>>
                 A == one \o kept
      <3>1. /\ one \in Seq(Messages) /\ Len(one) = 1 /\ one[1] = s /\ \A k \in 1 .. Len(one) : k = 1
        BY <1>14, SingleIs
      <3>2. AfterBoundary(turn.prior)' = A
        BY <1>18, <2>2
      <3> HIDE DEF one
      <3>3. ~ IsExchange(s) /\ s.kind # "result"
        BY <1>14 DEF IsExchange
      <3>4. ExchangesInOrder(A)
        <4>1. ExchangesInOrder(one)
          BY <3>1 DEF ExchangesInOrder
        <4>2. \A i \in 1 .. Len(one) : ~ IsExchange(one[i])
          BY <3>1, <3>3
        <4> QED
          BY <1>11, <3>1, <4>1, <4>2, OrderOfBoth
      <3>5. ResultsFollowCalls(A)
        <4>1. ResultsFollowCalls(one)
          BY <3>1, <3>3, FollowingCalls
        <4> QED
          BY <1>11, <3>1, <4>1, FollowingCalls, BothFollow
      <3>6. /\ A \in Seq(Messages) /\ Len(A) = Len(one) + Len(kept)
            /\ Len(one) \in Nat /\ Len(kept) \in Nat
            /\ \A i \in 1 .. Len(one) : i \in 1 .. Len(one) + Len(kept) /\ A[i] = one[i]
            /\ \A i \in Len(one) + 1 .. Len(one) + Len(kept) :
                 i - Len(one) \in 1 .. Len(kept) /\ A[i] = kept[i - Len(one)]
            /\ \A k \in 1 .. Len(kept) : /\ Len(one) + k \in Len(one) + 1 .. Len(one) + Len(kept)
                                         /\ A[Len(one) + k] = kept[k]
        <4>1. one \in Seq(Messages) /\ kept \in Seq(Messages)
          BY <1>11, <3>1
        <4> QED
          BY <4>1, ConcatIs
      <3> HIDE DEF A
      <3>7. ASSUME NEW S, Covered(messages, archive, S) \/ Covered(messages, bigger, S)
            PROVE  Covered(all, bigger, S)
        BY <1>3, <1>20, <1>23, <3>7, CoveredGrows
      <3>8. ASSUME NEW i \in 1 .. Len(A)
            PROVE  /\ IsExchange(A[i]) => A[i].turn < turn.no
                   /\ Covered(all, bigger, A[i].covers)
        <4>1. CASE i \in 1 .. Len(one)
          <5>1. A[i] = s
            BY <4>1, <3>1, <3>6
          <5> QED
            BY <5>1, <3>3, <3>7, <1>12, <1>14
        <4>2. CASE i \notin 1 .. Len(one)
          <5>1. i \in Len(one) + 1 .. Len(one) + Len(kept)
            BY <4>2, <3>6, <3>8
          <5>2. PICK k \in 1 .. Len(kept) : A[i] = kept[k]
            BY <5>1, <3>6
          <5>3. PICK q \in 1 .. Len(active) : A[i] = active[q]
            BY <5>2, <1>16
          <5> QED
            BY <5>3, <1>5, <3>7
        <4> QED
          BY <4>1, <4>2
      <3>9. ~ cut => Earlier(all, turn.no) \subseteq Told(A)
        <4> SUFFICES ASSUME ~ cut, NEW i \in Earlier(messages, turn.no) PROVE i \in Told(A)
          <5>1. Earlier(all, turn.no) = Earlier(messages, turn.no)
            BY <1>3, <1>23, EarlierStays
          <5> QED
            BY <5>1
        <4> DEFINE k == i - last
        <4>1. /\ k \in 1 .. Len(active) /\ active[k].pos = i /\ i # 0
              /\ active[k].kind \notin SystemKinds \cup {"signature"}
          BY <1>7
        <4> HIDE DEF k
        <4>2. CASE k < start
          <5>1. k \in 1 .. start - 1 /\ active[k].kind \notin {"boundary", "signature"}
            BY <4>1, <4>2, <1>11 DEF SystemKinds
          <5>2. i \in s.covers
            BY <4>1, <5>1, <1>13, <1>14
          <5>3. 1 \in 1 .. Len(A) /\ A[1] = s
            BY <3>1, <3>6
          <5> QED
            BY <4>1, <5>2, <5>3, <3>6, ToldIs
        <4>3. CASE ~ (k < start)
          <5> DEFINE q == k - start + 1
          <5>1. q \in 1 .. Len(kept) /\ start + q - 1 = k
            BY <4>1, <4>3, <1>5, <1>11
          <5> HIDE DEF q
          <5>2. kept[q] = active[k]
            BY <5>1, <1>16
          <5>3. Len(one) + q \in 1 .. Len(A) /\ A[Len(one) + q] = kept[q]
            BY <5>1, <3>6
          <5> QED
            BY <4>1, <5>2, <5>3, <3>6, ToldIs
        <4> QED
          BY <4>2, <4>3
      <3>10. turn'.at # "compact"
        BY <2>2
      <3> QED
        BY <2>1, <2>2, <3>2, <3>4, <3>5, <3>8, <3>9, <3>10 DEF PriorIsWhole
    <2> QED
      BY <2>3, <2>4, <2>5, <2>6 DEF ConversationInv
  <1>26. CASE /\ FailConversation /\ archive' \in {archive, bigger}
              /\ messages' \in {messages} \cup {all : x \in archive' \ archive}
    <2>1. troubles' \in Nat /\ turn' = [Idle EXCEPT !.no = turn.no]
      BY <1>3, <1>26 DEF FailConversation, Trouble
    <2>2. archive' \in SUBSET (Nat \X Nat) /\ archive \subseteq archive'
      BY <1>3, <1>20, <1>26
    <2>3. CASE messages' = messages
      <3>1. IsHistory(messages, archive')
        BY <1>3, <2>2, HistoryStaysWhole
      <3> QED
        BY <1>3, <1>6, <2>1, <2>2, <2>3, <3>1, TurnEnds
    <2>4. CASE messages' # messages
      <3>1. messages' = all /\ archive' = bigger
        BY <1>26, <2>4
      <3> QED
        BY <1>21, <1>24, <2>1, <2>2, <3>1, TurnEnds
    <2> QED
      BY <2>3, <2>4
  <1> QED
    BY <1>1, <1>8, <1>25, <1>26 DEF all, bigger, recap, next, cut, kept, r, b, s, said, range, summarize, active, start, needed

-----------------------------------------------------------------------------
\* The theorems

LEMMA StepInv == ConversationInv /\ [ConversationNext]_conversationVars => ConversationInv'
  <1> SUFFICES ASSUME ConversationInv, [ConversationNext]_conversationVars PROVE ConversationInv'
    OBVIOUS
  <1>1. CASE UNCHANGED conversationVars
    BY <1>1 DEF conversationVars, ConversationInv, ConversationTypes, Stored, OwnIsWhole, PriorIsWhole
  <1>2. CASE BeginTurn
    BY <1>2, BeginTurnInv
  <1>3. CASE Compact
    BY <1>3, CompactInv
  <1>4. CASE RequestRefused
    BY <1>4, RequestRefusedInv
  <1>5. CASE FinalAnswer
    BY <1>5, FinalAnswerInv
  <1>6. CASE CallTools
    BY <1>6, CallToolsInv
  <1>7. CASE ToolResults
    BY <1>7, ToolResultsInv
  <1> QED
    BY <1>1, <1>2, <1>3, <1>4, <1>5, <1>6, <1>7 DEF ConversationNext

\* Every history that a session reaches is whole, and so is what its turn goes on with
\* (appendMessages, compactPriorIfNeeded, RunTurn).
THEOREM ConversationIsWhole == ConversationSpec => []ConversationInv
  <1>1. ConversationInit => ConversationInv
    BY InitInv
  <1>2. ConversationInv /\ [ConversationNext]_conversationVars => ConversationInv'
    BY StepInv
  <1> QED
    BY <1>1, <1>2, PTL DEF ConversationSpec

\* The request of a turn that compacts tells everything since the last boundary, what
\* its summary replaces is in a snapshot, and no result loses its call (compactPriorIfNeeded).
THEOREM CompactionKeepsAll == ConversationSpec => []CompactionIsWhole
  <1>1. ConversationInv => CompactionIsWhole
    BY InvWhole
  <1> QED
    BY <1>1, ConversationIsWhole, PTL

\* What both providers are sent of a request that is accepted is well-formed
\* (ValidateConversationItems, toAnthropicMessages, toResponsesInput).
THEOREM AcceptedIsAnswered == ConversationSpec => []CallsAreAnswered
  <1>1. ConversationInv => CallsAreAnswered
    BY InvAnswered
  <1> QED
    BY <1>1, ConversationIsWhole, PTL
===============================================================================
