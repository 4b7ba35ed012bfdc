--------------------------- MODULE LedgerSyncProofs ---------------------------
(***************************************************************************)
(* Proofs about the run records on their way to the server's ledger: their *)
(* types, that no run is billed twice, and the step-by-step refinement of  *)
(* RunLedger, each for any number of slots, runs and crashes.              *)
(***************************************************************************)
EXTENDS LedgerSync, FiniteSetTheorems, FunctionTheorems, WellFoundedInduction, TLAPS

-----------------------------------------------------------------------------
(* Counting up: a set of numbers from 0 on that is closed under the next   *)
(* one, and functions defined along it.                                    *)

LEMMA CountingUp ==
  ASSUME NEW N \in Nat, NEW T, 0 \in T, \A i \in 1 .. N : i - 1 \in T => i \in T
  PROVE  \A i \in 0 .. N : i \in T
<1> DEFINE U == {0 .. n : n \in (0 .. N) \ T}
           R == StrictSubsetOrdering(Nat)
<1> SUFFICES ASSUME (0 .. N) \ T # {} PROVE FALSE
  OBVIOUS
<1>1. U \subseteq FiniteSubsetsOf(Nat) /\ U # {}
  <2>1. \A n \in (0 .. N) \ T : IsFiniteSet(0 .. n)
    BY FS_Interval
  <2>2. \A n \in (0 .. N) \ T : 0 .. n \in SUBSET Nat
    OBVIOUS
  <2> QED
    BY <2>1, <2>2, Zenon DEF FiniteSubsetsOf
<1>2. \E x \in U : \A y \in U : <<y, x>> \notin R
  <2>1. IsWellFoundedOn(R, FiniteSubsetsOf(Nat))
    BY FS_StrictSubsetOrderingWellFounded
  <2> HIDE DEF U, R
  <2> QED
    BY <1>1, <2>1, WFMin
<1>3. PICK x \in U : \A y \in U : <<y, x>> \notin R
  BY <1>2
<1>4. PICK m \in (0 .. N) \ T : x = 0 .. m
  BY <1>3
<1>5. m - 1 \in (0 .. N) \ T
  BY <1>4
<1>6. /\ 0 .. m - 1 \in U /\ 0 .. m - 1 \subseteq 0 .. m
      /\ m \in 0 .. m /\ m \notin 0 .. m - 1
  BY <1>5
<1>7. <<0 .. m - 1, 0 .. m>> \in R
  BY <1>6, 0 .. m - 1 \in SUBSET Nat, 0 .. m \in SUBSET Nat DEF StrictSubsetOrdering
<1> QED
  BY <1>3, <1>4, <1>6, <1>7

\* Each value up to that of N is made of the one before.
Follows(f, N, a, G) == f[0] = a /\ \A i \in 1 .. N : f[i] = G[i][f[i - 1]]

\* A function may be defined from each value to the next.
LEMMA StepByStep ==
  ASSUME NEW N \in Nat, NEW S, NEW a \in S, NEW G \in [1 .. N -> [S -> S]]
  PROVE  \E f \in [0 .. N -> S] : Follows(f, N, a, G)
<1> DEFINE Upto(n, f) == f[0] = a /\ \A i \in 1 .. n : f[i] = G[i][f[i - 1]]
           T == {n \in 0 .. N : \E f \in [0 .. n -> S] : Upto(n, f)}
<1>1. 0 \in T
  <2>1. [i \in 0 .. 0 |-> a] \in [0 .. 0 -> S] /\ Upto(0, [i \in 0 .. 0 |-> a])
    OBVIOUS
  <2> HIDE DEF Upto
  <2> QED
    BY <2>1
<1>2. ASSUME NEW n \in 1 .. N, n - 1 \in T PROVE n \in T
  <2>1. PICK f \in [0 .. n - 1 -> S] : Upto(n - 1, f)
    BY <1>2
  <2> DEFINE g == [i \in 0 .. n |-> IF i = n THEN G[n][f[n - 1]] ELSE f[i]]
  <2>2. g \in [0 .. n -> S]
    <3>1. f[n - 1] \in S /\ G[n] \in [S -> S]
      OBVIOUS
    <3>2. G[n][f[n - 1]] \in S
      BY <3>1
    <3> QED
      BY <3>2
  <2>3. g[0] = a
    BY <2>1
  <2>4. ASSUME NEW i \in 1 .. n PROVE g[i] = G[i][g[i - 1]]
    <3>1. CASE i = n
      BY <3>1
    <3>2. CASE i # n
      <4>1. i \in 1 .. n - 1 /\ i - 1 \in 0 .. n /\ i - 1 # n /\ i \in 0 .. n
        BY <3>2
      <4> QED
        BY <2>1, <3>2, <4>1
    <3> QED
      BY <3>1, <3>2
  <2> HIDE DEF g
  <2>5. Upto(n, g)
    BY <2>3, <2>4
  <2>6. n \in 0 .. N
    OBVIOUS
  <2> HIDE DEF Upto
  <2> QED
    BY <2>2, <2>5, <2>6
<1> HIDE DEF T
<1>3. \A i \in 1 .. N : i - 1 \in T => i \in T
  BY <1>2
<1>4. \A i \in 0 .. N : i \in T
  BY <1>1, <1>3, CountingUp
<1>5. N \in T
  BY <1>4
<1>6. \E f \in [0 .. N -> S] : Upto(N, f)
  BY <1>5 DEF T
<1> QED
  BY <1>6 DEF Follows

-----------------------------------------------------------------------------
(* Sequences of records.                                                   *)

\* The runs of the records follow one another as the pairs of R say.
Ordered(q, R) == \A i, j \in 1 .. Len(q) : i < j => <<q[i].run, q[j].run>> \in R

LEMMA AppendFacts ==
  ASSUME NEW S, NEW q \in Seq(S), NEW r \in S
  PROVE  /\ Append(q, r) \in Seq(S) /\ Len(Append(q, r)) = Len(q) + 1
         /\ \A i \in 1 .. Len(q) : Append(q, r)[i] = q[i]
         /\ Append(q, r)[Len(q) + 1] = r
         /\ Members(Append(q, r)) = Members(q) \cup {r}
<1>1. /\ Append(q, r) \in Seq(S) /\ Len(Append(q, r)) = Len(q) + 1
      /\ \A i \in 1 .. Len(q) : Append(q, r)[i] = q[i]
      /\ Append(q, r)[Len(q) + 1] = r
      /\ DOMAIN q = 1 .. Len(q) /\ DOMAIN Append(q, r) = 1 .. Len(q) + 1
      /\ Len(q) \in Nat
  OBVIOUS
<1>2. \A x : x \in Members(Append(q, r)) <=> x \in Members(q) \cup {r}
  <2> SUFFICES ASSUME NEW x
               PROVE  (\E i \in 1 .. Len(q) + 1 : x = Append(q, r)[i])
                        <=> (\E i \in 1 .. Len(q) : x = q[i]) \/ x = r
    BY <1>1 DEF Members
  <2> QED
    BY <1>1
<1> QED
  BY <1>1, <1>2

LEMMA OrderedAppend ==
  ASSUME NEW q \in Seq(RunRecord), NEW r \in RunRecord, NEW R,
         Ordered(q, R), \A x \in Members(q) : <<x.run, r.run>> \in R
  PROVE  Ordered(Append(q, r), R)
<1>1. /\ Len(Append(q, r)) = Len(q) + 1 /\ Len(q) \in Nat
      /\ \A i \in 1 .. Len(q) : Append(q, r)[i] = q[i]
      /\ Append(q, r)[Len(q) + 1] = r
  BY AppendFacts
<1>2. \A i \in 1 .. Len(q) : <<q[i].run, r.run>> \in R
  BY DEF Members
<1>3. ASSUME NEW i \in 1 .. Len(q) + 1, NEW j \in 1 .. Len(q) + 1, i < j
      PROVE  <<Append(q, r)[i].run, Append(q, r)[j].run>> \in R
  <2>1. i \in 1 .. Len(q) /\ Append(q, r)[i] = q[i]
    BY <1>1, <1>3
  <2>2. CASE j = Len(q) + 1
    BY <1>1, <1>2, <2>1, <2>2
  <2>3. CASE j \in 1 .. Len(q)
    BY <1>1, <1>3, <2>1, <2>3 DEF Ordered
  <2>4. j = Len(q) + 1 \/ j \in 1 .. Len(q)
    <3>1. Len(q) \in Nat
      BY <1>1
    <3> QED
      BY ONLY <3>1
  <2> QED
    BY <2>2, <2>3, <2>4
<1> QED
  BY <1>1, <1>3 DEF Ordered

LEMMA TailFacts ==
  ASSUME NEW S, NEW q \in Seq(S), q # <<>>
  PROVE  /\ Tail(q) \in Seq(S) /\ Len(Tail(q)) = Len(q) - 1 /\ Len(q) \in Nat \ {0}
         /\ \A i \in 1 .. Len(q) - 1 : Tail(q)[i] = q[i + 1]
         /\ Members(q) = Members(Tail(q)) \cup {q[1]}
<1>1. /\ Tail(q) \in Seq(S) /\ Len(Tail(q)) = Len(q) - 1 /\ Len(q) \in Nat \ {0}
      /\ \A i \in 1 .. Len(q) - 1 : Tail(q)[i] = q[i + 1]
      /\ DOMAIN q = 1 .. Len(q) /\ DOMAIN Tail(q) = 1 .. Len(q) - 1
  OBVIOUS
<1>2. ASSUME NEW x
      PROVE  (\E i \in 1 .. Len(q) : x = q[i])
               <=> (\E i \in 1 .. Len(q) - 1 : x = Tail(q)[i]) \/ x = q[1]
  <2>1. ASSUME NEW i \in 1 .. Len(q), x = q[i], i # 1
        PROVE  \E k \in 1 .. Len(q) - 1 : x = Tail(q)[k]
    <3>1. i - 1 \in 1 .. Len(q) - 1 /\ Tail(q)[i - 1] = q[i]
      BY <1>1, <2>1
    <3> QED
      BY <2>1, <3>1
  <2>2. ASSUME NEW k \in 1 .. Len(q) - 1, x = Tail(q)[k]
        PROVE  \E i \in 1 .. Len(q) : x = q[i]
    BY <1>1, <2>2, k + 1 \in 1 .. Len(q)
  <2> QED
    BY <1>1, <2>1, <2>2
<1>3. ASSUME NEW x PROVE x \in Members(q) <=> x \in Members(Tail(q)) \cup {q[1]}
  <2>1. x \in Members(q) <=> \E i \in 1 .. Len(q) : x = q[i]
    BY <1>1 DEF Members
  <2>2. x \in Members(Tail(q)) <=> \E i \in 1 .. Len(q) - 1 : x = Tail(q)[i]
    BY <1>1 DEF Members
  <2> QED
    BY <1>2, <2>1, <2>2
<1> QED
  BY <1>1, <1>3

\* What the acknowledgement leaves in the outbox: the records above it, in their
\* order.
LEMMA UnackedFacts ==
  ASSUME NEW box \in Seq(RunRecord), NEW n \in Nat, NEW R
  PROVE  /\ Unacked(box, n) \in Seq(RunRecord) /\ Len(Unacked(box, n)) <= Len(box)
         /\ Members(Unacked(box, n)) = {r \in Members(box) : r.seq > n}
         /\ Ordered(box, R) => Ordered(Unacked(box, n), R)
<1> DEFINE N == Len(box)
           S == Seq(RunRecord)
           Rest(g) == g = [i \in 0 .. Len(box) |->
                             IF i = 0 THEN <<>>
                             ELSE IF box[i].seq > n THEN Append(g[i - 1], box[i])
                             ELSE g[i - 1]]
           G == [i \in 1 .. N |-> [q \in S |->
                   IF box[i].seq > n THEN Append(q, box[i]) ELSE q]]
<1>1. N \in Nat /\ <<>> \in S /\ (\A i \in 1 .. N : box[i] \in RunRecord) /\ DOMAIN box = 1 .. N
  OBVIOUS
<1>2. G \in [1 .. N -> [S -> S]]
  <2> SUFFICES ASSUME NEW i \in 1 .. N, NEW q \in S
               PROVE  (IF box[i].seq > n THEN Append(q, box[i]) ELSE q) \in S
    OBVIOUS
  <2> QED
    BY <1>1, AppendFacts
<1>3. PICK f \in [0 .. N -> S] : f[0] = <<>> /\ \A i \in 1 .. N : f[i] = G[i][f[i - 1]]
  <2> HIDE DEF N, S, G
  <2>1. \E f \in [0 .. N -> S] : Follows(f, N, <<>>, G)
    BY <1>1, <1>2, StepByStep
  <2> QED
    BY <2>1 DEF Follows
<1>4. Rest(f)
  <2>1. f = [i \in 0 .. N |-> f[i]]
    BY <1>3
  <2>2. ASSUME NEW i \in 1 .. N
        PROVE  f[i] = IF box[i].seq > n THEN Append(f[i - 1], box[i]) ELSE f[i - 1]
    <3>1. f[i - 1] \in S
      BY <1>3
    <3> QED
      BY <1>3, <3>1
  <2>3. ASSUME NEW i \in 0 .. N
        PROVE  f[i] = IF i = 0 THEN <<>>
                      ELSE IF box[i].seq > n THEN Append(f[i - 1], box[i]) ELSE f[i - 1]
    <3>1. CASE i = 0
      BY <1>3, <3>1
    <3>2. CASE i # 0
      <4>1. i \in 1 .. N
        BY <1>1, <3>2
      <4> QED
        BY <2>2, <3>2, <4>1
    <3> QED
      BY <3>1, <3>2
  <2> QED
    BY <2>1, <2>3
<1> DEFINE g == CHOOSE h : Rest(h)
<1>5. Rest(g)
  <2> HIDE DEF Rest
  <2> QED
    BY <1>4, Zenon
<1>6. Unacked(box, n) = g[N]
  BY Zenon DEF Unacked
<1> HIDE DEF g
<1>7. g[0] = <<>> /\ \A i \in 1 .. N :
        g[i] = IF box[i].seq > n THEN Append(g[i - 1], box[i]) ELSE g[i - 1]
  <2>1. ASSUME NEW i \in 0 .. N
        PROVE  g[i] = IF i = 0 THEN <<>>
                      ELSE IF box[i].seq > n THEN Append(g[i - 1], box[i]) ELSE g[i - 1]
    BY <1>5
  <2>2. 0 \in 0 .. N /\ \A i \in 1 .. N : i \in 0 .. N /\ i # 0
    BY <1>1
  <2>3. ASSUME NEW i \in 1 .. N
        PROVE  g[i] = IF box[i].seq > n THEN Append(g[i - 1], box[i]) ELSE g[i - 1]
    BY <2>1, <2>2
  <2> QED
    BY <2>1, <2>2, <2>3
<1> HIDE DEF Rest, G
<1> DEFINE Taken(i) ==
             /\ g[i] \in S /\ Len(g[i]) <= i
             /\ \A r : r \in Members(g[i]) <=> \E k \in 1 .. i : r = box[k] /\ r.seq > n
             /\ Ordered(box, R) => Ordered(g[i], R)
           T == {i \in 0 .. N : Taken(i)}
<1>8. 0 \in T
  <2>1. Members(<<>>) = {} /\ Len(<<>>) = 0
    BY DEF Members
  <2>2. Ordered(<<>>, R)
    BY <2>1 DEF Ordered
  <2>3. \A r : r \in Members(g[0]) <=> \E k \in 1 .. 0 : r = box[k] /\ r.seq > n
    BY <1>7, <2>1
  <2>4. Taken(0)
    BY <1>1, <1>7, <2>1, <2>2, <2>3
  <2> HIDE DEF Taken
  <2> QED
    BY <1>1, <2>4
<1>9. ASSUME NEW i \in 1 .. N, i - 1 \in T PROVE i \in T
  <2>1. Taken(i - 1) /\ i - 1 \in Nat
    BY <1>9
  <2>2. \A r : (\E k \in 1 .. i : r = box[k] /\ r.seq > n)
                 <=> (\E k \in 1 .. i - 1 : r = box[k] /\ r.seq > n)
                       \/ (r = box[i] /\ r.seq > n)
    BY <1>1
  <2>3. CASE ~(box[i].seq > n)
    <3>1. g[i] = g[i - 1]
      BY <1>7, <2>3
    <3>2. \A r : r \in Members(g[i]) <=> \E k \in 1 .. i : r = box[k] /\ r.seq > n
      BY <2>1, <2>2, <2>3, <3>1
    <3> QED
      BY <2>1, <3>1, <3>2
  <2>4. CASE box[i].seq > n
    <3>1. g[i] = Append(g[i - 1], box[i])
      BY <1>7, <2>4
    <3> DEFINE q == g[i - 1]
    <3>2. q \in Seq(RunRecord) /\ box[i] \in RunRecord
      BY <1>1, <2>1
    <3>3. /\ g[i] \in S /\ Len(g[i]) = Len(q) + 1 /\ Len(q) \in Nat
          /\ \A k \in 1 .. Len(q) : g[i][k] = q[k]
          /\ g[i][Len(q) + 1] = box[i]
          /\ Members(g[i]) = Members(q) \cup {box[i]}
      BY <3>1, <3>2, AppendFacts
    <3>4. \A r : r \in Members(g[i]) <=> \E k \in 1 .. i : r = box[k] /\ r.seq > n
      BY <2>1, <2>2, <2>4, <3>3
    <3>5. ASSUME Ordered(box, R) PROVE Ordered(g[i], R)
      <4>1. Ordered(q, R)
        BY <2>1, <3>5
      <4>2. ASSUME NEW k \in 1 .. Len(q) PROVE <<q[k].run, box[i].run>> \in R
        <5>1. q[k] \in Members(q)
          BY <3>2 DEF Members
        <5>2. PICK j \in 1 .. i - 1 : q[k] = box[j]
          BY <2>1, <5>1
        <5> QED
          BY <3>5, <5>2, <1>1 DEF Ordered
      <4>3. ASSUME NEW a \in 1 .. Len(q) + 1, NEW b \in 1 .. Len(q) + 1, a < b
            PROVE  <<g[i][a].run, g[i][b].run>> \in R
        <5>1. a \in 1 .. Len(q) /\ g[i][a] = q[a]
          BY <3>3, <4>3
        <5>2. CASE b = Len(q) + 1
          BY <3>3, <4>2, <5>1, <5>2
        <5>3. CASE b \in 1 .. Len(q)
          BY <3>3, <4>1, <4>3, <5>1, <5>3 DEF Ordered
        <5>4. b = Len(q) + 1 \/ b \in 1 .. Len(q)
          <6>1. Len(q) \in Nat
            BY <3>3
          <6> QED
            BY ONLY <6>1
        <5> QED
          BY <5>2, <5>3, <5>4
      <4> QED
        BY <3>3, <4>3 DEF Ordered
    <3> HIDE DEF S
    <3>6. Len(g[i]) <= i
      BY <2>1, <3>3
    <3> QED
      BY <3>3, <3>4, <3>5, <3>6
  <2> QED
    BY <2>3, <2>4
<1> HIDE DEF T
<1>10. \A i \in 1 .. N : i - 1 \in T => i \in T
  BY <1>9
<1>11. \A i \in 0 .. N : i \in T
  BY <1>1, <1>8, <1>10, CountingUp
<1>12. Taken(N)
  <2> HIDE DEF Taken
  <2>1. N \in T
    BY <1>1, <1>11
  <2> QED
    BY <2>1 DEF T
<1>13. \A r : r \in Members(g[N]) <=> r \in {x \in Members(box) : x.seq > n}
  BY <1>1, <1>12 DEF Members
<1> QED
  BY <1>6, <1>12, <1>13

-----------------------------------------------------------------------------
(* A meter on its own: the one in RAM, the blobs it has saved.             *)

HeldOpen(m) == {m.open[s] : s \in {t \in Slot : m.open[t] # NoRun}}

Records(m) == Members(m.outbox) \cup HeldOpen(m)

\* The same run under the same number; it may have ended otherwise.
Same(x, y) == x.seq = y.seq /\ x.run = y.run

\* The records of a meter carry different numbers, none above its counter.
Whole(m) ==
  /\ m \in Meter /\ Len(m.outbox) <= OUTBOX_CAP
  /\ \A x \in Records(m) : x.seq <= m.seq
  /\ \A x, y \in Members(m.outbox) : x.seq = y.seq => x = y
  /\ \A s \in Slot : m.open[s] # NoRun =>
       /\ \A x \in Members(m.outbox) : x.seq # m.open[s].seq
       /\ \A t \in Slot \ {s} : m.open[t].seq # m.open[s].seq

LEMMA MeterFacts ==
  ASSUME NEW m, m \in Meter
  PROVE  /\ m.seq \in 0 .. MaxRuns /\ m.open \in [Slot -> RunRecord \cup {NoRun}]
         /\ m.outbox \in Seq(RunRecord) /\ m.acked \in 0 .. MaxRuns /\ m.dropped \in Nat
         /\ Members(m.outbox) \subseteq RunRecord /\ Records(m) \subseteq RunRecord
         /\ \A s \in Slot : m.open[s] # NoRun => m.open[s] \in Records(m)
<1>1. /\ m.seq \in 0 .. MaxRuns /\ m.open \in [Slot -> RunRecord \cup {NoRun}]
      /\ m.outbox \in Seq(RunRecord) /\ m.acked \in 0 .. MaxRuns /\ m.dropped \in Nat
  BY DEF Meter
<1>2. Members(m.outbox) \subseteq RunRecord
  BY <1>1 DEF Members
<1> QED
  BY <1>1, <1>2 DEF Records, HeldOpen

LEMMA RecordFacts ==
  ASSUME NEW x \in RunRecord
  PROVE  /\ x.seq \in Run /\ x.run \in Run /\ x.end \in Ends /\ x # NoRun
         /\ \A e \in Ends : [x EXCEPT !.end = e] \in RunRecord /\ Same([x EXCEPT !.end = e], x)
<1>1. x.seq \in Run /\ x.run \in Run /\ x.end \in Ends
  BY DEF RunRecord
<1>2. x # NoRun
  <2>1. NoRun.seq = 0
    BY DEF NoRun
  <2> QED
    BY <1>1, <2>1, LedgerAssumption DEF Run
<1>3. ASSUME NEW e \in Ends
      PROVE  [x EXCEPT !.end = e] \in RunRecord /\ Same([x EXCEPT !.end = e], x)
  BY <1>1, <1>3 DEF RunRecord, Same
<1> QED
  BY <1>1, <1>2, <1>3

\* What closing a run makes of the outbox.
Pushed(box, r) == Append(IF Len(box) >= OUTBOX_CAP THEN Tail(box) ELSE box, r)

LEMMA PushedFacts ==
  ASSUME NEW box \in Seq(RunRecord), Len(box) <= OUTBOX_CAP, NEW r \in RunRecord, NEW R
  PROVE  /\ Pushed(box, r) \in Seq(RunRecord) /\ Len(Pushed(box, r)) <= OUTBOX_CAP
         /\ r \in Members(Pushed(box, r))
         /\ Members(Pushed(box, r)) \subseteq Members(box) \cup {r}
         /\ Len(box) < OUTBOX_CAP => Members(box) \subseteq Members(Pushed(box, r))
         /\ Len(box) = OUTBOX_CAP =>
              /\ Len(Pushed(box, r)) = OUTBOX_CAP
              /\ Members(box) \ {box[1]} \subseteq Members(Pushed(box, r))
         /\ Ordered(box, R) /\ (\A x \in Members(box) : <<x.run, r.run>> \in R)
              => Ordered(Pushed(box, r), R)
<1>1. OUTBOX_CAP \in Nat \ {0} /\ Len(box) \in Nat
  BY LedgerAssumption
<1>2. CASE Len(box) < OUTBOX_CAP
  <2>1. Pushed(box, r) = Append(box, r)
    BY <1>1, <1>2 DEF Pushed
  <2>2. /\ Append(box, r) \in Seq(RunRecord) /\ Len(Append(box, r)) = Len(box) + 1
        /\ \A i \in 1 .. Len(box) : Append(box, r)[i] = box[i]
        /\ Append(box, r)[Len(box) + 1] = r
        /\ Members(Append(box, r)) = Members(box) \cup {r}
    BY AppendFacts
  <2>3. ASSUME Ordered(box, R), \A x \in Members(box) : <<x.run, r.run>> \in R
        PROVE  Ordered(Pushed(box, r), R)
    BY <2>1, <2>3, OrderedAppend
  <2> QED
    BY <1>1, <1>2, <2>1, <2>2, <2>3
<1>3. CASE Len(box) = OUTBOX_CAP
  <2> DEFINE q == Tail(box)
  <2>1. Pushed(box, r) = Append(q, r)
    BY <1>1, <1>3 DEF Pushed
  <2>2. box # <<>>
    BY <1>1, <1>3
  <2>3. /\ q \in Seq(RunRecord) /\ Len(q) = Len(box) - 1
        /\ \A i \in 1 .. Len(box) - 1 : q[i] = box[i + 1]
        /\ Members(box) = Members(q) \cup {box[1]}
    BY <2>2, TailFacts
  <2> HIDE DEF q
  <2>4. /\ Append(q, r) \in Seq(RunRecord) /\ Len(Append(q, r)) = Len(q) + 1
        /\ \A i \in 1 .. Len(q) : Append(q, r)[i] = q[i]
        /\ Append(q, r)[Len(q) + 1] = r
        /\ Members(Append(q, r)) = Members(q) \cup {r}
    BY <2>3, AppendFacts
  <2>5. ASSUME Ordered(box, R), \A x \in Members(box) : <<x.run, r.run>> \in R
        PROVE  Ordered(Pushed(box, r), R)
    <3>1. Ordered(q, R)
      <4> SUFFICES ASSUME NEW i \in 1 .. Len(q), NEW j \in 1 .. Len(q), i < j
                   PROVE  <<q[i].run, q[j].run>> \in R
        BY DEF Ordered
      <4>1. /\ i + 1 \in 1 .. Len(box) /\ j + 1 \in 1 .. Len(box) /\ i + 1 < j + 1
            /\ i \in 1 .. Len(box) - 1 /\ j \in 1 .. Len(box) - 1
        BY <1>1, <2>3
      <4>2. q[i] = box[i + 1] /\ q[j] = box[j + 1]
        BY <2>3, <4>1
      <4>3. <<box[i + 1].run, box[j + 1].run>> \in R
        BY <2>5, <4>1 DEF Ordered
      <4> QED
        BY <4>2, <4>3
    <3> QED
      BY <2>1, <2>3, <2>5, <3>1, OrderedAppend
  <2> QED
    BY <1>1, <1>3, <2>1, <2>3, <2>4, <2>5
<1> QED
  BY <1>1, <1>2, <1>3

\* Closing the run of a slot.
LEMMA ClosedFields ==
  ASSUME NEW m, m \in Meter, NEW s \in Slot, NEW e \in Ends, m.open[s] # NoRun
  PROVE  LET c == Closed(m, s, e) IN
         /\ c \in Meter /\ c.seq = m.seq /\ c.acked = m.acked
         /\ c.open = [m.open EXCEPT ![s] = NoRun]
         /\ c.outbox = Pushed(m.outbox, [m.open[s] EXCEPT !.end = e])

<1> DEFINE r == [m.open[s] EXCEPT !.end = e]
           o == [m.open EXCEPT ![s] = NoRun]
           p == Pushed(m.outbox, r)
           d == IF Len(m.outbox) >= OUTBOX_CAP THEN m.dropped + 1 ELSE m.dropped
           mid == [seq |-> m.seq, open |-> o, outbox |-> p, acked |-> m.acked,
                   dropped |-> d]
<1>1. /\ m.seq \in 0 .. MaxRuns /\ m.open \in [Slot -> RunRecord \cup {NoRun}]
      /\ m.outbox \in Seq(RunRecord) /\ m.acked \in 0 .. MaxRuns /\ m.dropped \in Nat
  BY MeterFacts
<1>2. m = [seq |-> m.seq, open |-> m.open, outbox |-> m.outbox, acked |-> m.acked,
           dropped |-> m.dropped]
  BY DEF Meter
<1>3. Closed(m, s, e) = [m EXCEPT !.open = o, !.outbox = p, !.dropped = d]
  BY <1>2 DEF Closed, Pushed
<1>4. r \in RunRecord
  BY <1>1, RecordFacts
<1>5. p \in Seq(RunRecord)
  <2>1. CASE Len(m.outbox) >= OUTBOX_CAP
    <3>1. m.outbox # <<>>
      BY <2>1, LedgerAssumption
    <3> QED
      BY <1>1, <1>4, <2>1, <3>1, TailFacts, AppendFacts DEF Pushed
  <2>2. CASE ~(Len(m.outbox) >= OUTBOX_CAP)
    BY <1>1, <1>4, <2>2, AppendFacts DEF Pushed
  <2> QED
    BY <2>1, <2>2
<1>6. o \in [Slot -> RunRecord \cup {NoRun}] /\ d \in Nat
  BY <1>1
<1>7. Closed(m, s, e) = mid
  <2> HIDE DEF o, p, d
  <2> QED
    BY <1>2, <1>3
<1>8. mid \in Meter
  <2> HIDE DEF o, p, d
  <2> QED
    BY <1>1, <1>5, <1>6 DEF Meter
<1>9. mid.seq = m.seq /\ mid.acked = m.acked /\ mid.open = o /\ mid.outbox = p
  OBVIOUS
<1> HIDE DEF mid
<1> QED
  BY <1>7, <1>8, <1>9

\* Closing a run keeps a meter whole, and mints no number.
LEMMA ClosedWhole ==
  ASSUME NEW m, Whole(m), NEW s \in Slot, NEW e \in Ends
  PROVE  /\ Whole(Closed(m, s, e)) /\ Closed(m, s, e).seq = m.seq
         /\ \A x \in Records(Closed(m, s, e)) : \E y \in Records(m) : Same(x, y)
<1>1. CASE m.open[s] = NoRun
  <2>1. Closed(m, s, e) = m
    BY <1>1 DEF Closed
  <2> QED
    BY <2>1 DEF Same
<1>2. CASE m.open[s] # NoRun
  <2> DEFINE c == Closed(m, s, e)
             r == [m.open[s] EXCEPT !.end = e]
  <2>1. m \in Meter /\ Len(m.outbox) <= OUTBOX_CAP
    BY DEF Whole
  <2>2. /\ c \in Meter /\ c.seq = m.seq
        /\ c.open = [m.open EXCEPT ![s] = NoRun] /\ c.outbox = Pushed(m.outbox, r)
    BY <1>2, <2>1, ClosedFields
  <2>3. /\ m.open \in [Slot -> RunRecord \cup {NoRun}] /\ m.outbox \in Seq(RunRecord)
        /\ Members(m.outbox) \subseteq RunRecord
    BY <2>1, MeterFacts
  <2>4. m.open[s] \in RunRecord
    BY <1>2, <2>3
  <2>5. r \in RunRecord /\ r.seq = m.open[s].seq /\ r.run = m.open[s].run
    BY <2>4, RecordFacts DEF Same
  <2> HIDE DEF c, r
  <2>6. /\ Len(c.outbox) <= OUTBOX_CAP
        /\ Members(c.outbox) \subseteq Members(m.outbox) \cup {r}
    BY <2>1, <2>2, <2>3, <2>5, PushedFacts
  <2>7. c.open[s] = NoRun /\ \A t \in Slot \ {s} : c.open[t] = m.open[t]
    BY <2>2, <2>3
  <2>8. m.open[s] \in HeldOpen(m) /\ HeldOpen(c) \subseteq HeldOpen(m)
    BY <1>2, <2>7 DEF HeldOpen
  <2>9. \A x \in Records(c) : \E y \in Records(m) : Same(x, y)
    <3>1. \A x \in Members(c.outbox) \cup HeldOpen(c) :
            x \in Members(m.outbox) \/ x = r \/ x \in HeldOpen(m)
      BY <2>6, <2>8
    <3> QED
      BY <2>5, <2>8, <3>1 DEF Records, Same
  <2>10. \A x \in Records(c) : x.seq <= c.seq
    BY <2>2, <2>9 DEF Whole, Same
  <2>11. \A x, y \in Members(c.outbox) : x.seq = y.seq => x = y
    <3> SUFFICES ASSUME NEW x \in Members(c.outbox), NEW y \in Members(c.outbox), x.seq = y.seq
                 PROVE  x = y
      OBVIOUS
    <3>1. \A z \in Members(m.outbox) : z.seq # r.seq
      BY <1>2, <2>5 DEF Whole
    <3> QED
      BY <2>6, <3>1 DEF Whole
  <2>12. ASSUME NEW t \in Slot, c.open[t] # NoRun
         PROVE  /\ \A x \in Members(c.outbox) : x.seq # c.open[t].seq
                /\ \A u \in Slot \ {t} : c.open[u].seq # c.open[t].seq
    <3>1. t # s /\ c.open[t] = m.open[t] /\ m.open[t] # NoRun
      BY <2>7, <2>12
    <3>2. /\ \A x \in Members(m.outbox) : x.seq # m.open[t].seq
          /\ \A u \in Slot \ {t} : m.open[u].seq # m.open[t].seq
      BY <3>1 DEF Whole
    <3>3. r.seq # m.open[t].seq
      BY <2>5, <3>1, <3>2
    <3>4. NoRun.seq # m.open[t].seq
      <4>1. m.open[t] \in RunRecord
        BY <2>3, <3>1
      <4> QED
        BY <4>1, RecordFacts, LedgerAssumption DEF NoRun, Run
    <3> QED
      BY <2>6, <2>7, <3>1, <3>2, <3>3, <3>4
  <2>13. Whole(c)
    BY <2>2, <2>6, <2>10, <2>11, <2>12 DEF Whole
  <2> QED
    BY <2>2, <2>9, <2>13 DEF c
<1> QED
  BY <1>1, <1>2

\* So does closing all that a blob holds open, one slot after the other.
LEMMA RestoredFacts ==
  ASSUME Whole(flash)
  PROVE  /\ Whole(Restored)
         /\ \A x \in Records(Restored) : \E y \in Records(flash) : Same(x, y)
<1> DEFINE N == NumSlots
           Closes(g) == g = [n \in 0 .. NumSlots |->
                               IF n = 0 THEN flash
                               ELSE Closed(g[n - 1], n - 1, "INTERRUPTED")]
           G == [n \in 1 .. N |-> [m \in Meter |-> Closed(m, n - 1, "INTERRUPTED")]]
<1>1. N \in Nat /\ flash \in Meter /\ "INTERRUPTED" \in Ends
      /\ \A n \in 1 .. N : n - 1 \in Slot /\ n - 1 \in 0 .. N /\ n \in 0 .. N
  BY LedgerAssumption DEF Whole, Ends, Slot
<1>2. G \in [1 .. N -> [Meter -> Meter]]
  <2> SUFFICES ASSUME NEW n \in 1 .. N, NEW m \in Meter
               PROVE  Closed(m, n - 1, "INTERRUPTED") \in Meter
    OBVIOUS
  <2>1. CASE m.open[n - 1] = NoRun
    BY <2>1 DEF Closed
  <2>2. CASE m.open[n - 1] # NoRun
    BY <1>1, <2>2, ClosedFields
  <2> QED
    BY <2>1, <2>2
<1>3. PICK f \in [0 .. N -> Meter] :
        f[0] = flash /\ \A n \in 1 .. N : f[n] = G[n][f[n - 1]]
  <2> HIDE DEF N, G
  <2>1. \E f \in [0 .. N -> Meter] : Follows(f, N, flash, G)
    BY <1>1, <1>2, StepByStep
  <2> QED
    BY <2>1 DEF Follows
<1>4. Closes(f)
  <2>1. f = [n \in 0 .. N |-> f[n]]
    BY <1>3
  <2>2. ASSUME NEW n \in 1 .. N PROVE f[n] = Closed(f[n - 1], n - 1, "INTERRUPTED")
    BY <1>1, <1>3
  <2>3. ASSUME NEW n \in 0 .. N
        PROVE  f[n] = IF n = 0 THEN flash ELSE Closed(f[n - 1], n - 1, "INTERRUPTED")
    <3>1. CASE n = 0
      BY <1>3, <3>1
    <3>2. CASE n # 0
      <4>1. n \in 1 .. N
        BY <1>1, <3>2
      <4> QED
        BY <2>2, <3>2, <4>1
    <3> QED
      BY <3>1, <3>2
  <2> QED
    BY <2>1, <2>3
<1> DEFINE g == CHOOSE h : Closes(h)
<1>5. Closes(g)
  <2> HIDE DEF Closes
  <2> QED
    BY <1>4, Zenon
<1>6. Restored = g[N]
  BY Zenon DEF Restored
<1> HIDE DEF g
<1>7. g[0] = flash /\ \A n \in 1 .. N : g[n] = Closed(g[n - 1], n - 1, "INTERRUPTED")
  <2>1. ASSUME NEW n \in 0 .. N
        PROVE  g[n] = IF n = 0 THEN flash ELSE Closed(g[n - 1], n - 1, "INTERRUPTED")
    BY <1>5
  <2>2. 0 \in 0 .. N /\ \A n \in 1 .. N : n \in 0 .. N /\ n # 0
    BY <1>1
  <2>3. ASSUME NEW n \in 1 .. N PROVE g[n] = Closed(g[n - 1], n - 1, "INTERRUPTED")
    BY <2>1, <2>2
  <2> QED
    BY <2>1, <2>2, <2>3
<1> HIDE DEF Closes, G
<1> DEFINE Kin(n) == /\ Whole(g[n])
                     /\ \A x \in Records(g[n]) : \E y \in Records(flash) : Same(x, y)
           T == {n \in 0 .. N : Kin(n)}
<1>8. 0 \in T
  <2>1. \A x \in Records(flash) : Same(x, x)
    BY DEF Same
  <2>2. Kin(0)
    BY <1>7, <2>1
  <2> HIDE DEF Kin
  <2> QED
    BY <1>1, <2>2
<1>9. ASSUME NEW n \in 1 .. N, n - 1 \in T PROVE n \in T
  <2>1. Kin(n - 1)
    BY <1>9
  <2>2. /\ Whole(g[n])
        /\ \A x \in Records(g[n]) : \E y \in Records(g[n - 1]) : Same(x, y)
    BY <1>1, <1>7, <2>1, ClosedWhole
  <2>3. Kin(n)
    BY <2>1, <2>2 DEF Same
  <2> HIDE DEF Kin
  <2> QED
    BY <1>1, <2>3
<1> HIDE DEF T
<1>10. \A n \in 1 .. N : n - 1 \in T => n \in T
  BY <1>9
<1>11. \A n \in 0 .. N : n \in T
  BY <1>1, <1>8, <1>10, CountingUp
<1>12. Kin(N)
  <2> HIDE DEF Kin
  <2>1. N \in T
    BY <1>1, <1>11
  <2> QED
    BY <2>1 DEF T
<1> QED
  BY <1>6, <1>12

-----------------------------------------------------------------------------
(* The inductive invariant for any number of slots.                        *)

Sent == UNION {Members(uplink[i]) : i \in DOMAIN uplink}

Everywhere == Records(dev) \cup Records(staged) \cup Records(flash) \cup Sent \cup ledger

Distinct(R) == \A x, y \in R : x.seq = y.seq => x = y

SyncType ==
  /\ Whole(dev) /\ Whole(staged) /\ Whole(flash)
  /\ uplink # <<>> => uplink = <<uplink[1]>> /\ uplink[1] \in Seq(RunRecord)
  /\ ledger \subseteq RunRecord
  /\ acks \subseteq Run /\ retained \in 0 .. MaxRuns
  /\ born \in 0 .. MaxRuns /\ crashes \in 0 .. MaxCrashes
  /\ over \subseteq Run /\ before \subseteq Run \X Run

\* A number is given to several runs when a crash takes the counter back, but no
\* run has two numbers.
Numbered == \A x, y \in Everywhere : x.run = y.run => x.seq = y.seq

Begun == (\A x \in Everywhere : x.run <= born) /\ \A n \in over : n <= born

SyncInv == SyncType /\ Distinct(Sent) /\ Distinct(ledger) /\ Numbered /\ Begun

LEMMA SentFacts ==
  ASSUME SyncType
  PROVE  /\ uplink = <<>> => Sent = {}
         /\ uplink # <<>> => uplink[1] \in Seq(RunRecord) /\ Sent = Members(uplink[1])
         /\ Sent \subseteq RunRecord
<1>1. CASE uplink = <<>>
  BY <1>1 DEF Sent
<1>2. CASE uplink # <<>>
  <2>1. uplink = <<uplink[1]>> /\ uplink[1] \in Seq(RunRecord)
    BY <1>2 DEF SyncType
  <2> DEFINE q == uplink[1]
  <2>2. DOMAIN uplink = {1} /\ uplink[1] = q /\ q \in Seq(RunRecord)
    BY <2>1
  <2> HIDE DEF q
  <2>3. Sent = Members(q)
    BY <2>2 DEF Sent
  <2>4. Members(q) \subseteq RunRecord
    BY <2>2 DEF Members
  <2> QED
    BY <1>2, <2>2, <2>3, <2>4
<1> QED
  BY <1>1, <1>2

\* The number acknowledged is that of a record in the ledger.
LEMMA HighWaterFacts ==
  ASSUME NEW l, l \subseteq RunRecord, l # {}
  PROVE  /\ HighWaterRun(l) \in Run
         /\ \E b \in l : b.seq = HighWaterRun(l)
<1> DEFINE P(n) == (\A r \in l : r.seq <= n) /\ (n = 0 \/ \E r \in l : r.seq = n)
<1>1. MaxRuns \in Nat /\ \A r \in l : r.seq \in 1 .. MaxRuns
  BY LedgerAssumption, RecordFacts DEF Run
<1>2. \E n \in 0 .. MaxRuns : P(n)
  <2> SUFFICES ASSUME \A n \in 0 .. MaxRuns : ~P(n) PROVE FALSE
    OBVIOUS
  <2> DEFINE T == {i \in 0 .. MaxRuns : \E r \in l : r.seq >= i}
  <2>1. 0 \in T
    BY <1>1
  <2>2. ASSUME NEW i \in 1 .. MaxRuns, i - 1 \in T PROVE i \in T
    <3>1. PICK r \in l : r.seq >= i - 1
      BY <2>2
    <3>2. i - 1 \in 0 .. MaxRuns /\ ~P(i - 1)
      BY <1>1
    <3>3. \E x \in l : ~(x.seq <= i - 1)
      BY <1>1, <3>1, <3>2
    <3> QED
      BY <1>1, <3>3
  <2>3. \A i \in 1 .. MaxRuns : i - 1 \in T => i \in T
    BY <2>2
  <2>4. \A i \in 0 .. MaxRuns : i \in T
    <3> HIDE DEF T
    <3> QED
      BY <1>1, <2>1, <2>3, CountingUp
  <2>5. PICK r \in l : r.seq >= MaxRuns
    BY <1>1, <2>4
  <2>6. P(MaxRuns) /\ MaxRuns \in 0 .. MaxRuns
    BY <1>1, <2>5
  <2> QED
    BY <2>6
<1> DEFINE h == CHOOSE n \in 0 .. MaxRuns : P(n)
<1>3. h \in 0 .. MaxRuns /\ P(h)
  <2> HIDE DEF P
  <2> QED
    BY <1>2
<1>4. HighWaterRun(l) = h
  BY DEF HighWaterRun
<1> HIDE DEF h
<1>5. h # 0
  BY <1>1, <1>3
<1> QED
  BY <1>3, <1>4, <1>5 DEF Run

\* What a device is given back by the acknowledgement is part of what it had.
LEMMA AckFacts ==
  ASSUME SyncType, OnAck
  PROVE  /\ Whole(dev') /\ dev'.open = dev.open /\ dev'.seq = dev.seq
         /\ dev'.acked \in {retained, dev.acked} /\ retained # 0
         /\ Members(dev'.outbox) = {r \in Members(dev.outbox) : r.seq > dev'.acked}
         /\ Ordered(dev.outbox, before) => Ordered(dev'.outbox, before)
         /\ Records(dev') \subseteq Records(dev)
<1> DEFINE a == IF retained > dev.acked THEN retained ELSE dev.acked
           b == Unacked(dev.outbox, a)
<1>1. dev' = [dev EXCEPT !.acked = a, !.outbox = b] /\ retained # 0
  BY DEF OnAck
<1>2. /\ dev \in Meter /\ Len(dev.outbox) <= OUTBOX_CAP
      /\ dev.outbox \in Seq(RunRecord) /\ dev.acked \in 0 .. MaxRuns
      /\ dev.seq \in 0 .. MaxRuns /\ dev.open \in [Slot -> RunRecord \cup {NoRun}]
      /\ dev.dropped \in Nat
  BY MeterFacts DEF SyncType, Whole
<1>3. a \in 0 .. MaxRuns /\ a \in Nat /\ a \in {retained, dev.acked}
  BY <1>2, LedgerAssumption DEF SyncType
<1>4. /\ b \in Seq(RunRecord) /\ Len(b) <= Len(dev.outbox)
      /\ Members(b) = {r \in Members(dev.outbox) : r.seq > a}
      /\ Ordered(dev.outbox, before) => Ordered(b, before)
  <2> HIDE DEF a
  <2> QED
    BY <1>2, <1>3, UnackedFacts
<1> HIDE DEF a, b
<1>5. /\ dev'.outbox = b /\ dev'.acked = a /\ dev'.open = dev.open
      /\ dev'.seq = dev.seq /\ dev'.dropped = dev.dropped /\ dev' \in Meter
  BY <1>1, <1>2, <1>3, <1>4 DEF Meter
<1>6. HeldOpen(dev') = HeldOpen(dev)
  BY <1>5 DEF HeldOpen
<1>7. Len(b) <= OUTBOX_CAP
  BY <1>2, <1>4, LedgerAssumption
<1>8. Records(dev') \subseteq Records(dev)
  BY <1>4, <1>5, <1>6 DEF Records
<1>9. Members(dev'.outbox) \subseteq Members(dev.outbox)
  BY <1>4, <1>5
<1>10. Whole(dev)
  BY DEF SyncType
<1>11. Whole(dev')
  BY <1>5, <1>7, <1>8, <1>9, <1>10 DEF Whole
<1> QED
  BY <1>1, <1>3, <1>4, <1>5, <1>8, <1>11

\* A run that begins gets a number and a place in the order of runs of its own.
LEMMA OpenFacts ==
  ASSUME SyncInv, NEW s \in Slot, OpenRun(s)
  PROVE  LET r == [seq |-> dev.seq + 1, run |-> born + 1, end |-> "CLEAN"] IN
         /\ Whole(dev') /\ r \in RunRecord /\ dev'.seq = dev.seq + 1
         /\ dev'.open = [dev.open EXCEPT ![s] = r]
         /\ dev'.outbox = dev.outbox /\ dev'.acked = dev.acked
         /\ Records(dev') \subseteq Records(dev) \cup {r}
         /\ born' = born + 1 /\ born' \in 0 .. MaxRuns
<1> DEFINE r == [seq |-> dev.seq + 1, run |-> born + 1, end |-> "CLEAN"]
           o == [dev.open EXCEPT ![s] = r]
<1>1. /\ dev' = [dev EXCEPT !.seq = @ + 1, !.open[s] = r]
      /\ born' = born + 1 /\ born < MaxRuns /\ dev.seq < MaxRuns
  BY DEF OpenRun
<1>2. /\ dev \in Meter /\ Len(dev.outbox) <= OUTBOX_CAP
      /\ dev.outbox \in Seq(RunRecord) /\ dev.acked \in 0 .. MaxRuns
      /\ dev.seq \in 0 .. MaxRuns /\ dev.open \in [Slot -> RunRecord \cup {NoRun}]
      /\ dev.dropped \in Nat /\ born \in 0 .. MaxRuns
      /\ Members(dev.outbox) \subseteq RunRecord /\ Records(dev) \subseteq RunRecord
      /\ \A t \in Slot : dev.open[t] # NoRun => dev.open[t] \in Records(dev)
  <2>1. dev \in Meter /\ Len(dev.outbox) <= OUTBOX_CAP /\ born \in 0 .. MaxRuns
    BY DEF SyncInv, SyncType, Whole
  <2> QED
    BY ONLY <2>1, MeterFacts
<1>3. r \in RunRecord /\ r.seq = dev.seq + 1 /\ r.run = born + 1
  BY SMTT(20), <1>1, <1>2, LedgerAssumption DEF RunRecord, Run, Ends
<1>4. r # NoRun
  BY <1>3, RecordFacts
<1> HIDE DEF r
<1>5. o \in [Slot -> RunRecord \cup {NoRun}] /\ o[s] = r
      /\ \A t \in Slot \ {s} : o[t] = dev.open[t]
  BY <1>2, <1>3
<1>6. dev' = [dev EXCEPT !.seq = dev.seq + 1, !.open = o]
  BY <1>1, <1>2 DEF Meter
<1> HIDE DEF o
<1>7. /\ dev'.seq = dev.seq + 1 /\ dev'.open = o /\ dev'.outbox = dev.outbox
      /\ dev'.acked = dev.acked /\ dev'.dropped = dev.dropped /\ dev' \in Meter
  <2>1. dev.seq + 1 \in 0 .. MaxRuns
    BY SMTT(20), <1>1, <1>2, LedgerAssumption
  <2>2. dev \in Meter /\ o \in [Slot -> RunRecord \cup {NoRun}]
    BY <1>2, <1>5
  <2>3. /\ dev'.seq = dev.seq + 1 /\ dev'.open = o /\ dev'.outbox = dev.outbox
        /\ dev'.acked = dev.acked /\ dev'.dropped = dev.dropped
    BY ONLY <1>6, <2>2 DEF Meter
  <2>4. dev' \in Meter
    BY ONLY <1>6, <2>1, <2>2 DEF Meter
  <2> QED
    BY <2>3, <2>4
<1>8. HeldOpen(dev') \subseteq HeldOpen(dev) \cup {r}
  BY <1>5, <1>7 DEF HeldOpen
<1>9. Records(dev') \subseteq Records(dev) \cup {r}
  BY <1>7, <1>8 DEF Records
<1>10. /\ \A x \in Records(dev) : x.seq <= dev.seq /\ x.seq \in Nat
       /\ \A x, y \in Members(dev.outbox) : x.seq = y.seq => x = y
       /\ \A u \in Slot : dev.open[u] # NoRun =>
            /\ \A x \in Members(dev.outbox) : x.seq # dev.open[u].seq
            /\ \A t \in Slot \ {u} : dev.open[t].seq # dev.open[u].seq
  <2>1. Whole(dev)
    BY DEF SyncInv, SyncType
  <2>2. \A x \in Records(dev) : x.seq \in Nat
    BY <1>2, RecordFacts, LedgerAssumption DEF Run
  <2> QED
    BY <2>1, <2>2 DEF Whole
<1>11. \A x \in Records(dev') : x.seq <= dev'.seq
  BY <1>2, <1>3, <1>7, <1>9, <1>10
<1>12. ASSUME NEW u \in Slot, dev'.open[u] # NoRun
       PROVE  /\ \A x \in Members(dev'.outbox) : x.seq # dev'.open[u].seq
              /\ \A t \in Slot \ {u} : dev'.open[t].seq # dev'.open[u].seq
  <2>1. NoRun.seq = 0
    BY DEF NoRun
  <2>2. \A t \in Slot \ {s} : dev.open[t].seq <= dev.seq /\ dev.open[t].seq \in Nat
    BY <1>2, <1>10, <2>1
  <2>3. \A x \in Members(dev.outbox) : x.seq <= dev.seq /\ x.seq \in Nat
    BY <1>10 DEF Records
  <2>4. CASE u = s
    BY <1>2, <1>3, <1>5, <1>7, <2>2, <2>3, <2>4
  <2>5. CASE u # s
    <3>1. dev'.open[u] = dev.open[u] /\ dev.open[u] # NoRun
      BY <1>5, <1>7, <1>12, <2>5
    <3>2. /\ \A x \in Members(dev.outbox) : x.seq # dev.open[u].seq
          /\ \A t \in Slot \ {u} : dev.open[t].seq # dev.open[u].seq
      BY <1>10, <3>1
    <3>3. r.seq # dev.open[u].seq
      BY <1>2, <1>3, <2>2, <2>5
    <3> QED
      BY <1>5, <1>7, <3>1, <3>2, <3>3
  <2> QED
    BY <2>4, <2>5
<1>13. Whole(dev')
  BY <1>2, <1>7, <1>10, <1>11, <1>12 DEF Whole
<1>14. born' \in 0 .. MaxRuns
  BY <1>1, <1>2, LedgerAssumption
<1> QED
  BY <1>1, <1>3, <1>7, <1>9, <1>13, <1>14 DEF r, o

\* A step shows no number of a run that it did not have, but for a run that
\* begins.
Grown ==
  /\ \A x \in Everywhere' :
       \/ \E y \in Everywhere : Same(x, y)
       \/ born' = born + 1 /\ x.run = born + 1 /\ x.seq = dev.seq + 1
  /\ born' \in {born, born + 1}

LEMMA GrownKeeps ==
  ASSUME SyncInv, Grown, SyncType',
         \A n \in over' : n <= born' \/ \E x \in Everywhere : n = x.run
  PROVE  Numbered' /\ Begun'
<1>1. born \in Nat /\ born' \in Nat /\ born <= born'
  BY LedgerAssumption DEF SyncInv, SyncType, Grown
<1>2. \A x \in Everywhere : x.run <= born
  BY DEF SyncInv, Begun
<1>3. Everywhere \subseteq RunRecord
  <2>1. SyncType
    BY DEF SyncInv
  <2> QED
    BY <2>1, SentFacts, MeterFacts DEF SyncType, Whole, Everywhere
<1>4. \A x \in Everywhere : x.run \in Nat
  BY <1>3, RecordFacts, LedgerAssumption DEF Run
<1>5. \A x \in Everywhere' : x.run <= born'
  BY <1>1, <1>2, <1>4 DEF Grown, Same
<1>6. \A n \in over' : n <= born'
  BY <1>1, <1>2, <1>4
<1>7. ASSUME NEW x \in Everywhere', NEW y \in Everywhere', x.run = y.run PROVE x.seq = y.seq
  <2>1. CASE \E a, b \in Everywhere : Same(x, a) /\ Same(y, b)
    BY <1>7, <2>1 DEF SyncInv, Numbered, Same
  <2>2. CASE /\ born' = born + 1 /\ x.run = born + 1 /\ x.seq = dev.seq + 1
             /\ \E b \in Everywhere : Same(y, b)
    BY <1>1, <1>2, <1>4, <1>7, <2>2 DEF Same
  <2>3. CASE /\ born' = born + 1 /\ y.run = born + 1 /\ y.seq = dev.seq + 1
             /\ \E a \in Everywhere : Same(x, a)
    <3>1. PICK a \in Everywhere : Same(x, a)
      BY <2>3
    <3>2. a.run \in Nat /\ a.run <= born /\ a.run = born + 1
      BY <1>2, <1>4, <1>7, <2>3, <3>1 DEF Same
    <3> QED
      BY <1>1, <3>2
  <2>4. CASE x.seq = dev.seq + 1 /\ y.seq = dev.seq + 1
    BY <2>4
  <2> QED
    BY <2>1, <2>2, <2>3, <2>4 DEF Grown
<1>8. Numbered'
  BY <1>7 DEF Numbered
<1> QED
  BY <1>5, <1>6, <1>8 DEF Begun

LEMMA SyncStep ==
  ASSUME SyncInv, Next
  PROVE  /\ SyncType' /\ Distinct(Sent)' /\ Distinct(ledger)' /\ Grown
         /\ \A n \in over' : n <= born' \/ \E x \in Everywhere : n = x.run
<1> DEFINE Good == /\ SyncType' /\ Distinct(Sent)' /\ Distinct(ledger)' /\ Grown
                   /\ \A n \in over' : n <= born' \/ \E x \in Everywhere : n = x.run
<1> SUFFICES Good
  OBVIOUS
<1>1. SyncType /\ Distinct(Sent) /\ Distinct(ledger) /\ \A n \in over : n <= born
  BY DEF SyncInv, Begun
<1>2. \A x : Same(x, x)
  BY DEF Same
<1>3. ASSUME NEW s \in Slot, OpenRun(s) PROVE Good
  <2> DEFINE r == [seq |-> dev.seq + 1, run |-> born + 1, end |-> "CLEAN"]
  <2>1. /\ Whole(dev') /\ Records(dev') \subseteq Records(dev) \cup {r}
        /\ born' = born + 1 /\ born' \in 0 .. MaxRuns
    BY <1>3, OpenFacts
  <2>2. UNCHANGED <<staged, flash, uplink, ledger, acks, retained, crashes, over, before>>
    BY <1>3 DEF OpenRun, server
  <2>3. SyncType'
    BY <1>1, <2>1, <2>2 DEF SyncType
  <2>4. Sent' = Sent /\ Everywhere' \subseteq Everywhere \cup {r}
    BY <2>1, <2>2 DEF Sent, Everywhere
  <2>5. Grown
    <3>1. r.run = born + 1 /\ r.seq = dev.seq + 1
      OBVIOUS
    <3> HIDE DEF r
    <3> QED
      BY <1>2, <2>1, <2>4, <3>1 DEF Grown
  <2>6. \A n \in over' : n <= born'
    BY <1>1, <2>1, <2>2, LedgerAssumption DEF SyncType, Run
  <2> QED
    BY <1>1, <2>2, <2>3, <2>4, <2>5, <2>6 DEF Distinct
<1>4. ASSUME NEW s \in Slot, CloseRun(s) PROVE Good
  <2>1. /\ dev.open[s] # NoRun /\ dev' = Closed(dev, s, "CLEAN") /\ staged' = dev'
        /\ over' = over \cup {dev.open[s].run}
        /\ before' = before \cup (over \X {dev.open[s].run})
        /\ UNCHANGED <<flash, uplink, ledger, acks, retained, born, crashes>>
    BY <1>4 DEF CloseRun, server
  <2>2. /\ Whole(Closed(dev, s, "CLEAN"))
        /\ \A x \in Records(Closed(dev, s, "CLEAN")) : \E y \in Records(dev) : Same(x, y)
    BY <1>1, ClosedWhole DEF SyncType, Ends
  <2>3. dev.open[s] \in Records(dev) /\ dev.open[s] \in RunRecord
    BY <1>1, <2>1, MeterFacts DEF SyncType, Whole
  <2>4. over' \subseteq Run /\ before' \subseteq Run \X Run
    BY <1>1, <2>1, <2>3, RecordFacts DEF SyncType
  <2>5. SyncType'
    BY <1>1, <2>1, <2>2, <2>4 DEF SyncType
  <2>6. Sent' = Sent
    BY <2>1 DEF Sent
  <2>7. Grown
    <3>1. ASSUME NEW x \in Everywhere' PROVE \E y \in Everywhere : Same(x, y)
      <4>1. x \in Records(Closed(dev, s, "CLEAN")) \/ x \in Everywhere
        BY <2>1, <2>6 DEF Everywhere
      <4> QED
        BY <1>2, <2>2, <4>1 DEF Everywhere
    <3> QED
      BY <2>1, <3>1 DEF Grown
  <2>8. \A n \in over' : n <= born' \/ \E x \in Everywhere : n = x.run
    BY <1>1, <2>1, <2>3 DEF Everywhere
  <2> QED
    BY <1>1, <2>1, <2>5, <2>6, <2>7, <2>8 DEF Distinct
<1>5. CASE Save \/ Flush
  <2>1. /\ dev' = dev /\ staged' \in {dev, staged} /\ flash' \in {staged, flash}
        /\ UNCHANGED <<uplink, ledger, acks, retained, born, crashes, over, before>>
    BY <1>5 DEF Save, Flush, server, count
  <2>2. SyncType'
    BY <1>1, <2>1 DEF SyncType
  <2>3. Sent' = Sent /\ Everywhere' \subseteq Everywhere
    BY <2>1 DEF Sent, Everywhere
  <2>4. Grown
    BY <1>2, <2>1, <2>3 DEF Grown
  <2> QED
    BY <1>1, <2>1, <2>2, <2>3, <2>4 DEF Distinct
<1>6. CASE Crash
  <2>1. /\ crashes' = crashes + 1 /\ crashes < MaxCrashes
        /\ dev' = Restored /\ staged' = flash
        /\ over' = over \cup {flash.open[s].run : s \in {t \in Slot : flash.open[t] # NoRun}}
        /\ UNCHANGED <<flash, uplink, ledger, acks, retained, born, before>>
    BY <1>6 DEF Crash, server
  <2>2. /\ Whole(Restored)
        /\ \A x \in Records(Restored) : \E y \in Records(flash) : Same(x, y)
    BY <1>1, RestoredFacts DEF SyncType
  <2>3. ASSUME NEW t \in Slot, flash.open[t] # NoRun
        PROVE  flash.open[t] \in Everywhere /\ flash.open[t].run \in Run
    <3>1. flash.open[t] \in Records(flash) /\ flash.open[t] \in RunRecord
      BY <1>1, <2>3, MeterFacts DEF SyncType, Whole
    <3> QED
      BY <3>1, RecordFacts DEF Everywhere
  <2>4. crashes' \in 0 .. MaxCrashes /\ over' \subseteq Run
    BY <1>1, <2>1, <2>3, LedgerAssumption DEF SyncType
  <2>5. SyncType'
    BY <1>1, <2>1, <2>2, <2>4 DEF SyncType
  <2>6. Sent' = Sent
    BY <2>1 DEF Sent
  <2>7. Grown
    <3>1. ASSUME NEW x \in Everywhere' PROVE \E y \in Everywhere : Same(x, y)
      <4>1. x \in Records(Restored) \/ x \in Everywhere
        BY <2>1, <2>6 DEF Everywhere
      <4> QED
        BY <1>2, <2>2, <4>1 DEF Everywhere
    <3> QED
      BY <2>1, <3>1 DEF Grown
  <2>8. \A n \in over' : n <= born' \/ \E x \in Everywhere : n = x.run
    BY <1>1, <2>1, <2>3
  <2> QED
    BY <1>1, <2>1, <2>5, <2>6, <2>7, <2>8 DEF Distinct
<1>7. CASE Publish \/ Lose
  <2>1. /\ uplink' = <<>> \/ uplink' = <<dev.outbox>>
        /\ UNCHANGED <<dev, staged, flash, ledger, acks, retained, born, crashes, over, before>>
    BY <1>7 DEF Publish, Lose, device, server, count
  <2>2. Whole(dev) /\ dev.outbox \in Seq(RunRecord)
    BY <1>1, MeterFacts DEF SyncType, Whole
  <2>3. SyncType'
    BY <1>1, <2>1, <2>2 DEF SyncType
  <2>4. Sent' \in {{}, Members(dev.outbox)}
    <3>1. CASE uplink' = <<>>
      BY <3>1 DEF Sent
    <3>2. CASE uplink' = <<dev.outbox>>
      <4>1. DOMAIN uplink' = {1} /\ uplink'[1] = dev.outbox
        BY <3>2
      <4>2. Sent' = Members(dev.outbox)
        BY <4>1 DEF Sent
      <4> QED
        BY <4>2
    <3> QED
      BY <2>1, <3>1, <3>2
  <2>5. Distinct(Sent)'
    BY <2>2, <2>4 DEF Distinct, Whole
  <2>6. Everywhere' \subseteq Everywhere
    BY <2>1, <2>4 DEF Everywhere, Records
  <2>7. Grown
    BY <1>2, <2>1, <2>6 DEF Grown
  <2> QED
    BY <1>1, <2>1, <2>3, <2>5, <2>7 DEF Distinct
<1>8. CASE OnAck
  <2>1. Whole(dev') /\ Records(dev') \subseteq Records(dev)
    BY <1>1, <1>8, AckFacts
  <2>2. /\ staged' = dev'
        /\ UNCHANGED <<flash, uplink, ledger, acks, retained, born, crashes, over, before>>
    BY <1>8 DEF OnAck, server, count
  <2>3. SyncType'
    BY <1>1, <2>1, <2>2 DEF SyncType
  <2>4. Sent' = Sent
    BY <2>2 DEF Sent
  <2>5. Everywhere' \subseteq Everywhere
    BY <2>1, <2>2, <2>4 DEF Everywhere
  <2>6. Grown
    BY <1>2, <2>2, <2>5 DEF Grown
  <2> QED
    BY <1>1, <2>2, <2>3, <2>4, <2>6 DEF Distinct
<1>9. ASSUME NEW stop \in 1 .. MaxRuns + 1, Ingest(stop) PROVE Good
  <2> DEFINE new == Inserted(uplink[1], stop)
  <2>1. /\ uplink # <<>> /\ uplink' = <<>>
        /\ \/ /\ ledger' = ledger \cup new
              /\ acks' = IF ledger' = {} THEN acks ELSE acks \cup {HighWaterRun(ledger')}
           \/ UNCHANGED <<ledger, acks>>
        /\ UNCHANGED <<dev, staged, flash, retained, born, crashes, over, before>>
    BY <1>9 DEF Ingest, device, count
  <2>2. /\ new \subseteq Sent /\ new \subseteq RunRecord
        /\ \A x \in new, b \in ledger : x.seq # b.seq
    BY <1>1, <2>1, SentFacts DEF Inserted
  <2> HIDE DEF new
  <2>3. ledger' \subseteq RunRecord
    BY <1>1, <2>1, <2>2 DEF SyncType
  <2>4. acks' \subseteq Run
    BY <1>1, <2>1, <2>3, HighWaterFacts DEF SyncType
  <2>5. SyncType'
    BY <1>1, <2>1, <2>3, <2>4 DEF SyncType
  <2>6. Sent' = {}
    BY <2>1 DEF Sent
  <2>7. Distinct(Sent)' /\ Distinct(ledger)'
    BY <1>1, <2>1, <2>2, <2>6 DEF Distinct
  <2>8. Everywhere' \subseteq Everywhere
    BY <2>1, <2>2, <2>6 DEF Everywhere
  <2>9. Grown
    BY <1>2, <2>1, <2>8 DEF Grown
  <2> QED
    BY <1>1, <2>1, <2>5, <2>7, <2>9
<1>10. ASSUME NEW n \in 1 .. MaxRuns, PublishAck(n) PROVE Good
  <2>1. /\ acks' \subseteq acks /\ retained' = n
        /\ UNCHANGED <<dev, staged, flash, uplink, ledger, born, crashes, over, before>>
    BY <1>10 DEF PublishAck, device, count
  <2>2. SyncType'
    BY <1>1, <2>1, LedgerAssumption DEF SyncType
  <2>3. Sent' = Sent /\ Everywhere' = Everywhere
    BY <2>1 DEF Sent, Everywhere
  <2>4. Grown
    BY <1>2, <2>1, <2>3 DEF Grown
  <2> QED
    BY <1>1, <2>1, <2>2, <2>3, <2>4 DEF Distinct
<1> HIDE DEF Good
<1>11. CASE \E s \in Slot : OpenRun(s) \/ CloseRun(s)
  BY <1>3, <1>4, <1>11
<1>12. CASE \E stop \in 1 .. MaxRuns + 1 : Ingest(stop)
  BY <1>9, <1>12
<1>13. CASE \E n \in 1 .. MaxRuns : PublishAck(n)
  BY <1>10, <1>13
<1> QED
  BY <1>5, <1>6, <1>7, <1>8, <1>11, <1>12, <1>13, Zenon DEF Next

LEMMA InitSync == Init => SyncInv
<1> SUFFICES ASSUME Init PROVE SyncInv
  OBVIOUS
<1>1. /\ dev = Blank /\ staged = Blank /\ flash = Blank /\ uplink = <<>>
      /\ ledger = {} /\ acks = {} /\ retained = 0
      /\ born = 0 /\ crashes = 0 /\ over = {} /\ before = {}
  BY DEF Init
<1>2. /\ Blank.seq = 0 /\ Blank.outbox = <<>> /\ Blank.acked = 0
      /\ Blank.open = [s \in Slot |-> NoRun] /\ Blank \in Meter
  <2>1. <<>> \in Seq(RunRecord) /\ [s \in Slot |-> NoRun] \in [Slot -> RunRecord \cup {NoRun}]
    OBVIOUS
  <2>2. 0 \in 0 .. MaxRuns
    BY LedgerAssumption
  <2> QED
    BY <2>1, <2>2 DEF Blank, Meter
<1>3. Members(Blank.outbox) = {} /\ HeldOpen(Blank) = {} /\ Len(Blank.outbox) = 0
  BY <1>2 DEF Members, HeldOpen
<1>4. Records(Blank) = {} /\ \A s \in Slot : Blank.open[s] = NoRun
  BY <1>2, <1>3 DEF Records
<1>5. Whole(Blank)
  BY <1>2, <1>3, <1>4, LedgerAssumption DEF Whole
<1>6. SyncType
  BY <1>1, <1>5, LedgerAssumption DEF SyncType
<1>7. Sent = {}
  BY <1>1 DEF Sent
<1>8. Everywhere = {}
  BY <1>1, <1>4, <1>7 DEF Everywhere
<1> QED
  BY <1>1, <1>6, <1>7, <1>8 DEF SyncInv, Distinct, Numbered, Begun

LEMMA StutterSync == SyncInv /\ UNCHANGED vars => SyncInv'
<1> SUFFICES ASSUME SyncInv, UNCHANGED vars PROVE SyncInv'
  OBVIOUS
<1>1. UNCHANGED <<dev, staged, flash, uplink, ledger, acks, retained, born, crashes, over,
                  before>>
  BY DEF vars, device, server, count
<1>2. Sent' = Sent
  BY <1>1 DEF Sent
<1>3. Everywhere' = Everywhere
  BY <1>1, <1>2 DEF Everywhere
<1> QED
  BY <1>1, <1>2, <1>3 DEF SyncInv, SyncType, Distinct, Numbered, Begun

LEMMA SyncInvariance == Spec => []SyncInv
<1>1. SyncInv /\ Next => SyncInv'
  BY SyncStep, GrownKeeps DEF SyncInv
<1> QED
  BY <1>1, InitSync, StutterSync, PTL DEF Spec

\* The meter, the blobs it has saved and what has reached the server are records
\* of their types, and no outbox holds more than it can, whatever is closed,
\* restored or acknowledged.
THEOREM LedgerTyped == Spec => []TypeOK
<1>1. SyncInv => TypeOK
  <2> SUFFICES ASSUME SyncInv PROVE TypeOK
    OBVIOUS
  <2>1. Len(uplink) <= 1 /\ \A i \in DOMAIN uplink : uplink[i] \in Seq(RunRecord)
    <3>1. CASE uplink = <<>>
      BY <3>1
    <3>2. CASE uplink = <<uplink[1]>> /\ uplink[1] \in Seq(RunRecord)
      <4>1. Len(uplink) = 1 /\ DOMAIN uplink = {1}
        BY <3>2
      <4> QED
        BY <3>2, <4>1
    <3> QED
      BY <3>1, <3>2 DEF SyncInv, SyncType
  <2> QED
    BY <2>1 DEF SyncInv, SyncType, Whole, TypeOK
<1> QED
  BY <1>1, SyncInvariance, PTL

\* No run is billed twice, for any number of slots, runs and crashes: a run that a
\* crash brings back and that is closed a second time has the number it had, and
\* the server holds each number once.
THEOREM BilledOnce == Spec => []NoRunBilledTwice
<1>1. SyncInv => NoRunBilledTwice
  BY DEF SyncInv, Numbered, Distinct, NoRunBilledTwice, Everywhere
<1> QED
  BY <1>1, SyncInvariance, PTL


-----------------------------------------------------------------------------
(* Until the first crash: a run's number is its place in the order in      *)
(* which runs begin, the outbox is in the order in which they end, a       *)
(* snapshot carries all that ended before any of its records and is still  *)
(* owed, and what is acknowledged is billed.                               *)

FirstLife ==
  crashes = 0 =>
    /\ dev.seq = born /\ \A x \in Records(dev) \cup Sent \cup ledger : x.seq = x.run
    /\ Ordered(dev.outbox, before)
    /\ \A s \in Slot : dev.open[s] # NoRun => dev.open[s].run \notin over
    /\ \A x \in Members(dev.outbox) \cup Sent \cup ledger : x.run \in over
    /\ before \subseteq over \X over /\ \A q \in Run : <<q, q>> \notin before
    /\ \A q, r \in over : q = r \/ <<q, r>> \in before \/ <<r, q>> \in before
    /\ \A b \in Sent, x \in Members(dev.outbox) : <<x.run, b.run>> \in before => x \in Sent
    /\ \A b \in ledger, x \in Members(dev.outbox) :
         x.run < b.run /\ <<x.run, b.run>> \in before => x.run \in Billed
    /\ \A n \in acks \cup {retained, dev.acked} : n # 0 => \E b \in ledger : b.seq = n

LEMMA FirstFacts ==
  ASSUME SyncInv, FirstLife, crashes = 0
  PROVE  /\ SyncType /\ born \in Nat /\ MaxRuns \in Nat
         /\ dev.seq = born /\ \A x \in Records(dev) \cup Sent \cup ledger : x.seq = x.run
         /\ Ordered(dev.outbox, before)
         /\ \A s \in Slot : dev.open[s] # NoRun => dev.open[s].run \notin over
         /\ \A x \in Members(dev.outbox) \cup Sent \cup ledger : x.run \in over
         /\ before \subseteq over \X over /\ \A q \in Run : <<q, q>> \notin before
         /\ \A q, r \in over : q = r \/ <<q, r>> \in before \/ <<r, q>> \in before
         /\ \A b \in Sent, x \in Members(dev.outbox) : <<x.run, b.run>> \in before => x \in Sent
         /\ \A b \in ledger, x \in Members(dev.outbox) :
              x.run < b.run /\ <<x.run, b.run>> \in before => x.run \in Billed
         /\ \A n \in acks \cup {retained, dev.acked} : n # 0 => \E b \in ledger : b.seq = n
<1>1. SyncType
  BY DEF SyncInv
<1>2. born \in Nat /\ MaxRuns \in Nat
  BY <1>1, LedgerAssumption DEF SyncType
<1> QED
  BY <1>1, <1>2 DEF FirstLife

\* A run that is opened is the newest.
LEMMA FirstOpen ==
  ASSUME SyncInv, FirstLife, NEW s \in Slot, OpenRun(s)
  PROVE  FirstLife'
<1> DEFINE r == [seq |-> dev.seq + 1, run |-> born + 1, end |-> "CLEAN"]
<1> SUFFICES ASSUME crashes' = 0 PROVE FirstLife'
  BY DEF FirstLife
<1>1. UNCHANGED <<uplink, ledger, acks, retained, crashes, over, before>>
  BY DEF OpenRun, server
<1>2. /\ SyncType /\ born \in Nat
      /\ dev.seq = born /\ \A x \in Records(dev) \cup Sent \cup ledger : x.seq = x.run
      /\ \A t \in Slot : dev.open[t] # NoRun => dev.open[t].run \notin over
  BY <1>1, FirstFacts
<1>3. /\ r \in RunRecord /\ dev'.seq = dev.seq + 1
      /\ dev'.open = [dev.open EXCEPT ![s] = r]
      /\ dev'.outbox = dev.outbox /\ dev'.acked = dev.acked
      /\ Records(dev') \subseteq Records(dev) \cup {r} /\ born' = born + 1
  BY OpenFacts
<1>4. r.seq = dev.seq + 1 /\ r.run = born + 1
  OBVIOUS
<1> HIDE DEF r
<1>5. dev'.open[s] = r /\ \A t \in Slot \ {s} : dev'.open[t] = dev.open[t]
  <2>1. dev.open \in [Slot -> RunRecord \cup {NoRun}]
    BY MeterFacts DEF SyncInv, SyncType, Whole
  <2> QED
    BY <1>3, <2>1
<1>6. Sent' = Sent /\ Billed' = Billed
  BY <1>1 DEF Sent, Billed
<1>7. r.run \notin over
  BY <1>2, <1>4 DEF SyncInv, Begun
<1>8. \A t \in Slot : dev'.open[t] # NoRun => dev'.open[t].run \notin over'
  BY <1>1, <1>2, <1>5, <1>7
<1>9. dev'.seq = born' /\ \A x \in Records(dev') \cup Sent' \cup ledger' : x.seq = x.run
  BY <1>1, <1>2, <1>3, <1>4, <1>6
<1>10. Members(dev'.outbox) = Members(dev.outbox) /\ Ordered(dev'.outbox, before')
  BY <1>1, <1>3, FirstFacts DEF Ordered
<1> QED
  BY <1>1, <1>3, <1>6, <1>8, <1>9, <1>10, FirstFacts DEF FirstLife

\* A run that is closed follows all that are over.
LEMMA FirstClose ==
  ASSUME SyncInv, FirstLife, NEW s \in Slot, CloseRun(s), crashes = 0
  PROVE  LET r == [dev.open[s] EXCEPT !.end = "CLEAN"] IN
         /\ FirstLife' /\ r \in RunRecord /\ r.run \in Run \ over
         /\ r.run = dev.open[s].run /\ r.run <= born
         /\ over' = over \cup {r.run} /\ before' = before \cup (over \X {r.run})
         /\ dev'.open = [dev.open EXCEPT ![s] = NoRun]
         /\ dev.outbox \in Seq(RunRecord) /\ Len(dev.outbox) <= OUTBOX_CAP
         /\ dev'.outbox = Pushed(dev.outbox, r)
<1> DEFINE r == [dev.open[s] EXCEPT !.end = "CLEAN"]
<1>1. /\ dev.open[s] # NoRun /\ dev' = Closed(dev, s, "CLEAN")
      /\ over' = over \cup {dev.open[s].run}
      /\ before' = before \cup (over \X {dev.open[s].run})
      /\ UNCHANGED <<uplink, ledger, acks, retained, born, crashes>>
  BY DEF CloseRun, server
<1>2. /\ SyncType /\ born \in Nat
      /\ dev.seq = born /\ \A x \in Records(dev) \cup Sent \cup ledger : x.seq = x.run
      /\ Ordered(dev.outbox, before)
      /\ \A t \in Slot : dev.open[t] # NoRun => dev.open[t].run \notin over
      /\ \A x \in Members(dev.outbox) \cup Sent \cup ledger : x.run \in over
      /\ before \subseteq over \X over /\ \A q \in Run : <<q, q>> \notin before
      /\ \A q, p \in over : q = p \/ <<q, p>> \in before \/ <<p, q>> \in before
      /\ \A b \in Sent, x \in Members(dev.outbox) : <<x.run, b.run>> \in before => x \in Sent
      /\ \A b \in ledger, x \in Members(dev.outbox) :
           x.run < b.run /\ <<x.run, b.run>> \in before => x.run \in Billed
      /\ \A n \in acks \cup {retained, dev.acked} : n # 0 => \E b \in ledger : b.seq = n
  BY FirstFacts
<1>3. Whole(dev) /\ dev \in Meter /\ Len(dev.outbox) <= OUTBOX_CAP
  BY DEF SyncInv, SyncType, Whole
<1>4. /\ dev.open \in [Slot -> RunRecord \cup {NoRun}] /\ dev.outbox \in Seq(RunRecord)
      /\ Members(dev.outbox) \subseteq RunRecord /\ dev.open[s] \in Records(dev)
      /\ \A t \in Slot : dev.open[t] # NoRun => dev.open[t] \in Records(dev)
  BY <1>1, <1>3, MeterFacts
<1>5. dev.open[s] \in RunRecord /\ "CLEAN" \in Ends
  BY <1>1, <1>4 DEF Ends
<1>6. r \in RunRecord /\ r.run = dev.open[s].run /\ r.seq = dev.open[s].seq
  BY <1>5, RecordFacts DEF Same
<1>7. r.run \in Run /\ r.run \notin over /\ r.run <= born
  <2>1. dev.open[s] \in Everywhere
    BY <1>4 DEF Everywhere
  <2> QED
    BY <1>1, <1>2, <1>6, <2>1, RecordFacts DEF SyncInv, Begun
<1>8. /\ dev'.seq = dev.seq /\ dev'.acked = dev.acked
      /\ dev'.open = [dev.open EXCEPT ![s] = NoRun]
      /\ dev'.outbox = Pushed(dev.outbox, r)
      /\ \A x \in Records(dev') : \E y \in Records(dev) : Same(x, y)
  BY <1>1, <1>3, <1>5, ClosedFields, ClosedWhole
<1> HIDE DEF r
<1>9. over' = over \cup {r.run} /\ before' = before \cup (over \X {r.run})
  BY <1>1, <1>6
<1>10. /\ Members(dev'.outbox) \subseteq Members(dev.outbox) \cup {r}
       /\ Ordered(dev'.outbox, before')
  <2> DEFINE p == Pushed(dev.outbox, r)
  <2>1. Members(p) \subseteq Members(dev.outbox) \cup {r}
    BY <1>3, <1>4, <1>6, PushedFacts
  <2>2. \A x \in Members(dev.outbox) : <<x.run, r.run>> \in before'
    BY <1>2, <1>9
  <2>3. Ordered(dev.outbox, before')
    BY <1>2, <1>9 DEF Ordered
  <2>4. Ordered(p, before')
    BY <1>3, <1>4, <1>6, <2>2, <2>3, PushedFacts
  <2> QED
    BY <1>8, <2>1, <2>4
<1>11. Sent' = Sent /\ Billed' = Billed
  BY <1>1 DEF Sent, Billed
<1>12. ASSUME NEW t \in Slot, dev'.open[t] # NoRun PROVE dev'.open[t].run \notin over'
  <2>1. t # s /\ dev'.open[t] = dev.open[t]
    BY <1>4, <1>8, <1>12
  <2>2. dev.open[t].run \notin over /\ dev.open[t] \in Records(dev)
    BY <1>2, <1>4, <1>12, <2>1
  <2>3. dev.open[t].seq # dev.open[s].seq
    BY <1>1, <1>3, <1>12, <2>1 DEF Whole
  <2>4. dev.open[t].run # dev.open[s].run
    BY <1>2, <1>4, <2>2, <2>3
  <2> QED
    BY <1>6, <1>9, <2>1, <2>2, <2>4
<1>13. \A x \in Records(dev') \cup Sent' \cup ledger' : x.seq = x.run
  BY <1>1, <1>2, <1>8, <1>11 DEF Same
<1>14. \A x \in Members(dev'.outbox) \cup Sent' \cup ledger' : x.run \in over'
  BY <1>1, <1>2, <1>9, <1>10, <1>11
<1>15. /\ before' \subseteq over' \X over' /\ \A q \in Run : <<q, q>> \notin before'
       /\ \A q, p \in over' : q = p \/ <<q, p>> \in before' \/ <<p, q>> \in before'
  BY <1>2, <1>7, <1>9
<1>16. \A b \in Sent \cup ledger : b.run \in over /\ b.run # r.run
  BY <1>2, <1>7
<1>17. \A b \in Sent \cup ledger, x \in Members(dev'.outbox) :
         <<x.run, b.run>> \in before' => x \in Members(dev.outbox) /\ <<x.run, b.run>> \in before
  BY <1>2, <1>7, <1>9, <1>10, <1>16
<1>18. \A b \in Sent', x \in Members(dev'.outbox) : <<x.run, b.run>> \in before' => x \in Sent'
  BY <1>2, <1>11, <1>17
<1>19. \A b \in ledger', x \in Members(dev'.outbox) :
         x.run < b.run /\ <<x.run, b.run>> \in before' => x.run \in Billed'
  BY <1>1, <1>2, <1>11, <1>17
<1>20. dev'.seq = born' /\ \A n \in acks' \cup {retained', dev'.acked} :
         n # 0 => \E b \in ledger' : b.seq = n
  BY <1>1, <1>2, <1>8
<1>21. FirstLife'
  BY <1>10, <1>12, <1>13, <1>14, <1>15, <1>18, <1>19, <1>20 DEF FirstLife
<1> QED
  BY <1>3, <1>4, <1>6, <1>7, <1>8, <1>9, <1>21 DEF r

\* What is sent is what is owed, what is inserted is all of it up to a number, and
\* so what is acknowledged is billed.
LEMMA FirstRest ==
  ASSUME SyncInv, FirstLife,
         \/ Save \/ Flush \/ Publish \/ Lose \/ OnAck
         \/ \E stop \in 1 .. MaxRuns + 1 : Ingest(stop)
         \/ \E n \in 1 .. MaxRuns : PublishAck(n)
  PROVE  FirstLife'
<1> SUFFICES ASSUME crashes' = 0 PROVE FirstLife'
  BY DEF FirstLife
<1>1. UNCHANGED <<born, crashes, over, before>>
  BY DEF Save, Flush, Publish, Lose, OnAck, Ingest, PublishAck, count
<1>2. /\ SyncType
      /\ dev.seq = born /\ \A x \in Records(dev) \cup Sent \cup ledger : x.seq = x.run
      /\ Ordered(dev.outbox, before)
      /\ \A s \in Slot : dev.open[s] # NoRun => dev.open[s].run \notin over
      /\ \A x \in Members(dev.outbox) \cup Sent \cup ledger : x.run \in over
      /\ before \subseteq over \X over /\ \A q \in Run : <<q, q>> \notin before
      /\ \A q, r \in over : q = r \/ <<q, r>> \in before \/ <<r, q>> \in before
      /\ \A b \in Sent, x \in Members(dev.outbox) : <<x.run, b.run>> \in before => x \in Sent
      /\ \A b \in ledger, x \in Members(dev.outbox) :
           x.run < b.run /\ <<x.run, b.run>> \in before => x.run \in Billed
      /\ \A n \in acks \cup {retained, dev.acked} : n # 0 => \E b \in ledger : b.seq = n
  BY <1>1, FirstFacts
<1>3. CASE Save \/ Flush
  <2>1. UNCHANGED <<dev, uplink, ledger, acks, retained>>
    BY <1>3 DEF Save, Flush, server
  <2>2. Sent' = Sent /\ Billed' = Billed
    BY <2>1 DEF Sent, Billed
  <2> QED
    BY <1>1, <1>2, <2>1, <2>2 DEF FirstLife
<1>4. CASE Publish \/ Lose
  <2>1. /\ uplink' = <<>> \/ uplink' = <<dev.outbox>>
        /\ UNCHANGED <<dev, ledger, acks, retained>>
    BY <1>4 DEF Publish, Lose, device, server
  <2>2. Sent' = {} \/ Sent' = Members(dev.outbox)
    <3>1. CASE uplink' = <<>>
      BY <3>1 DEF Sent
    <3>2. CASE uplink' = <<dev.outbox>>
      <4>1. DOMAIN uplink' = {1} /\ uplink'[1] = dev.outbox
        BY <3>2
      <4> QED
        BY <4>1 DEF Sent
    <3> QED
      BY <2>1, <3>1, <3>2
  <2>3. Billed' = Billed
    BY <2>1 DEF Billed
  <2>4. Sent' \subseteq Records(dev) /\ \A x \in Sent' : x \in Members(dev.outbox)
    BY <2>2 DEF Records
  <2>5. \A b \in Sent', x \in Members(dev'.outbox) : <<x.run, b.run>> \in before' => x \in Sent'
    BY <2>1, <2>2
  <2> QED
    BY <1>1, <1>2, <2>1, <2>3, <2>4, <2>5 DEF FirstLife
<1>5. CASE OnAck
  <2>1. /\ dev'.open = dev.open /\ dev'.seq = dev.seq
        /\ dev'.acked \in {retained, dev.acked}
        /\ Members(dev'.outbox) \subseteq Members(dev.outbox)
        /\ Ordered(dev'.outbox, before) /\ Records(dev') \subseteq Records(dev)
    BY <1>2, <1>5, AckFacts
  <2>2. UNCHANGED <<uplink, ledger, acks, retained>>
    BY <1>5 DEF OnAck, server
  <2>3. Sent' = Sent /\ Billed' = Billed
    BY <2>2 DEF Sent, Billed
  <2>4. \A n \in acks' \cup {retained', dev'.acked} : n # 0 => \E b \in ledger' : b.seq = n
    BY <1>2, <2>1, <2>2
  <2> QED
    BY <1>1, <1>2, <2>1, <2>2, <2>3, <2>4 DEF FirstLife
<1>6. ASSUME NEW stop \in 1 .. MaxRuns + 1, Ingest(stop) PROVE FirstLife'
  <2> DEFINE new == Inserted(uplink[1], stop)
  <2>1. /\ uplink # <<>> /\ uplink' = <<>> /\ UNCHANGED <<dev, retained>>
    BY <1>6 DEF Ingest, device
  <2>2. Sent' = {} /\ Sent = Members(uplink[1]) /\ Sent \subseteq RunRecord
    <3>1. Sent' = {}
      BY <2>1 DEF Sent
    <3> QED
      BY <1>2, <2>1, <3>1, SentFacts
  <2>3. CASE UNCHANGED <<ledger, acks>>
    <3>1. Billed' = Billed
      BY <2>3 DEF Billed
    <3> QED
      BY <1>1, <1>2, <2>1, <2>2, <2>3, <3>1 DEF FirstLife
  <2>4. CASE /\ ledger' = ledger \cup new
             /\ acks' = IF ledger' = {} THEN acks ELSE acks \cup {HighWaterRun(ledger')}
    <3>1. new = {x \in Sent : x.seq < stop /\ \A b \in ledger : b.seq # x.seq}
      BY <2>2 DEF Inserted
    <3> HIDE DEF new
    <3>2. Billed' = Billed \cup {x.run : x \in new}
      BY <2>4 DEF Billed
    <3>3. ledger' \subseteq RunRecord /\ ledger \subseteq RunRecord
      BY <1>2, <2>2, <2>4, <3>1 DEF SyncType
    <3>4. \A x \in Sent \cup Members(dev.outbox) : x.seq \in Nat /\ x.run \in Nat
      <4>1. Members(dev.outbox) \subseteq RunRecord
        BY <1>2, MeterFacts DEF SyncType, Whole
      <4> QED
        BY <2>2, <4>1, RecordFacts, LedgerAssumption DEF Run
    <3>5. ASSUME NEW b \in ledger', NEW x \in Members(dev.outbox),
                 x.run < b.run, <<x.run, b.run>> \in before
          PROVE  x.run \in Billed'
      <4>1. CASE b \in ledger
        BY <1>2, <3>2, <3>5, <4>1
      <4>2. CASE b \in new
        <5>1. b \in Sent /\ b.seq < stop
          BY <3>1, <4>2
        <5>2. x \in Sent
          BY <1>2, <3>5, <5>1
        <5>3. x.seq = x.run /\ b.seq = b.run
          BY <1>2, <5>1, <5>2
        <5>4. x.seq < stop
          BY <3>4, <3>5, <5>1, <5>2, <5>3
        <5>5. CASE \E c \in ledger : c.seq = x.seq
          <6>1. PICK c \in ledger : c.seq = x.seq
            BY <5>5
          <6>2. c.run = x.run
            BY <1>2, <5>2, <6>1
          <6> QED
            BY <3>2, <6>1, <6>2 DEF Billed
        <5>6. CASE ~\E c \in ledger : c.seq = x.seq
          <6>1. x \in new
            BY <3>1, <5>2, <5>4, <5>6
          <6> QED
            BY <3>2, <6>1
        <5> QED
          BY <5>5, <5>6
      <4> QED
        BY <2>4, <4>1, <4>2
    <3>6. \A n \in acks' \cup {retained', dev'.acked} : n # 0 => \E b \in ledger' : b.seq = n
      BY <1>2, <2>1, <2>4, <3>3, HighWaterFacts
    <3>7. /\ \A x \in Records(dev') \cup Sent' \cup ledger' : x.seq = x.run
          /\ \A x \in Members(dev'.outbox) \cup Sent' \cup ledger' : x.run \in over'
      BY <1>1, <1>2, <2>1, <2>2, <2>4, <3>1
    <3>8. \A b \in ledger', x \in Members(dev'.outbox) :
            x.run < b.run /\ <<x.run, b.run>> \in before' => x.run \in Billed'
      BY <1>1, <2>1, <3>5
    <3> QED
      BY <1>1, <1>2, <2>1, <2>2, <3>6, <3>7, <3>8 DEF FirstLife
  <2> QED
    BY <1>6, <2>3, <2>4 DEF Ingest
<1>7. ASSUME NEW n \in 1 .. MaxRuns, PublishAck(n) PROVE FirstLife'
  <2>1. /\ acks' \subseteq acks /\ retained' = n /\ n \in acks
        /\ UNCHANGED <<dev, uplink, ledger>>
    BY <1>7 DEF PublishAck, device
  <2>2. Sent' = Sent /\ Billed' = Billed
    BY <2>1 DEF Sent, Billed
  <2>3. \A k \in acks' \cup {retained', dev'.acked} : k # 0 => \E b \in ledger' : b.seq = k
    BY <1>2, <2>1
  <2> QED
    BY <1>1, <1>2, <2>1, <2>2, <2>3 DEF FirstLife
<1> QED
  BY <1>3, <1>4, <1>5, <1>6, <1>7

LEMMA FirstInvariance == Spec => []FirstLife
<1>1. Init => FirstLife
  <2> SUFFICES ASSUME Init PROVE FirstLife
    OBVIOUS
  <2>1. /\ dev = Blank /\ uplink = <<>> /\ ledger = {} /\ acks = {} /\ retained = 0
        /\ born = 0 /\ over = {} /\ before = {}
    BY DEF Init
  <2>2. /\ dev.seq = 0 /\ dev.outbox = <<>> /\ dev.acked = 0
        /\ dev.open = [s \in Slot |-> NoRun]
    BY <2>1 DEF Blank
  <2>3. \A s \in Slot : dev.open[s] = NoRun
    BY <2>2
  <2>4. Members(dev.outbox) = {} /\ Len(dev.outbox) = 0 /\ HeldOpen(dev) = {} /\ Sent = {}
    BY <2>1, <2>2 DEF Members, HeldOpen, Sent
  <2>5. Ordered(dev.outbox, before)
    BY <2>4 DEF Ordered
  <2> QED
    BY <2>1, <2>2, <2>3, <2>4, <2>5 DEF FirstLife, Records
<1>2. SyncInv /\ FirstLife /\ Next => FirstLife'
  <2> SUFFICES ASSUME SyncInv, FirstLife, Next PROVE FirstLife'
    OBVIOUS
  <2>1. CASE Crash
    <3>1. crashes' # 0
      BY <2>1, LedgerAssumption DEF Crash, SyncInv, SyncType
    <3> QED
      BY <3>1 DEF FirstLife
  <2>2. ASSUME NEW s \in Slot, CloseRun(s) PROVE FirstLife'
    <3>1. crashes' = crashes
      BY <2>2 DEF CloseRun
    <3>2. CASE crashes = 0
      BY <2>2, <3>2, FirstClose
    <3>3. CASE crashes # 0
      BY <3>1, <3>3 DEF FirstLife
    <3> QED
      BY <3>2, <3>3
  <2>3. CASE \E s \in Slot : OpenRun(s) \/ CloseRun(s)
    BY <2>2, <2>3, FirstOpen
  <2> QED
    BY <2>1, <2>3, FirstRest, Zenon DEF Next
<1>3. FirstLife /\ UNCHANGED vars => FirstLife'
  <2> SUFFICES ASSUME FirstLife, UNCHANGED vars PROVE FirstLife'
    OBVIOUS
  <2>1. UNCHANGED <<dev, uplink, ledger, acks, retained, born, crashes, over, before>>
    BY DEF vars, device, server, count
  <2>2. Sent' = Sent /\ Billed' = Billed
    BY <2>1 DEF Sent, Billed
  <2> QED
    BY <2>1, <2>2 DEF FirstLife, Ordered
<1> QED
  BY <1>1, <1>2, <1>3, SyncInvariance, PTL DEF Spec

-----------------------------------------------------------------------------
(* The refinement.                                                         *)

\* A full outbox holds as many runs as it can.
LEMMA FullCount ==
  ASSUME NEW box \in Seq(RunRecord), NEW R, Ordered(box, R), Len(box) = OUTBOX_CAP,
         \A q \in Run : <<q, q>> \notin R,
         NEW Q, Q \subseteq Run, \A x \in Members(box) : x.run \in Q
  PROVE  Cardinality(Q) \in Nat /\ Cardinality(Q) >= OUTBOX_CAP
<1> DEFINE N == OUTBOX_CAP
           f == [i \in 1 .. N |-> box[i].run]
<1>1. N \in Nat \ {0} /\ MaxRuns \in Nat
  BY LedgerAssumption
<1>2. \A i \in 1 .. N : box[i] \in Members(box)
  BY DEF Members
<1>3. f \in [1 .. N -> Q]
  BY <1>2
<1>4. ASSUME NEW i \in 1 .. N, NEW j \in 1 .. N, f[i] = f[j] PROVE i = j
  <2>1. box[i].run = box[j].run /\ box[i].run \in Run
    BY <1>2, <1>4
  <2>2. ~(i < j)
    <3>1. i < j => <<box[i].run, box[j].run>> \in R
      BY DEF Ordered
    <3> QED
      BY <2>1, <3>1
  <2>3. ~(j < i)
    <3>1. j < i => <<box[j].run, box[i].run>> \in R
      BY DEF Ordered
    <3> QED
      BY <2>1, <3>1
  <2> QED
    BY <1>1, <2>2, <2>3
<1>5. f \in Injection(1 .. N, Q)
  <2> HIDE DEF f
  <2> QED
    BY <1>3, <1>4 DEF Injection, IsInjective
<1>6. IsFiniteSet(Q) /\ Cardinality(1 .. N) = N
  <2>1. IsFiniteSet(Run) /\ Cardinality(1 .. N) = N
    BY <1>1, FS_Interval DEF Run
  <2> QED
    BY <2>1, FS_Subset
<1>7. Cardinality(1 .. N) <= Cardinality(Q)
  BY <1>5, <1>6, FS_Injection
<1>8. Cardinality(Q) \in Nat
  BY <1>6, FS_CardinalityType
<1> QED
  BY <1>1, <1>6, <1>7, <1>8

\* What a step does to the runs that are over, billed and still in the outbox.
LEMMA StepGrows ==
  ASSUME SyncInv, Next
  PROVE  /\ ledger \subseteq ledger' /\ ledger' \subseteq ledger \cup Sent
         /\ over \subseteq over' /\ \A n \in over' : n \in over \/ \E x \in Everywhere : n = x.run
         /\ crashes' \in {crashes, crashes + 1}
<1>1. SyncType
  BY DEF SyncInv
<1>2. CASE Save \/ Flush \/ Publish \/ Lose \/ OnAck \/ \E n \in 1 .. MaxRuns : PublishAck(n)
  BY <1>2 DEF Save, Flush, Publish, Lose, OnAck, PublishAck, server, count
<1>3. CASE \E s \in Slot : OpenRun(s)
  BY <1>3 DEF OpenRun, server
<1>4. ASSUME NEW s \in Slot, CloseRun(s)
      PROVE  /\ ledger' = ledger /\ crashes' = crashes /\ over \subseteq over'
             /\ \A n \in over' : n \in over \/ \E x \in Everywhere : n = x.run
  <2>1. dev.open[s] \in Records(dev)
    BY <1>1, <1>4, MeterFacts DEF SyncType, Whole, CloseRun
  <2> QED
    BY <1>4, <2>1 DEF CloseRun, server, Everywhere
<1>5. CASE Crash
  <2>1. \A t \in Slot : flash.open[t] # NoRun => flash.open[t] \in Records(flash)
    BY <1>1, MeterFacts DEF SyncType, Whole
  <2> QED
    BY <1>5, <2>1 DEF Crash, server, Everywhere
<1>6. ASSUME NEW stop \in 1 .. MaxRuns + 1, Ingest(stop)
      PROVE  /\ ledger \subseteq ledger' /\ ledger' \subseteq ledger \cup Sent
             /\ over' = over /\ crashes' = crashes
  <2>1. uplink # <<>> /\ Sent = Members(uplink[1])
    BY <1>1, <1>6, SentFacts DEF Ingest
  <2>2. Inserted(uplink[1], stop) \subseteq Sent
    BY <2>1 DEF Inserted
  <2> QED
    BY <1>6, <2>2 DEF Ingest, count
<1>7. CASE \E s \in Slot : CloseRun(s)
  BY <1>4, <1>7
<1>8. CASE \E stop \in 1 .. MaxRuns + 1 : Ingest(stop)
  BY <1>6, <1>8
<1> QED
  BY <1>2, <1>3, <1>5, <1>7, <1>8, Zenon DEF Next

\* The run is held open in a slot.
IsOpen(r) == \E s \in Slot : dev.open[s].run = r

\* A run that opens in a slot: it was not begun, and no other is opened.
LEMMA OpenRuns ==
  ASSUME SyncInv, NEW s \in Slot, OpenRun(s), NEW r \in Run
  PROVE  /\ r \in Billed' <=> r \in Billed
         /\ r \in over' <=> r \in over
         /\ r \in Kept' <=> r \in Kept
         /\ r = born + 1 => /\ r \notin Billed /\ r \notin over /\ ~(r <= born)
                            /\ ~IsOpen(r) /\ IsOpen(r)'
         /\ r # born + 1 => (IsOpen(r)' => IsOpen(r)) /\ (r <= born' <=> r <= born)
         /\ IsOpen(r) => r <= born
<1> DEFINE n == [seq |-> dev.seq + 1, run |-> born + 1, end |-> "CLEAN"]
<1>1. UNCHANGED <<ledger, over>>
  BY DEF OpenRun, server
<1>2. /\ dev'.outbox = dev.outbox /\ born' = born + 1
      /\ dev'.open = [dev.open EXCEPT ![s] = n]
  BY OpenFacts
<1>3. SyncType /\ born \in Nat /\ MaxRuns \in Nat
  BY LedgerAssumption DEF SyncInv, SyncType
<1>4. n.run = born + 1
  OBVIOUS
<1> HIDE DEF n
<1>5. Billed' = Billed /\ Kept' = Kept
  BY <1>1, <1>2 DEF Billed, Kept
<1>6. dev.open \in [Slot -> RunRecord \cup {NoRun}]
  BY <1>3, MeterFacts DEF SyncType, Whole
<1>7. dev'.open[s] = n /\ \A t \in Slot \ {s} : dev'.open[t] = dev.open[t]
  BY <1>2, <1>6
<1>8. r \in Nat /\ r # 0
  BY <1>3 DEF Run
<1>9. ASSUME IsOpen(r) PROVE r <= born
  <2>1. PICK t \in Slot : dev.open[t].run = r
    BY <1>9 DEF IsOpen
  <2>2. dev.open[t] # NoRun
    BY <1>8, <2>1 DEF NoRun
  <2>3. dev.open[t] \in Everywhere
    BY <1>3, <2>2, MeterFacts DEF SyncType, Whole, Everywhere
  <2> QED
    BY <2>1, <2>3 DEF SyncInv, Begun
<1>10. r \in Billed \/ r \in over => r <= born
  BY DEF SyncInv, Begun, Billed, Everywhere
<1>11. r = born + 1 => IsOpen(r)' /\ ~(r <= born)
  BY <1>3, <1>4, <1>7 DEF IsOpen
<1>12. r # born + 1 /\ IsOpen(r)' => IsOpen(r)
  BY <1>4, <1>7 DEF IsOpen
<1>13. r # born + 1 => (r <= born' <=> r <= born)
  BY <1>2, <1>3, <1>8
<1> QED
  BY <1>1, <1>5, <1>9, <1>10, <1>11, <1>12, <1>13

\* So the phase of a run that begins, and of any other.
LEMMA OpenPhases ==
  ASSUME SyncInv, NEW s \in Slot, OpenRun(s), NEW r \in Run
  PROVE  /\ r = born + 1 => Phase(r) = "none" /\ Phase(r)' = "open"
         /\ r # born + 1 => \/ Phase(r)' = Phase(r)
                            \/ Phase(r) = "open" /\ Phase(r)' = "overwritten"
<1>1. CASE r = born + 1
  BY <1>1, OpenRuns DEF Phase, IsOpen
<1>2. CASE r # born + 1
  <2>1. CASE r \in Billed \/ r \in over
    BY <1>2, <2>1, OpenRuns DEF Phase
  <2>2. CASE r \notin Billed /\ r \notin over /\ IsOpen(r)
    BY <1>2, <2>2, OpenRuns DEF Phase, IsOpen
  <2>3. CASE r \notin Billed /\ r \notin over /\ ~IsOpen(r)
    BY <1>2, <2>3, OpenRuns DEF Phase, IsOpen
  <2> QED
    BY <2>1, <2>2, <2>3
<1> QED
  BY <1>1, <1>2

\* After a crash: what is billed stays so, and no run is over that never began.
LEMMA PhaseSurvives ==
  ASSUME SyncInv, SyncInv', Next, NEW r \in Run
  PROVE  /\ Phase(r) = "billed" => Phase(r)' = "billed"
         /\ Phase(r) = "none" => Phase(r)' \in {"none", "open"}
<1>1. /\ ledger \subseteq ledger' /\ ledger' \subseteq ledger \cup Sent
      /\ \A n \in over' : n \in over \/ \E x \in Everywhere : n = x.run
  BY StepGrows
<1>2. Phase(r) = "billed" => Phase(r)' = "billed"
  BY <1>1 DEF Phase, Billed
<1>3. ASSUME Phase(r) = "none", ~\E s \in Slot : OpenRun(s) PROVE Phase(r)' \in {"none", "open"}
  <2>1. ~(r <= born)
    BY <1>3 DEF Phase
  <2>2. r \notin over'
    BY <1>1, <2>1 DEF SyncInv, Begun
  <2>3. r \notin Billed'
    BY <1>1, <2>1 DEF SyncInv, Begun, Everywhere, Billed
  <2>4. born' = born
    BY <1>3 DEF Next, CloseRun, Save, Flush, Crash, Publish, Lose, OnAck, Ingest, PublishAck,
                count
  <2> QED
    BY <2>1, <2>2, <2>3, <2>4 DEF Phase
<1>4. ASSUME NEW s \in Slot, OpenRun(s), Phase(r) = "none" PROVE Phase(r)' \in {"none", "open"}
  BY <1>4, OpenPhases
<1> QED
  BY <1>2, <1>3, <1>4

\* What becomes of a run, once more: RunLedger's Moves in terms of the device.
PhaseStep(r) ==
  \/ Phase(r)' = Phase(r)
  \/ Phase(r) = "none" /\ Phase(r)' = "open"
  \/ /\ Phase(r) = "open" /\ Phase(r)' = "overwritten"
     /\ \E q \in Run : Phase(q) = "none" /\ Phase(q)' = "open"
  \/ Phase(r) = "open" /\ Phase(r)' = "owed"
  \/ Phase(r) = "owed" /\ Phase(r)' = "billed"
  \/ /\ Phase(r) = "owed" /\ Phase(r)' = "dropped"
     /\ \/ Cardinality({q \in Run : <<r, q>> \in before'}) >= OUTBOX_CAP
        \/ \E q \in Run : q > r /\ <<q, r>> \in before /\ Phase(q) = "billed"
  \/ Phase(r) = "dropped" /\ Phase(r)' = "billed"

\* The pairs that RunLedger adds: all that are over before one that ends.
Added == {p \in Run \X Run : /\ Phase(p[1]) \notin {"none", "open", "overwritten"}
                             /\ Phase(p[2]) = "open" /\ Phase(p[2])' = "owed"}

\* A run that begins may overwrite the one that was open in its slot.
LEMMA OpenMoves ==
  ASSUME SyncInv, NEW s \in Slot, OpenRun(s)
  PROVE  (\A r \in Run : PhaseStep(r)) /\ before' = before \cup Added
<1>1. born + 1 \in Run /\ before' = before
  BY LedgerAssumption DEF OpenRun, SyncInv, SyncType, Run
<1>2. \E q \in Run : Phase(q) = "none" /\ Phase(q)' = "open"
  <2>1. PICK q \in Run : q = born + 1
    BY <1>1
  <2> QED
    BY <2>1, OpenPhases
<1>3. ASSUME NEW r \in Run PROVE PhaseStep(r) /\ ~(Phase(r) = "open" /\ Phase(r)' = "owed")
  <2>1. \/ Phase(r)' = Phase(r)
        \/ Phase(r) = "none" /\ Phase(r)' = "open"
        \/ Phase(r) = "open" /\ Phase(r)' = "overwritten"
    BY OpenPhases
  <2> QED
    BY <1>2, <2>1 DEF PhaseStep
<1>4. Added = {}
  BY <1>3 DEF Added
<1> QED
  BY <1>1, <1>3, <1>4

\* A run that ends is owed, and may push the oldest out of a full outbox, which at
\* least as many have followed as the outbox holds.
LEMMA CloseMoves ==
  ASSUME SyncInv, FirstLife, FirstLife', crashes = 0, crashes' = 0,
         NEW s \in Slot, CloseRun(s)
  PROVE  (\A r \in Run : PhaseStep(r)) /\ before' = before \cup Added
<1> DEFINE x == [dev.open[s] EXCEPT !.end = "CLEAN"]
           c == x.run
           box == dev.outbox
<1>1. /\ x \in RunRecord /\ c \in Run \ over /\ c = dev.open[s].run /\ c <= born
      /\ over' = over \cup {c} /\ before' = before \cup (over \X {c})
      /\ dev'.open = [dev.open EXCEPT ![s] = NoRun]
      /\ box \in Seq(RunRecord) /\ Len(box) <= OUTBOX_CAP
      /\ dev'.outbox = Pushed(box, x)
  BY FirstClose
<1> HIDE DEF x, box
<1>2. UNCHANGED <<ledger, born>>
  BY DEF CloseRun, server
<1>3. /\ SyncType /\ Ordered(box, before)
      /\ \A y \in Members(box) \cup Sent \cup ledger : y.run \in over
      /\ before \subseteq over \X over
  BY FirstFacts DEF box
<1>4. /\ Ordered(dev'.outbox, before') /\ \A q \in Run : <<q, q>> \notin before'
      /\ over' \subseteq Run /\ dev'.outbox \in Seq(RunRecord)
  <2>1. dev' \in Meter /\ over' \subseteq Run
    BY <1>1, <1>3, SyncStep DEF SyncType, Whole, Next
  <2>2. dev'.outbox \in Seq(RunRecord)
    BY <2>1 DEF Meter
  <2> QED
    BY <2>1, <2>2 DEF FirstLife
<1>5. /\ x \in Members(dev'.outbox) /\ Members(dev'.outbox) \subseteq Members(box) \cup {x}
      /\ Len(box) < OUTBOX_CAP => Members(box) \subseteq Members(dev'.outbox)
      /\ Len(box) = OUTBOX_CAP =>
           /\ Len(dev'.outbox) = OUTBOX_CAP
           /\ Members(box) \ {box[1]} \subseteq Members(dev'.outbox)
  BY <1>1, PushedFacts
<1>6. /\ Billed' = Billed /\ Billed \subseteq over
      /\ Kept = {y.run : y \in Members(box)} /\ Kept' = {y.run : y \in Members(dev'.outbox)}
  BY <1>2, <1>3 DEF Billed, Kept, box
<1>7. ASSUME NEW r \in Run, r # c PROVE IsOpen(r) <=> IsOpen(r)'
  <2>1. dev.open \in [Slot -> RunRecord \cup {NoRun}]
    BY <1>3, MeterFacts DEF SyncType, Whole
  <2>2. dev'.open[s] = NoRun /\ \A t \in Slot \ {s} : dev'.open[t] = dev.open[t]
    BY <1>1, <2>1
  <2>3. r # NoRun.run
    BY LedgerAssumption DEF NoRun, Run
  <2> QED
    BY <1>1, <1>7, <2>2, <2>3 DEF IsOpen
<1>8. Phase(c) = "open" /\ c \in over' /\ c \in Kept' /\ c \notin Billed'
  <2>1. c \notin Billed /\ c \notin over /\ IsOpen(c)
    BY <1>1, <1>6 DEF IsOpen
  <2>2. c \in over' /\ c \in Kept' /\ c \notin Billed'
    BY <1>1, <1>5, <1>6, <2>1
  <2> QED
    BY <2>1, <2>2 DEF Phase, IsOpen
<1>9. ASSUME NEW r \in Run, r = c PROVE Phase(r) = "open" /\ Phase(r)' = "owed"
  BY <1>8, <1>9 DEF Phase
<1>10. ASSUME NEW r \in Run, r # c, r \in Kept => r \in Kept' PROVE Phase(r)' = Phase(r)
  <2>1. (r \in over' <=> r \in over) /\ (r \in Kept' <=> r \in Kept)
    BY <1>1, <1>5, <1>6, <1>10
  <2> QED
    BY <1>2, <1>6, <1>7, <1>10, <2>1 DEF Phase, IsOpen
<1>11. ASSUME NEW r \in Run, r \in Kept, r \notin Kept'
       PROVE  /\ r # c /\ r \in over /\ r \in over'
              /\ Cardinality({q \in Run : <<r, q>> \in before'}) >= OUTBOX_CAP
  <2> DEFINE Q == {q \in Run : <<r, q>> \in before'}
  <2>1. PICK y \in Members(box) : y.run = r
    BY <1>6, <1>11
  <2>2. y \notin Members(dev'.outbox)
    BY <1>6, <1>11, <2>1
  <2>3. Len(box) \in Nat
    BY <1>1
  <2>4. Len(box) = OUTBOX_CAP
    BY <1>1, <1>5, <2>1, <2>2, <2>3, LedgerAssumption
  <2>5. y = box[1] /\ Len(dev'.outbox) = OUTBOX_CAP
    BY <1>5, <2>1, <2>2, <2>4
  <2>6. r \in over /\ r \in over' /\ r # c
    BY <1>1, <1>3, <2>1
  <2>7. ASSUME NEW i \in 1 .. Len(box), box[i] # box[1] PROVE <<r, box[i].run>> \in before'
    <3>1. 1 \in 1 .. Len(box) /\ 1 < i
      BY <2>3, <2>7
    <3>2. <<box[1].run, box[i].run>> \in before
      BY <1>3, <3>1 DEF Ordered
    <3> QED
      BY <1>1, <2>1, <2>5, <3>2
  <2>8. ASSUME NEW z \in Members(dev'.outbox) PROVE z.run \in Q
    <3>1. z.run \in Run
      BY <1>4, <2>8, RecordFacts DEF Members
    <3>2. (z \in Members(box) /\ z # box[1]) \/ z = x
      BY <1>5, <2>2, <2>5
    <3>3. CASE z \in Members(box) /\ z # box[1]
      <4>1. PICK i \in 1 .. Len(box) : z = box[i]
        BY <1>1, <3>3 DEF Members
      <4> QED
        BY <2>7, <3>1, <3>3, <4>1
    <3>4. CASE z = x
      BY <1>1, <2>6, <3>1, <3>4
    <3> QED
      BY <3>2, <3>3, <3>4
  <2>9. Q \subseteq Run
    OBVIOUS
  <2> HIDE DEF Q
  <2>10. Cardinality(Q) >= OUTBOX_CAP
    BY <1>4, <2>5, <2>8, <2>9, FullCount
  <2> QED
    BY <2>6, <2>10 DEF Q
<1>12. ASSUME NEW r \in Run PROVE PhaseStep(r)
  <2>1. CASE r = c
    BY <1>9, <2>1 DEF PhaseStep
  <2>2. CASE r # c /\ (r \in Kept => r \in Kept')
    BY <1>10, <2>2 DEF PhaseStep
  <2>3. CASE r \in Kept /\ r \notin Kept'
    <3>1. CASE r \in Billed
      BY <1>6, <3>1 DEF Phase, PhaseStep
    <3>2. CASE r \notin Billed
      <4>1. Phase(r) = "owed" /\ Phase(r)' = "dropped"
        BY <1>6, <1>11, <2>3, <3>2 DEF Phase
      <4> QED
        BY <1>11, <2>3, <4>1 DEF PhaseStep
    <3> QED
      BY <3>1, <3>2
  <2> QED
    BY <2>1, <2>2, <2>3
<1>13. ASSUME NEW r \in Run, Phase(r) = "open", Phase(r)' = "owed" PROVE r = c
  <2>1. r \notin over /\ r \in over'
    BY <1>13 DEF Phase
  <2> QED
    BY <1>1, <2>1
<1>14. ASSUME NEW r \in Run
       PROVE  Phase(r) \notin {"none", "open", "overwritten"} <=> r \in over
  BY <1>6 DEF Phase
<1>15. Added = over \X {c}
  <2>1. \A r \in Run : Phase(r) = "open" /\ Phase(r)' = "owed" <=> r = c
    BY <1>9, <1>13
  <2>2. over \subseteq Run /\ c \in Run
    BY <1>1, <1>3 DEF SyncType
  <2>3. Added = {p \in Run \X Run : p[1] \in over /\ p[2] = c}
    BY <1>14, <2>1 DEF Added
  <2> QED
    BY <2>2, <2>3
<1> QED
  BY <1>1, <1>12, <1>15

\* What is acknowledged is billed, and of what is acknowledged with it all is
\* billed that did not begin before and end after a run that is.
LEMMA AckMoves ==
  ASSUME SyncInv, FirstLife, crashes = 0, OnAck
  PROVE  (\A r \in Run : PhaseStep(r)) /\ before' = before \cup Added
<1>1. UNCHANGED <<ledger, over, born, before>>
  BY DEF OnAck, server, count
<1>2. /\ SyncType /\ MaxRuns \in Nat
      /\ \A x \in Records(dev) \cup Sent \cup ledger : x.seq = x.run
      /\ \A x \in Members(dev.outbox) \cup Sent \cup ledger : x.run \in over
      /\ \A q, r \in over : q = r \/ <<q, r>> \in before \/ <<r, q>> \in before
      /\ \A b \in ledger, x \in Members(dev.outbox) :
           x.run < b.run /\ <<x.run, b.run>> \in before => x.run \in Billed
      /\ \A n \in acks \cup {retained, dev.acked} : n # 0 => \E b \in ledger : b.seq = n
  BY FirstFacts
<1>3. /\ dev'.acked \in {retained, dev.acked} /\ retained # 0 /\ dev'.open = dev.open
      /\ Members(dev'.outbox) = {x \in Members(dev.outbox) : x.seq > dev'.acked}
  BY <1>2, AckFacts
<1>4. Billed' = Billed /\ Kept' \subseteq Kept
  BY <1>1, <1>3 DEF Billed, Kept
<1>5. ASSUME NEW r \in Run, r \in Kept, r \notin Kept', r \notin Billed
      PROVE  /\ r \in over
             /\ \E q \in Run : q > r /\ <<q, r>> \in before /\ Phase(q) = "billed"
  <2>1. r \in Nat /\ r # 0
    BY <1>2 DEF Run
  <2>2. PICK x \in Members(dev.outbox) : x.run = r /\ ~(x.seq > dev'.acked)
    BY <1>3, <1>5 DEF Kept
  <2>3. x.seq = r
    BY <1>2, <2>2 DEF Records
  <2>4. dev'.acked \in Nat /\ r <= dev'.acked /\ dev'.acked # 0
    <3>1. dev.acked \in 0 .. MaxRuns /\ retained \in 0 .. MaxRuns
      BY <1>2, MeterFacts DEF SyncType, Whole
    <3> QED
      BY <1>2, <1>3, <2>1, <2>2, <2>3, <3>1
  <2>5. PICK b \in ledger : b.seq = dev'.acked
    BY <1>2, <1>3, <2>4
  <2>6. b.run = dev'.acked /\ b.run \in Run /\ b.run \in Billed /\ b.run \in over
    <3>1. b \in RunRecord
      BY <1>2 DEF SyncType
    <3> QED
      BY <1>2, <2>5, <3>1, RecordFacts DEF Billed
  <2>7. b.run > r
    BY <1>5, <2>1, <2>4, <2>6
  <2>8. r \in over /\ <<r, b.run>> \notin before
    BY <1>2, <1>5, <2>2, <2>7
  <2>9. <<b.run, r>> \in before
    BY <1>2, <1>5, <2>6, <2>8
  <2>10. Phase(b.run) = "billed"
    BY <2>6 DEF Phase
  <2> QED
    BY <2>6, <2>7, <2>8, <2>9, <2>10
<1>6. ASSUME NEW r \in Run PROVE PhaseStep(r)
  <2>1. CASE r \in Kept /\ r \notin Kept' /\ r \notin Billed
    <3>1. Phase(r) = "owed" /\ Phase(r)' = "dropped"
      BY <1>1, <1>4, <1>5, <2>1 DEF Phase
    <3> QED
      BY <1>5, <2>1, <3>1 DEF PhaseStep
  <2>2. CASE r \in Billed \/ (r \in Kept <=> r \in Kept')
    BY <1>1, <1>3, <1>4, <2>2 DEF Phase, PhaseStep
  <2> QED
    BY <1>4, <2>1, <2>2
<1>7. Added = {}
  <2>1. \A r \in Run : Phase(r) = "open" => r \notin over
    BY DEF Phase
  <2>2. \A r \in Run : Phase(r)' = "owed" => r \in over'
    BY DEF Phase
  <2> QED
    BY <1>1, <2>1, <2>2 DEF Added
<1> QED
  BY <1>1, <1>6, <1>7

\* Before the first crash every step is one of RunLedger's.
LEMMA PhaseMoves ==
  ASSUME SyncInv, FirstLife, FirstLife', Next, crashes' = 0
  PROVE  (\A r \in Run : PhaseStep(r)) /\ before' = before \cup Added
<1> DEFINE Goal == (\A r \in Run : PhaseStep(r)) /\ before' = before \cup Added
<1> SUFFICES Goal
  OBVIOUS
<1>1. SyncType /\ crashes = 0
  <2>1. SyncType
    BY DEF SyncInv
  <2> QED
    BY <2>1, StepGrows, LedgerAssumption DEF SyncType
<1>2. ASSUME over' = over, before' = before, \A r \in Run : PhaseStep(r) PROVE Goal
  <2>1. \A r \in Run : Phase(r) = "open" => r \notin over
    BY DEF Phase
  <2>2. \A r \in Run : Phase(r)' = "owed" => r \in over'
    BY DEF Phase
  <2>3. Added = {}
    BY <1>2, <2>1, <2>2 DEF Added
  <2> QED
    BY <1>2, <2>3
<1>3. CASE Save \/ Flush \/ Publish \/ Lose \/ \E n \in 1 .. MaxRuns : PublishAck(n)
  <2>1. UNCHANGED <<dev, ledger, over, born, before>>
    BY <1>3 DEF Save, Flush, Publish, Lose, PublishAck, device, server, count
  <2>2. \A r \in Run : PhaseStep(r)
    BY <2>1 DEF PhaseStep, Phase, Billed, Kept
  <2> QED
    BY <1>2, <2>1, <2>2
<1>4. CASE OnAck
  BY <1>1, <1>4, AckMoves
<1>5. ASSUME NEW stop \in 1 .. MaxRuns + 1, Ingest(stop) PROVE Goal
  <2>1. UNCHANGED <<dev, over, born, before>>
    BY <1>5 DEF Ingest, device, count
  <2>2. ledger \subseteq ledger' /\ ledger' \subseteq ledger \cup Sent
    BY StepGrows
  <2>3. Kept' = Kept /\ Billed \subseteq Billed'
    BY <2>1, <2>2 DEF Kept, Billed
  <2>4. \A r \in Run : r \in Billed' /\ r \notin Billed => r \in over
    BY <1>1, <2>2, FirstFacts DEF Billed
  <2>5. ASSUME NEW r \in Run PROVE PhaseStep(r)
    <3>1. CASE r \in Billed \/ ~(r \in Billed')
      BY <2>1, <2>3, <3>1 DEF Phase, PhaseStep
    <3>2. CASE r \in Billed' /\ r \notin Billed
      BY <2>3, <2>4, <3>2 DEF Phase, PhaseStep
    <3> QED
      BY <3>1, <3>2
  <2> QED
    BY <1>2, <2>1, <2>5
<1>6. CASE Crash
  BY <1>1, <1>6 DEF Crash
<1>7. CASE \E s \in Slot : OpenRun(s) \/ CloseRun(s)
  BY <1>1, <1>7, OpenMoves, CloseMoves
<1>8. CASE \E stop \in 1 .. MaxRuns + 1 : Ingest(stop)
  BY <1>5, <1>8
<1> HIDE DEF Goal
<1> QED
  BY <1>3, <1>4, <1>6, <1>7, <1>8, Zenon DEF Next

\* The device with its slots, the lossy link and the server keep what RunLedger
\* promises, step by step: a closed run is owed until it is billed, but for those a
\* full outbox or a run that overtook them drops; for every number of slots, every
\* size of the outbox and the buffer and any number of runs and crashes.
THEOREM SlotsKeepLedger == Spec => KeepsLedger
<1> DEFINE phases == [r \in Run |-> Phase(r)]
<1>1. Init => Ledger!LedgerInit
  <2> SUFFICES ASSUME Init PROVE Ledger!LedgerInit
    OBVIOUS
  <2>1. /\ ledger = {} /\ over = {} /\ born = 0 /\ crashes = 0 /\ before = {}
        /\ dev = Blank
    BY DEF Init
  <2>2. dev.open = [s \in Slot |-> NoRun]
    BY <2>1 DEF Blank
  <2>3. \A s \in Slot : dev.open[s].run = 0
    BY <2>2 DEF NoRun
  <2>4. \A r \in Run : r # 0 /\ ~(r <= 0)
    BY LedgerAssumption DEF Run
  <2>5. \A r \in Run : ~\E s \in Slot : dev.open[s].run = r
    BY <2>3, <2>4
  <2>6. \A r \in Run : Phase(r) = "none"
    BY <2>1, <2>4, <2>5 DEF Phase, Billed
  <2>7. (crashes > 0) = FALSE
    BY <2>1
  <2> QED
    BY <2>1, <2>6, <2>7 DEF Ledger!LedgerInit
<1>2. /\ SyncInv /\ SyncInv' /\ FirstLife /\ FirstLife' /\ [Next]_vars
      => [Ledger!LedgerNext]_<<phases, before, crashes > 0>>
  <2> SUFFICES ASSUME SyncInv, SyncInv', FirstLife, FirstLife', [Next]_vars
               PROVE  [Ledger!LedgerNext]_<<phases, before, crashes > 0>>
    OBVIOUS
  <2>1. CASE UNCHANGED vars
    <3>1. UNCHANGED <<dev, ledger, over, born, crashes, before>>
      BY <2>1 DEF vars, device, server, count
    <3>2. UNCHANGED <<phases, before, crashes > 0>>
      BY <3>1 DEF Phase, Billed, Kept
    <3> QED
      BY <3>2
  <2>2. CASE Next
    <3>1. crashes \in Nat /\ crashes' \in Nat /\ (crashes > 0 => crashes' > 0)
      BY <2>2, StepGrows, LedgerAssumption DEF SyncInv, SyncType
    <3>2. \A r \in Run : Phase(r)' \in Ledger!Phases
      BY DEF Phase, Ledger!Phases
    <3>3. ASSUME NEW r \in Run, (crashes > 0)' PROVE Ledger!Survives(r)
      BY <2>2, PhaseSurvives DEF Ledger!Survives
    <3>4. ASSUME ~(crashes > 0)'
          PROVE  (\A r \in Run : PhaseStep(r)) /\ before' = before \cup Added
      <4>1. crashes' = 0
        BY <3>1, <3>4
      <4> QED
        BY <2>2, <4>1, PhaseMoves
    <3>5. ASSUME NEW r \in Run, PhaseStep(r) PROVE Ledger!Moves(r)
      <4> DEFINE Later == {q \in Run : <<r, q>> \in before'}
      <4>1. Ledger!Cardinality(Later) = Cardinality(Later)
        BY DEF Ledger!Cardinality, Cardinality
      <4>2. PhaseStep(r) <=>
              \/ Phase(r)' = Phase(r)
              \/ Phase(r) = "none" /\ Phase(r)' = "open"
              \/ /\ Phase(r) = "open" /\ Phase(r)' = "overwritten"
                 /\ \E q \in Run : Phase(q) = "none" /\ Phase(q)' = "open"
              \/ Phase(r) = "open" /\ Phase(r)' = "owed"
              \/ Phase(r) = "owed" /\ Phase(r)' = "billed"
              \/ /\ Phase(r) = "owed" /\ Phase(r)' = "dropped"
                 /\ \/ Cardinality(Later) >= OUTBOX_CAP
                    \/ \E q \in Run : q > r /\ <<q, r>> \in before /\ Phase(q) = "billed"
              \/ Phase(r) = "dropped" /\ Phase(r)' = "billed"
        BY DEF PhaseStep
      <4>3. Ledger!Crowded(r) <=> Cardinality(Later) >= OUTBOX_CAP
        <5> HIDE DEF Later
        <5>1. Ledger!Cardinality(Later) >= OUTBOX_CAP <=> Cardinality(Later) >= OUTBOX_CAP
          BY <4>1
        <5> QED
          BY <5>1 DEF Later, Ledger!Crowded
      <4> HIDE DEF Later
      <4>4. Ledger!Outrun(r)
              <=> \E q \in Run : q > r /\ <<q, r>> \in before /\ Phase(q) = "billed"
        BY DEF Ledger!Outrun
      <4>5. \A q \in Run : Ledger!Begins(q) <=> Phase(q) = "none" /\ Phase(q)' = "open"
        BY DEF Ledger!Begins
      <4>6. Ledger!Ends(r) <=> Phase(r) = "open" /\ Phase(r)' = "owed"
        BY DEF Ledger!Ends
      <4> QED
        BY <3>5, <4>2, <4>3, <4>4, <4>5, <4>6 DEF Ledger!Moves
    <3>6. Added = {p \in Run \X Run : Ledger!Over(p[1]) /\ Ledger!Ends(p[2])}
      BY DEF Added, Ledger!Over, Ledger!Ends
    <3>7. CASE (crashes > 0)'
      BY <3>1, <3>2, <3>3, <3>7 DEF Ledger!LedgerNext
    <3>8. CASE ~(crashes > 0)'
      BY <3>1, <3>2, <3>4, <3>5, <3>6, <3>8 DEF Ledger!LedgerNext
    <3> QED
      BY <3>7, <3>8
  <2> QED
    BY <2>1, <2>2
<1> QED
  BY <1>1, <1>2, SyncInvariance, FirstInvariance, PTL DEF Spec, KeepsLedger, Ledger!LedgerSpec
=============================================================================
