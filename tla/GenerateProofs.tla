--------------------------- MODULE GenerateProofs ---------------------------
(***************************************************************************)
(* Proofs about Generate and Planning: what their loops make of every      *)
(* branch, whatever the number of its candidates, values and rules.        *)
(***************************************************************************)
EXTENDS Planning, FiniteSetTheorems, SequenceTheorems, WellFoundedInduction, TLAPS

-----------------------------------------------------------------------------
(* Induction and recursion, on a set of numbers and for a step that is a   *)
(* function: the form in which the loops below can use them.               *)

\* A set of natural numbers that is not empty has a least one.
LEMMA LeastNumber ==
  ASSUME NEW T \in SUBSET Nat, T # {}
  PROVE  \E k \in T : \A j \in T : k <= j
  <1> DEFINE R == OpToRel(<, Nat)
  <1>1. IsWellFoundedOn(R, Nat)
    BY NatLessThanWellFounded
  <1>2. \A j, k \in Nat : j < k => <<j, k>> \in R
    BY DEF OpToRel
  <1> HIDE DEF R
  <1>3. PICK k \in T : \A j \in T : ~ (<<j, k>> \in R)
    BY <1>1, WFMin
  <1>4. ASSUME NEW j \in T
        PROVE  k <= j
    <2>1. j \in Nat /\ k \in Nat
      OBVIOUS
    <2>2. ~ (j < k)
      BY <1>2, <1>3, <2>1
    <2> QED
      BY <2>1, <2>2
  <1> QED
    BY <1>4

\* What holds of 0 and is kept by each of N steps holds of 0 .. N.
LEMMA UpTo ==
  ASSUME NEW N \in Nat, NEW T, 0 \in T, \A n \in 1 .. N : n - 1 \in T => n \in T
  PROVE  0 .. N \subseteq T
  <1> SUFFICES ASSUME (0 .. N) \ T # {}
               PROVE  FALSE
    OBVIOUS
  <1>1. (0 .. N) \ T \in SUBSET Nat
    OBVIOUS
  <1>2. PICK k \in (0 .. N) \ T : \A j \in (0 .. N) \ T : k <= j
    BY <1>1, LeastNumber
  <1>3. k \in 1 .. N /\ k - 1 \in 0 .. N /\ ~ (k <= k - 1)
    BY <1>2
  <1> QED
    BY <1>2, <1>3

\* The values a loop of N steps from a goes through.
IsLoop(f, N, a, step) == f[0] = a /\ \A n \in 1 .. N : f[n] = step[n][f[n - 1]]

LEMMA LoopExists ==
  ASSUME NEW N \in Nat, NEW S, NEW a \in S, NEW step \in [1 .. N -> [S -> S]]
  PROVE  \E f \in [0 .. N -> S] : IsLoop(f, N, a, step)
  <1> DEFINE Upto(m, f) == f[0] = a /\ \A n \in 1 .. m : f[n] = step[n][f[n - 1]]
             T == { m \in 0 .. N : \E f \in [0 .. m -> S] : Upto(m, f) }
  <1>1. 0 \in T
    <2> DEFINE g == [n \in 0 .. 0 |-> a]
    <2>1. g \in [0 .. 0 -> S] /\ Upto(0, g)
      OBVIOUS
    <2> HIDE DEF g, Upto
    <2> QED
      BY <2>1
  <1>2. ASSUME NEW m \in 1 .. N, m - 1 \in T
        PROVE  m \in T
    <2>1. PICK f \in [0 .. (m - 1) -> S] : Upto(m - 1, f)
      BY <1>2
    <2> DEFINE next == step[m][f[m - 1]]
               g == [n \in 0 .. m |-> IF n = m THEN next ELSE f[n]]
    <2>2. next \in S
      <3>1. m \in 1 .. N /\ f[m - 1] \in S
        OBVIOUS
      <3> QED
        BY <3>1
    <2>3. f[0] = a /\ \A n \in 1 .. m - 1 : f[n] = step[n][f[n - 1]]
      BY <2>1
    <2> HIDE DEF next
    <2>4. g \in [0 .. m -> S] /\ g[m] = next /\ \A n \in 0 .. m - 1 : g[n] = f[n]
      BY <2>2
    <2> HIDE DEF g
    <2>5. g[0] = a /\ \A n \in 1 .. m - 1 : g[n] = step[n][g[n - 1]]
      BY <2>3, <2>4
    <2>6. g[m] = step[m][g[m - 1]]
      <3>1. g[m - 1] = f[m - 1]
        BY <2>4
      <3> QED
        BY <2>4, <3>1 DEF next
    <2>7. \A n \in 1 .. m : n = m \/ n \in 1 .. m - 1
      OBVIOUS
    <2>8. Upto(m, g)
      BY <2>5, <2>6, <2>7
    <2> HIDE DEF Upto
    <2> QED
      BY <2>4, <2>8
  <1>3. 0 .. N \subseteq T
    <2> HIDE DEF T
    <2> QED
      BY <1>1, <1>2, UpTo
  <1>4. N \in T
    BY <1>3
  <1> QED
    BY <1>4 DEF IsLoop

-----------------------------------------------------------------------------
(* The loop of the generators *)

HashesIn(points) == { p.hash : p \in Range(points) }

NoneTwice(points) ==
  \A n, k \in DOMAIN points : points[n].hash = points[k].hash => n = k

LEMMA AddNewPoint ==
  ASSUME NEW P, NEW points \in Seq(P), NEW point \in P
  PROVE  /\ AddNew(points, point) \in Seq(P)
         /\ HashesIn(AddNew(points, point)) = HashesIn(points) \cup {point.hash}
         /\ NoneTwice(points) => NoneTwice(AddNew(points, point))
         /\ Len(points) <= Len(AddNew(points, point))
         /\ \A n \in DOMAIN points : AddNew(points, point)[n] = points[n]
         /\ Range(AddNew(points, point)) \subseteq Range(points) \cup {point}
  <1> DEFINE next == AddNew(points, point)
  <1>1. CASE \E p \in Range(points) : p.hash = point.hash
    <2>1. next = points
      BY <1>1 DEF AddNew
    <2> QED
      BY <1>1, <2>1 DEF HashesIn
  <1>2. CASE \A p \in Range(points) : p.hash # point.hash
    <2>1. next = Append(points, point)
      BY <1>2 DEF AddNew
    <2>2. /\ next \in Seq(P) /\ Len(next) = Len(points) + 1
          /\ DOMAIN next = DOMAIN points \cup {Len(points) + 1}
          /\ Len(points) + 1 \notin DOMAIN points
          /\ \A n \in DOMAIN points : next[n] = points[n]
          /\ next[Len(points) + 1] = point
      BY <2>1
    <2> HIDE DEF next
    <2>3. Range(next) = Range(points) \cup {point}
      BY <2>2 DEF Range
    <2>4. HashesIn(next) = HashesIn(points) \cup {point.hash}
      BY <2>3 DEF HashesIn
    <2>5. \A n \in DOMAIN points : points[n].hash # point.hash
      BY <1>2 DEF Range
    <2>6. NoneTwice(points) => NoneTwice(next)
      BY <2>2, <2>5 DEF NoneTwice
    <2>7. Len(points) \in Nat /\ Len(points) <= Len(next)
      BY <2>2
    <2> QED
      BY <2>2, <2>3, <2>4, <2>6, <2>7 DEF next
  <1> QED
    BY <1>1, <1>2

\* Collect has a history, from the points it is given to those it returns.
LEMMA CollectLoop ==
  ASSUME NEW P, NEW first \in Seq(P), NEW tried \in Seq(P),
         NEW kept \in [DOMAIN tried -> BOOLEAN]
  PROVE  \E h \in [0 .. Len(tried) -> Seq(P)] :
           /\ h[0] = first
           /\ \A n \in 1 .. Len(tried) :
                h[n] = IF kept[n] THEN AddNew(h[n - 1], tried[n]) ELSE h[n - 1]
           /\ Collect(first, tried, kept) = h[Len(tried)]
  <1> DEFINE N == Len(tried)
             Turn(n, points) == IF kept[n] THEN AddNew(points, tried[n]) ELSE points
             Lists == Seq(P)
             step == [n \in 1 .. N |-> [points \in Lists |-> Turn(n, points)]]
             IsHistory(h) == h = [n \in 0 .. N |-> IF n = 0 THEN first ELSE Turn(n, h[n - 1])]
  <1>1. N \in Nat /\ DOMAIN tried = 1 .. N
    OBVIOUS
  <1>2. ASSUME NEW n \in 1 .. N, NEW points \in Lists
        PROVE  Turn(n, points) \in Lists
    <2>1. tried[n] \in P /\ points \in Seq(P)
      BY <1>1
    <2>2. AddNew(points, tried[n]) \in Seq(P)
      BY <2>1, AddNewPoint
    <2> QED
      BY <2>1, <2>2
  <1> HIDE DEF Turn, N, Lists
  <1>3. step \in [1 .. N -> [Lists -> Lists]]
    BY <1>2
  <1>4. \A n \in 1 .. N : \A points \in Lists : step[n][points] = Turn(n, points)
    OBVIOUS
  <1> HIDE DEF step
  <1>5. PICK h \in [0 .. N -> Lists] :
          IsLoop(h, N, first, step)
    <2>1. first \in Lists
      BY DEF Lists
    <2>2. N \in Nat
      BY <1>1
    <2> QED
      BY <1>3, <2>1, <2>2, LoopExists
  <1>6. \A n \in 1 .. N : n - 1 \in 0 .. N /\ h[n - 1] \in Lists
    BY <1>1
  <1>7. \A n \in 1 .. N : h[n] = Turn(n, h[n - 1])
    BY <1>4, <1>5, <1>6 DEF IsLoop
  <1>8. h[0] = first /\ IsHistory(h)
    BY <1>1, <1>5, <1>7 DEF IsLoop
  <1> DEFINE g == CHOOSE f : IsHistory(f)
  <1>9. IsHistory(g)
    <2> HIDE DEF IsHistory
    <2> QED
      BY <1>8
  <1>10. Collect(first, tried, kept) = g[N]
    BY DEF Collect, Turn, N
  <1>11. g[0] = first /\ \A n \in 1 .. N : g[n] = Turn(n, g[n - 1])
    <2> HIDE DEF g
    <2>1. \A n \in 0 .. N : g[n] = IF n = 0 THEN first ELSE Turn(n, g[n - 1])
      BY <1>9
    <2> QED
      BY <1>1, <2>1
  <1> HIDE DEF g
  <1> DEFINE T == { n \in 0 .. N : g[n] = h[n] }
  <1>12. 0 \in T
    BY <1>1, <1>8, <1>11
  <1>13. ASSUME NEW n \in 1 .. N, n - 1 \in T
         PROVE  n \in T
    BY <1>7, <1>11, <1>13
  <1>14. N \in T
    <2> HIDE DEF T
    <2>1. 0 .. N \subseteq T
      BY <1>1, <1>12, <1>13, UpTo
    <2> QED
      BY <1>1, <2>1
  <1>15. Collect(first, tried, kept) = h[N]
    BY <1>10, <1>14
  <1> QED
    BY <1>7, <1>8, <1>15 DEF N, Turn, Lists

\* What Collect returns: what it was given, then points it tried, of those to be
\* kept every hash and no other, each once.
LEMMA Collected ==
  ASSUME NEW P, NEW first \in Seq(P), NEW tried \in Seq(P),
         NEW kept \in [DOMAIN tried -> BOOLEAN], NoneTwice(first)
  PROVE  LET points == Collect(first, tried, kept)
         IN /\ points \in Seq(P)
            /\ NoneTwice(points)
            /\ HashesIn(points) = HashesIn(first) \cup
                 { tried[n].hash : n \in { k \in DOMAIN tried : kept[k] } }
            /\ Range(points) \subseteq Range(first) \cup Range(tried)
            /\ DOMAIN first \subseteq DOMAIN points
            /\ \A n \in DOMAIN first : points[n] = first[n]
  <1> DEFINE N == Len(tried)
             Hashes(m) == { tried[n].hash : n \in { k \in 1 .. m : kept[k] } }
             SoFar(m, points) ==
               /\ NoneTwice(points)
               /\ HashesIn(points) = HashesIn(first) \cup Hashes(m)
               /\ Range(points) \subseteq Range(first) \cup Range(tried)
               /\ Len(first) <= Len(points)
               /\ \A n \in DOMAIN first : points[n] = first[n]
  <1>1. N \in Nat /\ DOMAIN tried = 1 .. N
    OBVIOUS
  <1>2. PICK h \in [0 .. N -> Seq(P)] :
          /\ h[0] = first
          /\ \A n \in 1 .. N :
               h[n] = IF kept[n] THEN AddNew(h[n - 1], tried[n]) ELSE h[n - 1]
          /\ Collect(first, tried, kept) = h[N]
    BY CollectLoop
  <1>3. Hashes(0) = {} /\ \A m \in 1 .. N :
          Hashes(m) = IF kept[m] THEN Hashes(m - 1) \cup {tried[m].hash} ELSE Hashes(m - 1)
    <2>1. ASSUME NEW m \in 1 .. N
          PROVE  Hashes(m) = IF kept[m] THEN Hashes(m - 1) \cup {tried[m].hash}
                                        ELSE Hashes(m - 1)
      <3>1. 1 .. m = (1 .. m - 1) \cup {m}
        OBVIOUS
      <3> QED
        BY <3>1
    <2> QED
      BY <2>1
  <1> HIDE DEF Hashes, N
  <1> DEFINE T == { m \in 0 .. N : SoFar(m, h[m]) }
  <1>4. 0 \in T
    BY <1>1, <1>2, <1>3
  <1>5. ASSUME NEW m \in 1 .. N, m - 1 \in T
        PROVE  m \in T
    <2> DEFINE old == h[m - 1]
               new == h[m]
    <2>1. m \in DOMAIN tried /\ tried[m] \in P /\ kept[m] \in BOOLEAN /\ m - 1 \in 0 .. N
          /\ tried[m] \in Range(tried)
      BY <1>1 DEF Range
    <2>2. old \in Seq(P) /\ new = IF kept[m] THEN AddNew(old, tried[m]) ELSE old
      BY <1>2, <2>1
    <2>3. SoFar(m - 1, old)
      BY <1>5
    <2> HIDE DEF old, new
    <2>4. CASE ~ kept[m]
      <3>1. Hashes(m) = Hashes(m - 1) /\ new = old
        BY <1>3, <2>2, <2>4
      <3>2. SoFar(m, new)
        BY <2>3, <3>1
      <3> QED
        BY <3>2 DEF new
    <2>5. CASE kept[m]
      <3>1. Hashes(m) = Hashes(m - 1) \cup {tried[m].hash} /\ new = AddNew(old, tried[m])
        BY <1>3, <2>2, <2>5
      <3>2. /\ new \in Seq(P)
            /\ HashesIn(new) = HashesIn(old) \cup {tried[m].hash}
            /\ NoneTwice(old) => NoneTwice(new)
            /\ Len(old) <= Len(new)
            /\ \A n \in DOMAIN old : new[n] = old[n]
            /\ Range(new) \subseteq Range(old) \cup {tried[m]}
        <4> DEFINE point == tried[m]
        <4>1. point \in P /\ old \in Seq(P) /\ new = AddNew(old, point)
          BY <2>1, <2>2, <3>1
        <4> HIDE DEF point
        <4>2. /\ AddNew(old, point) \in Seq(P)
              /\ HashesIn(AddNew(old, point)) = HashesIn(old) \cup {point.hash}
              /\ NoneTwice(old) => NoneTwice(AddNew(old, point))
              /\ Len(old) <= Len(AddNew(old, point))
              /\ \A n \in DOMAIN old : AddNew(old, point)[n] = old[n]
              /\ Range(AddNew(old, point)) \subseteq Range(old) \cup {point}
          BY <4>1, AddNewPoint
        <4> QED
          BY <4>1, <4>2 DEF point
      <3>3. DOMAIN first \subseteq DOMAIN old /\ Len(first) <= Len(new)
        BY <2>2, <2>3, <3>2
      <3>4. \A n \in DOMAIN first : new[n] = first[n]
        BY <2>3, <3>2, <3>3
      <3>5. HashesIn(new) = HashesIn(first) \cup Hashes(m)
        BY <2>3, <3>1, <3>2
      <3>6. Range(new) \subseteq Range(first) \cup Range(tried)
        BY <2>1, <2>3, <3>2
      <3>7. SoFar(m, new)
        BY <2>3, <3>2, <3>3, <3>4, <3>5, <3>6
      <3> QED
        BY <3>7 DEF new
    <2> QED
      BY <2>1, <2>4, <2>5
  <1>6. N \in T
    <2> HIDE DEF T
    <2>1. 0 .. N \subseteq T
      BY <1>1, <1>4, <1>5, UpTo
    <2> QED
      BY <1>1, <2>1
  <1>7. SoFar(N, h[N]) /\ h[N] \in Seq(P)
    BY <1>1, <1>6
  <1>8. DOMAIN first \subseteq DOMAIN h[N]
    BY <1>7
  <1>9. Hashes(N) = { tried[n].hash : n \in { k \in DOMAIN tried : kept[k] } }
    BY <1>1 DEF Hashes
  <1> QED
    BY <1>2, <1>7, <1>8, <1>9 DEF N

-----------------------------------------------------------------------------
(* Lists of lists, and products *)

LEMMA ConcatRange ==
  ASSUME NEW S, NEW s \in Seq(S), NEW t \in Seq(S)
  PROVE  s \o t \in Seq(S) /\ Range(s \o t) = Range(s) \cup Range(t)
  <1>1. /\ s \o t \in Seq(S) /\ Len(s \o t) = Len(s) + Len(t)
        /\ \A n \in 1 .. Len(s) + Len(t) :
             (s \o t)[n] = IF n <= Len(s) THEN s[n] ELSE t[n - Len(s)]
    BY ConcatProperties
  <1> DEFINE c == s \o t
  <1>2. /\ DOMAIN c = 1 .. Len(s) + Len(t) /\ DOMAIN s = 1 .. Len(s) /\ DOMAIN t = 1 .. Len(t)
        /\ Len(s) \in Nat /\ Len(t) \in Nat
        /\ \A n \in DOMAIN c : c[n] = IF n <= Len(s) THEN s[n] ELSE t[n - Len(s)]
    BY <1>1
  <1> HIDE DEF c
  <1>3. ASSUME NEW n \in DOMAIN c
        PROVE  c[n] \in Range(s) \cup Range(t)
    <2>1. CASE n <= Len(s)
      BY <2>1, <1>2 DEF Range
    <2>2. CASE ~ (n <= Len(s))
      <3>1. n - Len(s) \in DOMAIN t /\ c[n] = t[n - Len(s)]
        BY <2>2, <1>2
      <3> QED
        BY <3>1 DEF Range
    <2> QED
      BY <2>1, <2>2
  <1>4. ASSUME NEW n \in DOMAIN s
        PROVE  s[n] \in Range(c)
    <2>1. n \in DOMAIN c /\ c[n] = s[n]
      BY <1>2
    <2> QED
      BY <2>1 DEF Range
  <1>5. ASSUME NEW n \in DOMAIN t
        PROVE  t[n] \in Range(c)
    <2> DEFINE k == n + Len(s)
    <2>1. k \in DOMAIN c /\ ~ (k <= Len(s)) /\ k - Len(s) = n
      BY <1>2
    <2>2. c[k] = t[n]
      BY <2>1, <1>2
    <2> HIDE DEF k
    <2> QED
      BY <2>1, <2>2 DEF Range
  <1>6. Range(c) = Range(s) \cup Range(t)
    BY <1>3, <1>4, <1>5 DEF Range
  <1> QED
    BY <1>1, <1>6 DEF c

LEMMA SequenceOf ==
  ASSUME NEW S, NEW N \in Nat, NEW f \in [1 .. N -> S]
  PROVE  f \in Seq(S) /\ Len(f) = N /\ DOMAIN f = 1 .. N
  OBVIOUS

\* A list is flattened by adding one part after the other.
LEMMA FlattenLoop ==
  ASSUME NEW S, NEW seqs \in Seq(Seq(S))
  PROVE  \E h \in [0 .. Len(seqs) -> Seq(S)] :
           /\ h[0] = << >>
           /\ \A n \in 1 .. Len(seqs) : h[n] = h[n - 1] \o seqs[n]
           /\ FlattenSeq(seqs) = h[Len(seqs)]
  <1> DEFINE N == Len(seqs)
             Lists == Seq(S)
             step == [n \in 1 .. N |-> [list \in Lists |-> list \o seqs[n]]]
             IsHistory(f) == f = [i \in 1 .. N |-> IF i = 1 THEN seqs[i] ELSE f[i - 1] \o seqs[i]]
  <1>1. /\ N \in Nat /\ DOMAIN seqs = 1 .. N /\ << >> \in Lists
        /\ \A n \in 1 .. N : seqs[n] \in Lists /\ << >> \o seqs[n] = seqs[n]
    OBVIOUS
  <1>2. \A n \in 1 .. N : \A list \in Lists : list \o seqs[n] \in Lists
    BY <1>1, ConcatRange
  <1>3. N = 0 => FlattenSeq(seqs) = << >>
    <2> SUFFICES ASSUME N = 0
                 PROVE  FlattenSeq(seqs) = << >>
      OBVIOUS
    <2> QED
      BY EmptySeq DEF FlattenSeq
  <1>4. N # 0 => FlattenSeq(seqs) = (CHOOSE f : IsHistory(f))[N]
    BY DEF FlattenSeq
  <1> HIDE DEF Lists, N
  <1>5. step \in [1 .. N -> [Lists -> Lists]]
    BY <1>2
  <1>6. \A n \in 1 .. N : \A list \in Lists : step[n][list] = list \o seqs[n]
    OBVIOUS
  <1> HIDE DEF step
  <1>7. PICK h \in [0 .. N -> Lists] : IsLoop(h, N, << >>, step)
    BY <1>1, <1>5, LoopExists
  <1>8. h[0] = << >> /\ \A n \in 1 .. N : h[n] = h[n - 1] \o seqs[n]
    <2>1. \A n \in 1 .. N : n - 1 \in 0 .. N
      BY <1>1
    <2>2. \A n \in 1 .. N : h[n - 1] \in Lists
      BY <1>7, <2>1
    <2> QED
      BY <1>6, <1>7, <2>2 DEF IsLoop
  <1>9. CASE N = 0
    BY <1>3, <1>8, <1>9 DEF N, Lists
  <1>10. CASE N # 0
    <2> DEFINE f == [i \in 1 .. N |-> h[i]]
    <2>1. f[1] = seqs[1]
      <3>1. 1 \in 1 .. N
        BY <1>1, <1>10
      <3>2. h[1] = h[0] \o seqs[1]
        <4>1. 1 - 1 = 0
          OBVIOUS
        <4> QED
          BY <1>8, <3>1, <4>1
      <3>3. h[1] = seqs[1]
        BY <1>1, <1>8, <3>1, <3>2
      <3> QED
        BY <3>1, <3>3
    <2>2. \A i \in 1 .. N : i = 1 \/ (i - 1 \in 1 .. N /\ i \in 1 .. N)
      BY <1>1
    <2>3. \A i \in 1 .. N : f[i] = IF i = 1 THEN seqs[i] ELSE f[i - 1] \o seqs[i]
      BY <1>8, <2>1, <2>2
    <2>4. f = [i \in 1 .. N |-> f[i]]
      OBVIOUS
    <2> HIDE DEF f
    <2>5. IsHistory(f)
      BY <2>3, <2>4
    <2> DEFINE g == CHOOSE e : IsHistory(e)
    <2>6. IsHistory(g)
      <3> HIDE DEF IsHistory
      <3> QED
        BY <2>5
    <2> HIDE DEF g
    <2>7. \A i \in 1 .. N : g[i] = IF i = 1 THEN seqs[i] ELSE g[i - 1] \o seqs[i]
      BY <2>6
    <2> DEFINE T == { m \in 0 .. N : m = 0 \/ g[m] = h[m] }
    <2>8. 0 \in T
      BY <1>1
    <2>9. ASSUME NEW n \in 1 .. N, n - 1 \in T
          PROVE  n \in T
      <3>1. CASE n = 1
        <4>1. g[1] = seqs[1] /\ 1 \in 0 .. N
          BY <2>7, <3>1
        <4>2. f[1] = h[1]
          BY <3>1 DEF f
        <4> QED
          BY <2>1, <3>1, <4>1, <4>2
      <3>2. CASE n # 1
        <4>1. n \in 0 .. N /\ n - 1 # 0
          BY <1>1, <3>2
        <4>2. g[n - 1] = h[n - 1]
          BY <2>9, <4>1
        <4>3. g[n] = g[n - 1] \o seqs[n] /\ h[n] = h[n - 1] \o seqs[n]
          BY <1>8, <2>7, <3>2
        <4> QED
          BY <4>1, <4>2, <4>3
      <3> QED
        BY <3>1, <3>2
    <2>10. N \in T
      <3> HIDE DEF T
      <3>1. 0 .. N \subseteq T
        BY <1>1, <2>8, <2>9, UpTo
      <3> QED
        BY <1>1, <3>1
    <2>11. FlattenSeq(seqs) = h[N]
      BY <1>4, <1>10, <2>10 DEF g
    <2> QED
      BY <1>8, <2>11 DEF N, Lists
  <1> QED
    BY <1>9, <1>10

\* A flattened list has what its parts have.
LEMMA FlattenRange ==
  ASSUME NEW S, NEW seqs \in Seq(Seq(S))
  PROVE  /\ FlattenSeq(seqs) \in Seq(S)
         /\ Range(FlattenSeq(seqs)) = UNION { Range(seqs[n]) : n \in DOMAIN seqs }
  <1> DEFINE N == Len(seqs)
             Has(m) == UNION { Range(seqs[n]) : n \in 1 .. m }
  <1>1. N \in Nat /\ DOMAIN seqs = 1 .. N /\ \A n \in 1 .. N : seqs[n] \in Seq(S)
    OBVIOUS
  <1>2. PICK h \in [0 .. N -> Seq(S)] :
          /\ h[0] = << >> /\ \A n \in 1 .. N : h[n] = h[n - 1] \o seqs[n]
          /\ FlattenSeq(seqs) = h[N]
    BY FlattenLoop
  <1> DEFINE T == { m \in 0 .. N : Range(h[m]) = Has(m) }
  <1>3. 0 \in T
    <2>1. Has(0) = {} /\ Range(<< >>) = {}
      BY DEF Range
    <2> QED
      BY <1>1, <1>2, <2>1
  <1>4. ASSUME NEW m \in 1 .. N, m - 1 \in T
        PROVE  m \in T
    <2>1. h[m - 1] \in Seq(S) /\ Range(h[m - 1]) = Has(m - 1) /\ h[m] = h[m - 1] \o seqs[m]
      BY <1>1, <1>2, <1>4
    <2>2. Range(h[m]) = Range(h[m - 1]) \cup Range(seqs[m])
      BY <1>1, <2>1, ConcatRange
    <2>3. Has(m) = Has(m - 1) \cup Range(seqs[m])
      <3>1. 1 .. m = (1 .. m - 1) \cup {m}
        BY <1>1
      <3> QED
        BY <3>1
    <2>4. m \in 0 .. N
      BY <1>1
    <2> HIDE DEF Has
    <2> QED
      BY <2>1, <2>2, <2>3, <2>4
  <1>5. N \in T
    <2> HIDE DEF T
    <2>1. 0 .. N \subseteq T
      BY <1>1, <1>3, <1>4, UpTo
    <2> QED
      BY <1>1, <2>1
  <1> QED
    BY <1>1, <1>2, <1>5

\* Where the elements of a flattened list come from, in order: the parts one
\* after the other, each from its first element to its last.
Places(list, seqs, part, place) ==
  /\ \A i \in DOMAIN list : /\ part[i] \in DOMAIN seqs /\ place[i] \in DOMAIN seqs[part[i]]
                            /\ list[i] = seqs[part[i]][place[i]]
  /\ \A i, j \in DOMAIN list :
       i < j => part[i] < part[j] \/ (part[i] = part[j] /\ place[i] < place[j])

LEMMA FlattenPlaces ==
  ASSUME NEW S, NEW seqs \in Seq(Seq(S))
  PROVE  \E part, place \in [DOMAIN FlattenSeq(seqs) -> Nat] :
           Places(FlattenSeq(seqs), seqs, part, place)
  <1> DEFINE N == Len(seqs)
             Placed(list, m) ==
               \E part, place \in [DOMAIN list -> Nat] :
                 Places(list, seqs, part, place) /\ \A i \in DOMAIN list : part[i] <= m
  <1>1. N \in Nat /\ DOMAIN seqs = 1 .. N /\ \A n \in 1 .. N : seqs[n] \in Seq(S)
    OBVIOUS
  <1>2. PICK h \in [0 .. N -> Seq(S)] :
          /\ h[0] = << >> /\ \A n \in 1 .. N : h[n] = h[n - 1] \o seqs[n]
          /\ FlattenSeq(seqs) = h[N]
    BY FlattenLoop
  <1> DEFINE T == { m \in 0 .. N : Placed(h[m], m) }
  <1>3. 0 \in T
    <2> DEFINE none == [i \in {} |-> 0]
    <2>1. DOMAIN h[0] = {} /\ none \in [DOMAIN h[0] -> Nat]
      BY <1>2
    <2>2. Places(h[0], seqs, none, none)
      BY <2>1 DEF Places
    <2>3. \A i \in DOMAIN h[0] : none[i] <= 0
      BY <2>1
    <2> HIDE DEF none
    <2>4. 0 \in 0 .. N
      BY <1>1
    <2> QED
      BY <2>1, <2>2, <2>3, <2>4
  <1>4. ASSUME NEW m \in 1 .. N, m - 1 \in T
        PROVE  m \in T
    <2> DEFINE old == h[m - 1]
               more == seqs[m]
               list == h[m]
               L == Len(old)
    <2>1. m - 1 \in 0 .. N /\ m \in 0 .. N
      BY <1>1
    <2>2. old \in Seq(S) /\ more \in Seq(S) /\ list = old \o more
      BY <1>1, <1>2, <2>1
    <2>3. Placed(old, m - 1)
      BY <1>4
    <2> HIDE DEF old, list
    <2>4. PICK part \in [DOMAIN old -> Nat], place \in [DOMAIN old -> Nat] :
            Places(old, seqs, part, place) /\ \A i \in DOMAIN old : part[i] <= m - 1
      BY <2>3
    <2>5. /\ L \in Nat /\ DOMAIN old = 1 .. L /\ DOMAIN more = 1 .. Len(more) /\ Len(more) \in Nat
          /\ DOMAIN list = 1 .. (L + Len(more))
          /\ \A i \in DOMAIN list : list[i] = IF i <= L THEN old[i] ELSE more[i - L]
      BY <2>2, ConcatProperties
    <2> DEFINE part2 == [i \in DOMAIN list |-> IF i <= L THEN part[i] ELSE m]
               place2 == [i \in DOMAIN list |-> IF i <= L THEN place[i] ELSE i - L]
    <2> HIDE DEF more, L
    <2>6. \A i \in DOMAIN list : IF i <= L THEN i \in DOMAIN old ELSE i - L \in DOMAIN more
      BY <2>5
    <2>7. part2 \in [DOMAIN list -> Nat] /\ place2 \in [DOMAIN list -> Nat]
      <3>1. \A i \in DOMAIN list : part2[i] \in Nat /\ place2[i] \in Nat
        BY <2>1, <2>5, <2>6
      <3> QED
        BY <3>1
    <2>8. /\ \A i \in DOMAIN list : i <= L => part2[i] = part[i] /\ place2[i] = place[i]
          /\ \A i \in DOMAIN list : ~ (i <= L) => part2[i] = m /\ place2[i] = i - L
      OBVIOUS
    <2> HIDE DEF part2, place2
    <2>9. ASSUME NEW i \in DOMAIN list
          PROVE  /\ part2[i] \in DOMAIN seqs /\ place2[i] \in DOMAIN seqs[part2[i]]
                 /\ list[i] = seqs[part2[i]][place2[i]]
                 /\ part2[i] <= m
      <3>1. CASE i <= L
        <4>1. i \in DOMAIN old
          BY <2>6, <3>1
        <4>2. /\ part[i] \in DOMAIN seqs /\ place[i] \in DOMAIN seqs[part[i]]
              /\ old[i] = seqs[part[i]][place[i]] /\ part[i] <= m - 1 /\ part[i] \in Nat
          BY <2>4, <4>1 DEF Places
        <4> QED
          BY <2>5, <2>8, <3>1, <4>2
      <3>2. CASE ~ (i <= L)
        BY <1>1, <2>5, <2>6, <2>8, <3>2 DEF more
      <3> QED
        BY <3>1, <3>2
    <2>10. ASSUME NEW i \in DOMAIN list, NEW j \in DOMAIN list, i < j
           PROVE  part2[i] < part2[j] \/ (part2[i] = part2[j] /\ place2[i] < place2[j])
      <3>1. CASE j <= L
        <4>1. i \in DOMAIN old /\ j \in DOMAIN old /\ i <= L
          BY <2>5, <2>6, <2>10, <3>1
        <4>2. part[i] < part[j] \/ (part[i] = part[j] /\ place[i] < place[j])
          BY <2>4, <2>10, <4>1 DEF Places
        <4> QED
          BY <2>8, <3>1, <4>1, <4>2
      <3>2. CASE i <= L /\ ~ (j <= L)
        <4>1. i \in DOMAIN old /\ part[i] <= m - 1 /\ part[i] \in Nat
          BY <2>4, <2>6, <3>2
        <4> QED
          BY <2>8, <3>2, <4>1
      <3>3. CASE ~ (i <= L)
        <4>1. ~ (j <= L) /\ i - L < j - L
          BY <2>5, <2>10, <3>3
        <4> QED
          BY <2>8, <3>3, <4>1
      <3> QED
        BY <3>1, <3>2, <3>3
    <2>11. Places(list, seqs, part2, place2)
      BY <2>9, <2>10 DEF Places
    <2>12. Placed(list, m)
      BY <2>7, <2>9, <2>11
    <2> HIDE DEF Placed
    <2> QED
      BY <2>1, <2>12 DEF list
  <1>5. N \in T
    <2> HIDE DEF T
    <2>1. 0 .. N \subseteq T
      BY <1>1, <1>3, <1>4, UpTo
    <2> QED
      BY <1>1, <2>1
  <1> QED
    BY <1>2, <1>5

\* Parts of one length.
LEMMA FlattenLength ==
  ASSUME NEW S, NEW seqs \in Seq(Seq(S)), NEW K \in Nat,
         \A n \in DOMAIN seqs : Len(seqs[n]) = K
  PROVE  Len(FlattenSeq(seqs)) = Len(seqs) * K
  <1> DEFINE N == Len(seqs)
  <1>1. N \in Nat /\ DOMAIN seqs = 1 .. N /\ \A n \in 1 .. N : seqs[n] \in Seq(S)
    OBVIOUS
  <1>2. PICK h \in [0 .. N -> Seq(S)] :
          /\ h[0] = << >> /\ \A n \in 1 .. N : h[n] = h[n - 1] \o seqs[n]
          /\ FlattenSeq(seqs) = h[N]
    BY FlattenLoop
  <1> DEFINE T == { m \in 0 .. N : Len(h[m]) = m * K }
  <1>3. 0 \in T
    BY <1>1, <1>2
  <1>4. ASSUME NEW m \in 1 .. N, m - 1 \in T
        PROVE  m \in T
    <2>1. m - 1 \in 0 .. N /\ m \in 0 .. N
      BY <1>1
    <2>2. h[m - 1] \in Seq(S) /\ seqs[m] \in Seq(S) /\ h[m] = h[m - 1] \o seqs[m]
      BY <1>1, <1>2, <2>1
    <2>3. Len(h[m]) = Len(h[m - 1]) + Len(seqs[m])
      BY <2>2, ConcatProperties
    <2>4. Len(h[m - 1]) = (m - 1) * K /\ Len(seqs[m]) = K
      BY <1>1, <1>4
    <2>5. (m - 1) * K + K = m * K
      BY <2>1
    <2> QED
      BY <2>1, <2>3, <2>4, <2>5
  <1>5. N \in T
    <2> HIDE DEF T
    <2>1. 0 .. N \subseteq T
      BY <1>1, <1>3, <1>4, UpTo
    <2> QED
      BY <1>1, <2>1
  <1> QED
    BY <1>2, <1>5

-----------------------------------------------------------------------------
(* Filtered lists *)

LEMMA WhereLoop ==
  ASSUME NEW S, NEW seq \in Seq(S), NEW kept \in [DOMAIN seq -> BOOLEAN]
  PROVE  \E h \in [0 .. Len(seq) -> Seq(S)] :
           /\ h[0] = << >>
           /\ \A n \in 1 .. Len(seq) :
                h[n] = IF kept[n] THEN Append(h[n - 1], seq[n]) ELSE h[n - 1]
           /\ Where(seq, kept) = h[Len(seq)]
  <1> DEFINE N == Len(seq)
             Turn(n, list) == IF kept[n] THEN Append(list, seq[n]) ELSE list
             Lists == Seq(S)
             step == [n \in 1 .. N |-> [list \in Lists |-> Turn(n, list)]]
             IsHistory(h) == h = [n \in 0 .. N |-> IF n = 0 THEN << >> ELSE Turn(n, h[n - 1])]
  <1>1. N \in Nat /\ DOMAIN seq = 1 .. N
    OBVIOUS
  <1>2. \A n \in 1 .. N : \A list \in Lists : Turn(n, list) \in Lists
    BY <1>1
  <1>3. << >> \in Lists
    OBVIOUS
  <1> HIDE DEF Turn, N, Lists
  <1>4. step \in [1 .. N -> [Lists -> Lists]]
    BY <1>2
  <1>5. \A n \in 1 .. N : \A list \in Lists : step[n][list] = Turn(n, list)
    OBVIOUS
  <1> HIDE DEF step
  <1>6. PICK h \in [0 .. N -> Lists] : IsLoop(h, N, << >>, step)
    BY <1>1, <1>3, <1>4, LoopExists
  <1>7. \A n \in 1 .. N : n - 1 \in 0 .. N /\ h[n - 1] \in Lists
    BY <1>1
  <1>8. h[0] = << >> /\ \A n \in 1 .. N : h[n] = Turn(n, h[n - 1])
    BY <1>5, <1>6, <1>7 DEF IsLoop
  <1>9. IsHistory(h)
    BY <1>1, <1>8
  <1> DEFINE g == CHOOSE f : IsHistory(f)
  <1>10. IsHistory(g)
    <2> HIDE DEF IsHistory
    <2> QED
      BY <1>9
  <1>11. Where(seq, kept) = g[N]
    BY DEF Where, Turn, N
  <1>12. g[0] = << >> /\ \A n \in 1 .. N : g[n] = Turn(n, g[n - 1])
    <2> HIDE DEF g
    <2>1. \A n \in 0 .. N : g[n] = IF n = 0 THEN << >> ELSE Turn(n, g[n - 1])
      BY <1>10
    <2> QED
      BY <1>1, <2>1
  <1> HIDE DEF g
  <1> DEFINE T == { n \in 0 .. N : g[n] = h[n] }
  <1>13. 0 \in T
    BY <1>1, <1>8, <1>12
  <1>14. ASSUME NEW n \in 1 .. N, n - 1 \in T
         PROVE  n \in T
    BY <1>8, <1>12, <1>14
  <1>15. N \in T
    <2> HIDE DEF T
    <2>1. 0 .. N \subseteq T
      BY <1>1, <1>13, <1>14, UpTo
    <2> QED
      BY <1>1, <2>1
  <1>16. Where(seq, kept) = h[N]
    BY <1>11, <1>15
  <1> QED
    BY <1>8, <1>16 DEF N, Turn, Lists

\* A filtered list has what was to be kept, in its order.
LEMMA WherePlaces ==
  ASSUME NEW S, NEW seq \in Seq(S), NEW kept \in [DOMAIN seq -> BOOLEAN]
  PROVE  LET list == Where(seq, kept)
         IN /\ list \in Seq(S)
            /\ \E at \in [DOMAIN list -> DOMAIN seq] :
                 /\ \A i \in DOMAIN list : list[i] = seq[at[i]] /\ kept[at[i]]
                 /\ \A i, j \in DOMAIN list : i < j => at[i] < at[j]
                 /\ \A n \in DOMAIN seq : kept[n] => \E i \in DOMAIN list : at[i] = n
  <1> DEFINE N == Len(seq)
             From(list, at, m) ==
               /\ \A i \in DOMAIN list : list[i] = seq[at[i]] /\ kept[at[i]]
               /\ \A i, j \in DOMAIN list : i < j => at[i] < at[j]
               /\ \A n \in 1 .. m : kept[n] => \E i \in DOMAIN list : at[i] = n
             SoFar(list, m) == \E at \in [DOMAIN list -> 1 .. m] : From(list, at, m)
  <1>1. N \in Nat /\ DOMAIN seq = 1 .. N
    OBVIOUS
  <1>2. PICK h \in [0 .. N -> Seq(S)] :
          /\ h[0] = << >>
          /\ \A n \in 1 .. N : h[n] = IF kept[n] THEN Append(h[n - 1], seq[n]) ELSE h[n - 1]
          /\ Where(seq, kept) = h[N]
    BY WhereLoop
  <1> DEFINE T == { m \in 0 .. N : SoFar(h[m], m) }
  <1>3. 0 \in T
    <2> DEFINE at == [i \in {} |-> i]
    <2>1. DOMAIN h[0] = {} /\ at \in [DOMAIN h[0] -> 1 .. 0]
      BY <1>2
    <2>2. From(h[0], at, 0)
      BY <2>1
    <2>3. 0 \in 0 .. N
      BY <1>1
    <2> HIDE DEF at, From
    <2> QED
      BY <2>1, <2>2, <2>3
  <1>4. ASSUME NEW m \in 1 .. N, m - 1 \in T
        PROVE  m \in T
    <2> DEFINE old == h[m - 1]
               list == h[m]
               L == Len(old)
    <2>1. m - 1 \in 0 .. N /\ m \in 0 .. N /\ kept[m] \in BOOLEAN /\ seq[m] \in S
      BY <1>1
    <2>2. old \in Seq(S) /\ list = IF kept[m] THEN Append(old, seq[m]) ELSE old
      BY <1>2, <2>1
    <2>3. SoFar(old, m - 1)
      BY <1>4
    <2> HIDE DEF old, list, N
    <2>4. PICK at \in [DOMAIN old -> 1 .. (m - 1)] : From(old, at, m - 1)
      BY <2>3
    <2>5. 1 .. m = (1 .. (m - 1)) \cup {m} /\ m \notin 1 .. (m - 1)
      BY <2>1
    <2>6. CASE ~ kept[m]
      <3>1. list = old
        BY <2>2, <2>6
      <3>2. at \in [DOMAIN list -> 1 .. m] /\ From(list, at, m)
        BY <2>4, <2>5, <2>6, <3>1
      <3> QED
        BY <2>1, <3>2 DEF list
    <2>7. CASE kept[m]
      <3> DEFINE at2 == [i \in DOMAIN list |-> IF i = L + 1 THEN m ELSE at[i]]
      <3>1. /\ L \in Nat /\ DOMAIN old = 1 .. L /\ DOMAIN list = 1 .. (L + 1)
            /\ \A i \in 1 .. L : list[i] = old[i] /\ i # L + 1
            /\ list[L + 1] = seq[m]
        BY <2>1, <2>2, <2>7
      <3> HIDE DEF L
      <3>2. 1 .. (L + 1) = (1 .. L) \cup {L + 1}
        BY <3>1
      <3>3. at2 \in [DOMAIN list -> 1 .. m]
        <4>1. \A i \in DOMAIN list : at2[i] \in 1 .. m
          BY <2>5, <3>1, <3>2
        <4> QED
          BY <4>1
      <3>4. at2[L + 1] = m /\ \A i \in 1 .. L : at2[i] = at[i]
        BY <3>1, <3>2
      <3> HIDE DEF at2
      <3>5. \A i \in DOMAIN list : list[i] = seq[at2[i]] /\ kept[at2[i]]
        BY <2>4, <2>7, <3>1, <3>2, <3>4
      <3>6. ASSUME NEW i \in DOMAIN list, NEW j \in DOMAIN list, i < j
            PROVE  at2[i] < at2[j]
        <4>1. i \in 1 .. L
          BY <3>1, <3>6
        <4>2. at[i] \in 1 .. (m - 1) /\ at2[i] = at[i]
          BY <3>1, <3>4, <4>1
        <4>3. CASE j = L + 1
          BY <2>1, <3>4, <4>2, <4>3
        <4>4. CASE j \in 1 .. L
          BY <2>4, <3>1, <3>4, <3>6, <4>1, <4>4
        <4> QED
          BY <3>1, <3>2, <4>3, <4>4
      <3>7. \A n \in 1 .. m : kept[n] => \E i \in DOMAIN list : at2[i] = n
        <4>1. ASSUME NEW n \in 1 .. (m - 1), kept[n]
              PROVE  \E i \in DOMAIN list : at2[i] = n
          <5>1. PICK i \in DOMAIN old : at[i] = n
            BY <2>4, <4>1
          <5> QED
            BY <3>1, <3>2, <3>4, <5>1
        <4>2. \E i \in DOMAIN list : at2[i] = m
          BY <3>1, <3>2, <3>4
        <4> QED
          BY <2>5, <4>1, <4>2
      <3>8. From(list, at2, m)
        BY <3>5, <3>6, <3>7
      <3> HIDE DEF From
      <3> QED
        BY <2>1, <3>3, <3>8 DEF list
    <2> QED
      BY <2>1, <2>6, <2>7
  <1>5. N \in T
    <2> HIDE DEF T
    <2>1. 0 .. N \subseteq T
      BY <1>1, <1>3, <1>4, UpTo
    <2> QED
      BY <1>1, <2>1
  <1>6. h[N] \in Seq(S) /\ SoFar(h[N], N)
    BY <1>1, <1>5
  <1> DEFINE list == h[N]
  <1>7. list = Where(seq, kept)
    BY <1>2
  <1> HIDE DEF list, N, SoFar
  <1>8. list \in Seq(S) /\ SoFar(list, N)
    BY <1>6 DEF list
  <1>9. \E at \in [DOMAIN list -> DOMAIN seq] :
          /\ \A i \in DOMAIN list : list[i] = seq[at[i]] /\ kept[at[i]]
          /\ \A i, j \in DOMAIN list : i < j => at[i] < at[j]
          /\ \A n \in DOMAIN seq : kept[n] => \E i \in DOMAIN list : at[i] = n
    <2>1. PICK at \in [DOMAIN list -> 1 .. N] : From(list, at, N)
      BY <1>8 DEF SoFar
    <2>2. at \in [DOMAIN list -> DOMAIN seq]
      BY <1>1
    <2>3. /\ \A i \in DOMAIN list : list[i] = seq[at[i]] /\ kept[at[i]]
          /\ \A i, j \in DOMAIN list : i < j => at[i] < at[j]
          /\ \A n \in DOMAIN seq : kept[n] => \E i \in DOMAIN list : at[i] = n
      BY <1>1, <2>1
    <2> QED
      BY <2>2, <2>3
  <1> QED
    BY <1>7, <1>8, <1>9

\* The list is what is kept of seq, its i-th the at[i]-th of seq.
Sublist(list, seq, kept, at) ==
  /\ at \in [DOMAIN list -> DOMAIN seq]
  /\ \A i \in DOMAIN list : list[i] = seq[at[i]] /\ kept[at[i]]
  /\ \A i, j \in DOMAIN list : i < j => at[i] < at[j]
  /\ \A n \in DOMAIN seq : kept[n] => \E i \in DOMAIN list : at[i] = n

LEMMA WhereSublist ==
  ASSUME NEW S, NEW seq \in Seq(S), NEW kept \in [DOMAIN seq -> BOOLEAN]
  PROVE  Where(seq, kept) \in Seq(S) /\ \E at : Sublist(Where(seq, kept), seq, kept, at)
  <1> DEFINE list == Where(seq, kept)
  <1>1. /\ list \in Seq(S)
        /\ \E at \in [DOMAIN list -> DOMAIN seq] :
             /\ \A i \in DOMAIN list : list[i] = seq[at[i]] /\ kept[at[i]]
             /\ \A i, j \in DOMAIN list : i < j => at[i] < at[j]
             /\ \A n \in DOMAIN seq : kept[n] => \E i \in DOMAIN list : at[i] = n
    BY WherePlaces
  <1> HIDE DEF list
  <1>2. \E at : Sublist(list, seq, kept, at)
    BY <1>1 DEF Sublist
  <1> QED
    BY <1>1, <1>2 DEF list

-----------------------------------------------------------------------------
(* One candidate at a time *)

\* The overrides of one candidate.
OneOverride(b) ==
  UNION { { Single(c.name, v) : v \in Range(c.values) } : c \in Range(b.candidate) }

\* The loops of generate_ofat go through the overrides of one candidate.
LEMMA OfatTries ==
  ASSUME NEW b, DeclaresLists(b)
  PROVE  /\ OfatSteps(b) \in Seq(OneOverride(b))
         /\ Range(OfatSteps(b)) = OneOverride(b)
  <1> DEFINE cand == b.candidate
             N == Len(cand)
             S == OneOverride(b)
             Of(n) == [m \in DOMAIN cand[n].values |-> Single(cand[n].name, cand[n].values[m])]
             seqs == [n \in DOMAIN cand |-> Of(n)]
  <1>1. /\ N \in Nat /\ DOMAIN cand = 1 .. N
        /\ \A n \in 1 .. N : cand[n] \in Range(cand)
        /\ Range(cand) = { cand[n] : n \in 1 .. N }
    <2>1. cand \in Seq(Range(cand))
      BY DEF DeclaresLists, IsList
    <2>2. N \in Nat /\ DOMAIN cand = 1 .. N
      BY <2>1
    <2> QED
      BY <2>2 DEF Range
  <1>2. ASSUME NEW n \in 1 .. N
        PROVE  /\ Of(n) \in Seq(S)
               /\ Range(Of(n)) = { Single(cand[n].name, v) : v \in Range(cand[n].values) }
    <2> DEFINE c == cand[n]
               K == Len(c.values)
    <2>1. c \in Range(cand)
      BY <1>1
    <2>2. c.values \in Seq(Range(c.values))
      BY <2>1 DEF DeclaresLists, IsList
    <2>3. K \in Nat /\ DOMAIN c.values = 1 .. K
      BY <2>2
    <2>4. \A m \in 1 .. K : Single(c.name, c.values[m]) \in S
      <3>1. \A m \in 1 .. K : c.values[m] \in Range(c.values)
        BY <2>3 DEF Range
      <3> HIDE DEF c
      <3> QED
        BY <2>1, <3>1 DEF OneOverride
    <2>5. Of(n) = [m \in 1 .. K |-> Single(c.name, c.values[m])]
      BY <2>3
    <2> HIDE DEF S
    <2>6. Of(n) \in Seq(S)
      BY <2>3, <2>4, <2>5, SequenceOf
    <2>7. Range(Of(n)) = { Single(c.name, v) : v \in Range(c.values) }
      BY DEF Range
    <2> QED
      BY <2>6, <2>7
  <1> HIDE DEF Of, S
  <1>3. seqs \in Seq(Seq(S)) /\ DOMAIN seqs = 1 .. N /\ \A n \in 1 .. N : seqs[n] = Of(n)
    <2>1. seqs = [n \in 1 .. N |-> Of(n)]
      BY <1>1
    <2> QED
      BY <1>1, <1>2, <2>1, SequenceOf
  <1>4. OfatSteps(b) = FlattenSeq(seqs)
    BY DEF OfatSteps, Of
  <1> HIDE DEF seqs
  <1>5. /\ FlattenSeq(seqs) \in Seq(S)
        /\ Range(FlattenSeq(seqs)) = UNION { Range(seqs[n]) : n \in DOMAIN seqs }
    BY <1>3, FlattenRange
  <1>6. UNION { Range(seqs[n]) : n \in DOMAIN seqs } = S
    <2> DEFINE Ways(c) == { Single(c.name, v) : v \in Range(c.values) }
    <2>1. \A n \in 1 .. N : Range(seqs[n]) = Ways(cand[n])
      BY <1>2, <1>3
    <2>2. S = UNION { Ways(c) : c \in Range(cand) }
      BY DEF S, OneOverride
    <2> HIDE DEF cand, Ways
    <2>3. UNION { Range(seqs[n]) : n \in DOMAIN seqs } = UNION { Ways(cand[n]) : n \in 1 .. N }
      BY <1>3, <2>1
    <2>4. UNION { Ways(c) : c \in Range(cand) } = UNION { Ways(cand[n]) : n \in 1 .. N }
      BY <1>1
    <2> QED
      BY <2>2, <2>3, <2>4
  <1> QED
    BY <1>4, <1>5, <1>6 DEF S

\* generate_ofat: the baseline first, then every legal configuration of one
\* override that is not the baseline's value, each once.
LEMMA OfatPoints ==
  ASSUME NEW b, DeclaresLists(b)
  PROVE  LET points == GenerateOfat(b)
             P == { BaselinePoint(b) } \cup { OfatPoint(b, o) : o \in OneOverride(b) }
         IN /\ points \in Seq(P)
            /\ NoneTwice(points)
            /\ 1 \in DOMAIN points /\ points[1] = BaselinePoint(b)
            /\ HashesIn(points) = { Assemble(b, NoArgs) } \cup
                 { Assemble(b, o) : o \in { q \in OneOverride(b) :
                     ~ IsBaseline(b, q) /\ IsValid(b, Assemble(b, q)) } }
  <1> DEFINE steps == OfatSteps(b)
             P == { BaselinePoint(b) } \cup { OfatPoint(b, o) : o \in OneOverride(b) }
             Keep(o) == ~ IsBaseline(b, o) /\ IsValid(b, Assemble(b, o))
             first == << BaselinePoint(b) >>
             tried == [n \in DOMAIN steps |-> OfatPoint(b, steps[n])]
             kept == [n \in DOMAIN steps |-> Keep(steps[n])]
             N == Len(steps)
  <1>1. N \in Nat /\ DOMAIN steps = 1 .. N /\ (\A n \in 1 .. N : steps[n] \in OneOverride(b))
        /\ { steps[n] : n \in 1 .. N } = OneOverride(b)
    <2>1. steps \in Seq(OneOverride(b)) /\ Range(steps) = OneOverride(b)
      BY OfatTries
    <2> HIDE DEF steps
    <2>2. N \in Nat /\ DOMAIN steps = 1 .. N /\ \A n \in 1 .. N : steps[n] \in OneOverride(b)
      BY <2>1
    <2> QED
      BY <2>1, <2>2 DEF Range
  <1>2. \A o \in OneOverride(b) : OfatPoint(b, o) \in P /\ OfatPoint(b, o).hash = Assemble(b, o)
    BY DEF OfatPoint, Point
  <1>3. BaselinePoint(b) \in P /\ BaselinePoint(b).hash = Assemble(b, NoArgs)
    BY DEF BaselinePoint, Point
  <1>4. GenerateOfat(b) = Collect(first, tried, kept)
    BY DEF GenerateOfat
  <1> HIDE DEF steps, P, N
  <1>5. tried \in Seq(P) /\ DOMAIN tried = 1 .. N
        /\ \A n \in 1 .. N : tried[n] = OfatPoint(b, steps[n])
    <2>1. tried = [n \in 1 .. N |-> OfatPoint(b, steps[n])]
      BY <1>1
    <2> QED
      BY <1>1, <1>2, <2>1, SequenceOf
  <1>6. kept \in [DOMAIN tried -> BOOLEAN] /\ \A n \in 1 .. N : kept[n] = Keep(steps[n])
    <2>1. \A o : Keep(o) \in BOOLEAN
      BY DEF IsBaseline, IsValid
    <2> HIDE DEF Keep
    <2> QED
      BY <1>1, <1>5, <2>1
  <1>7. first \in Seq(P) /\ DOMAIN first = {1} /\ first[1] = BaselinePoint(b)
    BY <1>3
  <1>8. NoneTwice(first) /\ HashesIn(first) = { Assemble(b, NoArgs) }
    <2>1. Range(first) = { BaselinePoint(b) }
      BY <1>7 DEF Range
    <2> HIDE DEF first
    <2> QED
      BY <1>3, <1>7, <2>1 DEF NoneTwice, HashesIn
  <1> HIDE DEF first, tried, kept, Keep
  <1> DEFINE points == Collect(first, tried, kept)
  <1>9. /\ points \in Seq(P)
        /\ NoneTwice(points)
        /\ HashesIn(points) = HashesIn(first) \cup
             { tried[n].hash : n \in { k \in DOMAIN tried : kept[k] } }
        /\ DOMAIN first \subseteq DOMAIN points
        /\ \A n \in DOMAIN first : points[n] = first[n]
    <2>1. /\ first \in Seq(P) /\ tried \in Seq(P) /\ kept \in [DOMAIN tried -> BOOLEAN]
          /\ NoneTwice(first)
      BY <1>5, <1>6, <1>7, <1>8
    <2> HIDE DEF points
    <2>2. points = Collect(first, tried, kept)
      BY DEF points
    <2> QED
      BY <2>1, <2>2, Collected
  <1>10. { tried[n].hash : n \in { k \in DOMAIN tried : kept[k] } }
           = { Assemble(b, o) : o \in { q \in OneOverride(b) : Keep(q) } }
    <2>1. \A n \in 1 .. N : tried[n].hash = Assemble(b, steps[n]) /\ kept[n] = Keep(steps[n])
      BY <1>1, <1>2, <1>5, <1>6
    <2> QED
      BY <1>1, <1>5, <2>1
  <1> QED
    BY <1>4, <1>7, <1>8, <1>9, <1>10 DEF P, Keep

-----------------------------------------------------------------------------
(* Products *)

Different(names) == \A n, k \in DOMAIN names : names[n] = names[k] => n = k

\* The dicts of some of the names, with values of V.
OverridesOf(names, V) == UNION { [D -> V] : D \in SUBSET names }

LEMMA UpdatedOne ==
  ASSUME NEW Names, NEW V, NEW f \in OverridesOf(Names, V), NEW name \in Names, NEW v \in V
  PROVE  /\ Updated(f, Single(name, v)) \in OverridesOf(Names, V)
         /\ DOMAIN Updated(f, Single(name, v)) = DOMAIN f \cup {name}
         /\ Updated(f, Single(name, v))[name] = v
         /\ \A k \in DOMAIN f \ {name} : Updated(f, Single(name, v))[k] = f[k]
  <1> DEFINE g == Updated(f, Single(name, v))
  <1>1. PICK D \in SUBSET Names : f \in [D -> V]
    BY DEF OverridesOf
  <1>2. g = [k \in D \cup {name} |-> IF k \in {name} THEN v ELSE f[k]]
    BY <1>1 DEF Updated, Single
  <1> HIDE DEF g
  <1>3. g \in [D \cup {name} -> V] /\ D \cup {name} \in SUBSET Names
    BY <1>1, <1>2
  <1>4. g \in OverridesOf(Names, V)
    BY <1>3 DEF OverridesOf
  <1> QED
    BY <1>1, <1>2, <1>4 DEF g

\* One more name: every combination with every value.
LEMMA ExtendedRange ==
  ASSUME NEW Names, NEW V, NEW combos \in Seq(OverridesOf(Names, V)),
         NEW name \in Names, NEW values \in Seq(V)
  PROVE  /\ Extended(combos, name, values) \in Seq(OverridesOf(Names, V))
         /\ Range(Extended(combos, name, values)) =
              UNION { { Updated(f, Single(name, v)) : v \in Range(values) } : f \in Range(combos) }
  <1> DEFINE S == OverridesOf(Names, V)
             N == Len(combos)
             K == Len(values)
             Of(f) == [m \in DOMAIN values |-> Updated(f, Single(name, values[m]))]
             Ways(f) == { Updated(f, Single(name, v)) : v \in Range(values) }
             seqs == [n \in DOMAIN combos |-> Of(combos[n])]
  <1>1. /\ N \in Nat /\ DOMAIN combos = 1 .. N
        /\ \A n \in 1 .. N : combos[n] \in S
        /\ Range(combos) = { combos[n] : n \in 1 .. N }
    <2>1. N \in Nat /\ DOMAIN combos = 1 .. N /\ \A n \in 1 .. N : combos[n] \in S
      OBVIOUS
    <2> QED
      BY <2>1 DEF Range
  <1>2. /\ K \in Nat /\ DOMAIN values = 1 .. K
        /\ \A m \in 1 .. K : values[m] \in V /\ values[m] \in Range(values)
    BY DEF Range
  <1>3. ASSUME NEW f \in S
        PROVE  Of(f) \in Seq(S) /\ Range(Of(f)) = Ways(f)
    <2>1. \A m \in 1 .. K : Updated(f, Single(name, values[m])) \in S
      BY <1>2, UpdatedOne
    <2>2. Of(f) = [m \in 1 .. K |-> Updated(f, Single(name, values[m]))]
      BY <1>2
    <2> HIDE DEF S, K
    <2>3. Of(f) \in Seq(S)
      BY <1>2, <2>1, <2>2, SequenceOf
    <2>4. Range(Of(f)) = Ways(f)
      BY DEF Range
    <2> QED
      BY <2>3, <2>4
  <1> HIDE DEF Of, S
  <1>4. seqs \in Seq(Seq(S)) /\ DOMAIN seqs = 1 .. N /\ \A n \in 1 .. N : seqs[n] = Of(combos[n])
    <2>1. seqs = [n \in 1 .. N |-> Of(combos[n])]
      BY <1>1
    <2> QED
      BY <1>1, <1>3, <2>1, SequenceOf
  <1>5. Extended(combos, name, values) = FlattenSeq(seqs)
    BY DEF Extended, Of
  <1> HIDE DEF seqs, Ways
  <1>6. /\ FlattenSeq(seqs) \in Seq(S)
        /\ Range(FlattenSeq(seqs)) = UNION { Range(seqs[n]) : n \in DOMAIN seqs }
    BY <1>4, FlattenRange
  <1>7. \A n \in 1 .. N : Range(seqs[n]) = Ways(combos[n])
    BY <1>1, <1>3, <1>4
  <1>8. UNION { Range(seqs[n]) : n \in DOMAIN seqs } = UNION { Ways(combos[n]) : n \in 1 .. N }
    BY <1>4, <1>7
  <1>9. UNION { Ways(f) : f \in Range(combos) } = UNION { Ways(combos[n]) : n \in 1 .. N }
    BY <1>1
  <1> QED
    BY <1>5, <1>6, <1>8, <1>9 DEF S, Ways

\* The ways to pick, for each of the first m names, one of its choices.
Picked(names, choices, V, m) ==
  { f \in [{ names[n] : n \in 1 .. m } -> V] :
      \A n \in 1 .. m : f[names[n]] \in Range(choices[n]) }

\* The product is extended by one name after the other.
IsProductLoop(h, Names, V, names, choices) ==
  /\ h \in [0 .. Len(names) -> Seq(OverridesOf(Names, V))]
  /\ h[0] = << NoArgs >>
  /\ \A n \in 1 .. Len(names) : h[n] = Extended(h[n - 1], names[n], choices[n])
  /\ \A m \in 0 .. Len(names) : Range(h[m]) = Picked(names, choices, V, m)
  /\ Product(names, choices) = h[Len(names)]

LEMMA ProductLoop ==
  ASSUME NEW Names, NEW V, NEW names \in Seq(Names), NEW choices \in [DOMAIN names -> Seq(V)],
         Different(names)
  PROVE  \E h : IsProductLoop(h, Names, V, names, choices)
  <1> DEFINE N == Len(names)
             F == OverridesOf(Names, V)
             Lists == Seq(F)
             First(m) == { names[n] : n \in 1 .. m }
             Picks(m) == { f \in [First(m) -> V] :
                             \A n \in 1 .. m : f[names[n]] \in Range(choices[n]) }
             step == [n \in 1 .. N |-> [list \in Lists |-> Extended(list, names[n], choices[n])]]
             IsHistory(h) == h = [n \in 0 .. N |-> IF n = 0 THEN << NoArgs >>
                                                   ELSE Extended(h[n - 1], names[n], choices[n])]
  <1>1. N \in Nat /\ DOMAIN names = 1 .. N
        /\ \A n \in 1 .. N : names[n] \in Names /\ choices[n] \in Seq(V)
    OBVIOUS
  <1>2. NoArgs \in F /\ DOMAIN NoArgs = {} /\ << NoArgs >> \in Lists /\ Range(<< NoArgs >>) = { NoArgs }
    <2>1. NoArgs \in [{} -> V] /\ DOMAIN NoArgs = {}
      BY DEF NoArgs
    <2>2. {} \in SUBSET Names
      OBVIOUS
    <2>3. NoArgs \in F
      BY <2>1, <2>2 DEF OverridesOf
    <2> HIDE DEF F
    <2> QED
      BY <2>1, <2>3 DEF Range
  <1>3. ASSUME NEW n \in 1 .. N, NEW list \in Lists
        PROVE  /\ Extended(list, names[n], choices[n]) \in Lists
               /\ Range(Extended(list, names[n], choices[n])) =
                    UNION { { Updated(f, Single(names[n], v)) : v \in Range(choices[n]) } :
                              f \in Range(list) }
    <2>1. names[n] \in Names /\ choices[n] \in Seq(V) /\ list \in Seq(OverridesOf(Names, V))
      BY <1>1
    <2> QED
      BY <2>1, ExtendedRange
  <1> HIDE DEF N, Lists
  <1>4. step \in [1 .. N -> [Lists -> Lists]]
    BY <1>3
  <1>5. \A n \in 1 .. N : \A list \in Lists : step[n][list] = Extended(list, names[n], choices[n])
    OBVIOUS
  <1> HIDE DEF step
  <1>6. PICK h \in [0 .. N -> Lists] : IsLoop(h, N, << NoArgs >>, step)
    BY <1>1, <1>2, <1>4, LoopExists
  <1>7. \A n \in 1 .. N : n - 1 \in 0 .. N /\ h[n - 1] \in Lists
    BY <1>1
  <1>8. h[0] = << NoArgs >> /\ \A n \in 1 .. N : h[n] = Extended(h[n - 1], names[n], choices[n])
    BY <1>5, <1>6, <1>7 DEF IsLoop
  <1>9. IsHistory(h)
    <2>1. h = [n \in 0 .. N |-> h[n]]
      OBVIOUS
    <2>2. \A n \in 0 .. N : n = 0 \/ n \in 1 .. N
      BY <1>1
    <2>3. \A n \in 0 .. N : h[n] = IF n = 0 THEN << NoArgs >>
                                    ELSE Extended(h[n - 1], names[n], choices[n])
      BY <1>8, <2>2
    <2> QED
      BY <2>1, <2>3
  <1> DEFINE g == CHOOSE e : IsHistory(e)
  <1>10. IsHistory(g)
    <2> HIDE DEF IsHistory
    <2> QED
      BY <1>9
  <1>11. Product(names, choices) = g[N]
    BY DEF Product, N
  <1>12. g[0] = << NoArgs >> /\ \A n \in 1 .. N : g[n] = Extended(g[n - 1], names[n], choices[n])
    <2> HIDE DEF g
    <2>1. \A n \in 0 .. N : g[n] = IF n = 0 THEN << NoArgs >>
                                   ELSE Extended(g[n - 1], names[n], choices[n])
      BY <1>10
    <2> QED
      BY <1>1, <2>1
  <1> HIDE DEF g
  <1>13. Picks(0) = { NoArgs }
    <2>1. First(0) = {} /\ 1 .. 0 = {}
      OBVIOUS
    <2>2. [{} -> V] = { NoArgs }
      <3>1. NoArgs \in [{} -> V]
        BY DEF NoArgs
      <3>2. \A f \in [{} -> V] : f = NoArgs
        BY <3>1
      <3> QED
        BY <3>1, <3>2
    <2> QED
      BY <2>1, <2>2
  <1>14. ASSUME NEW n \in 1 .. N
         PROVE  UNION { { Updated(f, Single(names[n], v)) : v \in Range(choices[n]) } :
                          f \in Picks(n - 1) } = Picks(n)
    <2> DEFINE name == names[n]
               values == Range(choices[n])
               Next(f) == { Updated(f, Single(name, v)) : v \in values }
    <2>1. First(n) = First(n - 1) \cup {name} /\ First(n) \subseteq Names
          /\ 1 .. n = (1 .. n - 1) \cup {n} /\ n - 1 \in 0 .. N
      <3>1. 1 .. n = (1 .. n - 1) \cup {n} /\ n - 1 \in 0 .. N /\ 1 .. n \subseteq 1 .. N
        BY <1>1
      <3> QED
        BY <1>1, <3>1
    <2>2. name \notin First(n - 1) /\ \A k \in 1 .. n - 1 : names[k] # name
      <3>1. \A k \in 1 .. n - 1 : k \in DOMAIN names /\ n \in DOMAIN names /\ k # n
        BY <1>1
      <3> QED
        BY <3>1 DEF Different
    <2>3. values \subseteq V
      BY <1>1 DEF Range
    <2>4. name \in Names
      BY <1>1
    <2> HIDE DEF values, name
    <2>5. ASSUME NEW f \in Picks(n - 1), NEW v \in values
          PROVE  Updated(f, Single(name, v)) \in Picks(n)
      <3> DEFINE u == Updated(f, Single(name, v))
      <3>1. f \in [First(n - 1) -> V] /\ \A k \in 1 .. n - 1 : f[names[k]] \in Range(choices[k])
        OBVIOUS
      <3>2. u = [k \in First(n - 1) \cup {name} |-> IF k \in {name} THEN v ELSE f[k]]
        BY <3>1 DEF Updated, Single
      <3> HIDE DEF u
      <3>3. u \in [First(n) -> V]
        BY <2>1, <2>3, <3>1, <3>2
      <3>4. \A k \in 1 .. n - 1 : u[names[k]] = f[names[k]]
        BY <2>2, <3>2
      <3>5. u[name] = v
        BY <3>2
      <3>6. \A k \in 1 .. n : u[names[k]] \in Range(choices[k])
        BY <2>1, <3>1, <3>4, <3>5 DEF name, values
      <3> QED
        BY <3>3, <3>6 DEF u
    <2>6. ASSUME NEW e \in Picks(n)
          PROVE  \E f \in Picks(n - 1) : \E v \in values : e = Updated(f, Single(name, v))
      <3> DEFINE f == [k \in First(n - 1) |-> e[k]]
                 v == e[name]
                 u == Updated(f, Single(name, v))
      <3>1. e \in [First(n) -> V] /\ \A k \in 1 .. n : e[names[k]] \in Range(choices[k])
        OBVIOUS
      <3>2. f \in [First(n - 1) -> V]
        BY <2>1, <3>1
      <3>3. \A k \in 1 .. n - 1 : f[names[k]] \in Range(choices[k])
        <4>1. \A k \in 1 .. n - 1 : f[names[k]] = e[names[k]]
          OBVIOUS
        <4> QED
          BY <2>1, <3>1, <4>1
      <3>4. v \in values
        <4>1. n \in 1 .. n
          BY <2>1
        <4> QED
          BY <3>1, <4>1 DEF name, values
      <3>5. u = [k \in First(n - 1) \cup {name} |-> IF k \in {name} THEN v ELSE f[k]]
        BY DEF Updated, Single
      <3>6. e = u
        <4>1. e = [k \in First(n - 1) \cup {name} |-> e[k]]
          BY <2>1, <3>1
        <4>2. \A k \in First(n - 1) \cup {name} : e[k] = IF k \in {name} THEN v ELSE f[k]
          OBVIOUS
        <4> HIDE DEF u, f, v
        <4> QED
          BY <3>5, <4>1, <4>2
      <3>7. f \in Picks(n - 1)
        BY <3>2, <3>3
      <3> QED
        BY <3>4, <3>6, <3>7
    <2> HIDE DEF Picks
    <2>7. UNION { Next(f) : f \in Picks(n - 1) } = Picks(n)
      BY <2>5, <2>6
    <2> QED
      BY <2>7 DEF name, values
  <1> DEFINE T == { m \in 0 .. N : g[m] \in Lists /\ Range(g[m]) = Picks(m) }
  <1> HIDE DEF Picks
  <1>15. 0 \in T
    <2>1. 0 \in 0 .. N /\ g[0] = << NoArgs >>
      BY <1>1, <1>12
    <2> QED
      BY <1>2, <1>13, <2>1
  <1>16. ASSUME NEW n \in 1 .. N, n - 1 \in T
         PROVE  n \in T
    <2>1. g[n - 1] \in Lists /\ Range(g[n - 1]) = Picks(n - 1)
      BY <1>16
    <2>2. g[n] = Extended(g[n - 1], names[n], choices[n])
      BY <1>12
    <2>3. g[n] \in Lists /\ Range(g[n]) =
            UNION { { Updated(f, Single(names[n], v)) : v \in Range(choices[n]) } :
                      f \in Range(g[n - 1]) }
      BY <1>3, <2>1, <2>2
    <2>4. Range(g[n]) = Picks(n)
      BY <1>14, <2>1, <2>3
    <2> QED
      BY <1>1, <2>3, <2>4
  <1>17. \A m \in 0 .. N : g[m] \in Lists /\ Range(g[m]) = Picks(m)
    <2>1. 0 .. N \subseteq T
      <3> HIDE DEF T
      <3> QED
        BY <1>1, <1>15, <1>16, UpTo
    <2> QED
      BY <2>1
  <1> DEFINE f == [m \in 0 .. N |-> g[m]]
  <1>18. f \in [0 .. N -> Lists]
    BY <1>17
  <1>19. N \in 0 .. N /\ 0 \in 0 .. N /\ \A n \in 1 .. N : n \in 0 .. N /\ n - 1 \in 0 .. N
    BY <1>1
  <1>20. f[N] = g[N] /\ f[0] = g[0] /\ \A n \in 1 .. N : f[n] = g[n] /\ f[n - 1] = g[n - 1]
    BY <1>19
  <1>21. \A m \in 0 .. N : Range(f[m]) = Picked(names, choices, V, m)
    BY <1>17 DEF Picks, Picked
  <1> HIDE DEF f
  <1>22. f[0] = << NoArgs >> /\ \A n \in 1 .. N : f[n] = Extended(f[n - 1], names[n], choices[n])
    BY <1>12, <1>20
  <1> QED
    BY <1>11, <1>18, <1>20, <1>21, <1>22 DEF N, Lists, IsProductLoop

\* itertools.product over different names: every way to pick, for each of the
\* names, one of its choices.
LEMMA ProductRange ==
  ASSUME NEW Names, NEW V, NEW names \in Seq(Names), NEW choices \in [DOMAIN names -> Seq(V)],
         Different(names)
  PROVE  /\ Product(names, choices) \in Seq(OverridesOf(Names, V))
         /\ Range(Product(names, choices)) =
              { f \in [Range(names) -> V] :
                  \A n \in DOMAIN names : f[names[n]] \in Range(choices[n]) }
  <1> DEFINE N == Len(names)
  <1>1. N \in Nat /\ DOMAIN names = 1 .. N
    OBVIOUS
  <1>0. PICK h : IsProductLoop(h, Names, V, names, choices)
    BY ProductLoop
  <1>2. /\ h \in [0 .. N -> Seq(OverridesOf(Names, V))]
        /\ \A m \in 0 .. N : Range(h[m]) = Picked(names, choices, V, m)
        /\ Product(names, choices) = h[N]
    BY <1>0 DEF IsProductLoop
  <1>3. { names[n] : n \in 1 .. N } = Range(names)
    BY <1>1 DEF Range
  <1>4. Picked(names, choices, V, N) =
          { f \in [Range(names) -> V] : \A n \in DOMAIN names : f[names[n]] \in Range(choices[n]) }
    BY <1>1, <1>3 DEF Picked
  <1>5. N \in 0 .. N
    BY <1>1
  <1> QED
    BY <1>2, <1>4, <1>5

\* Where one more name puts a combination.
ExtendedAt(all, combos, name, values, part, place) ==
  /\ \A i \in DOMAIN all :
       /\ part[i] \in DOMAIN combos /\ place[i] \in DOMAIN values
       /\ all[i] = Updated(combos[part[i]], Single(name, values[place[i]]))
  /\ \A i, j \in DOMAIN all :
       i < j => part[i] < part[j] \/ (part[i] = part[j] /\ place[i] < place[j])

LEMMA ExtendedPlaces ==
  ASSUME NEW Names, NEW V, NEW combos \in Seq(OverridesOf(Names, V)),
         NEW name \in Names, NEW values \in Seq(V)
  PROVE  \E part, place :
           ExtendedAt(Extended(combos, name, values), combos, name, values, part, place)
  <1> DEFINE S == OverridesOf(Names, V)
             N == Len(combos)
             K == Len(values)
             Of(f) == [m \in DOMAIN values |-> Updated(f, Single(name, values[m]))]
             seqs == [n \in DOMAIN combos |-> Of(combos[n])]
             all == Extended(combos, name, values)
  <1>1. N \in Nat /\ DOMAIN combos = 1 .. N /\ \A n \in 1 .. N : combos[n] \in S
    OBVIOUS
  <1>2. K \in Nat /\ DOMAIN values = 1 .. K /\ \A m \in 1 .. K : values[m] \in V
    OBVIOUS
  <1>3. \A f \in S : Of(f) \in Seq(S)
    <2> SUFFICES ASSUME NEW f \in S
                 PROVE  Of(f) \in Seq(S)
      OBVIOUS
    <2>1. \A m \in 1 .. K : Updated(f, Single(name, values[m])) \in S
      BY <1>2, UpdatedOne
    <2>2. Of(f) = [m \in 1 .. K |-> Updated(f, Single(name, values[m]))]
      BY <1>2
    <2> HIDE DEF S, K
    <2> QED
      BY <1>2, <2>1, <2>2, SequenceOf
  <1>4. \A f : DOMAIN Of(f) = DOMAIN values
               /\ \A m \in DOMAIN values : Of(f)[m] = Updated(f, Single(name, values[m]))
    OBVIOUS
  <1> HIDE DEF Of, S
  <1>5. seqs \in Seq(Seq(S)) /\ DOMAIN seqs = DOMAIN combos
        /\ \A n \in DOMAIN combos : seqs[n] = Of(combos[n])
    <2>1. seqs = [n \in 1 .. N |-> Of(combos[n])]
      BY <1>1
    <2> QED
      BY <1>1, <1>3, <2>1, SequenceOf
  <1>6. all = FlattenSeq(seqs)
    BY DEF Extended, Of
  <1> HIDE DEF seqs, all
  <1>7. PICK part \in [DOMAIN all -> Nat], place \in [DOMAIN all -> Nat] :
          Places(all, seqs, part, place)
    BY <1>5, <1>6, FlattenPlaces
  <1>8. \A i \in DOMAIN all :
          /\ part[i] \in DOMAIN combos /\ place[i] \in DOMAIN values
          /\ all[i] = Updated(combos[part[i]], Single(name, values[place[i]]))
    BY <1>4, <1>5, <1>7 DEF Places
  <1>9. \A i, j \in DOMAIN all :
          i < j => part[i] < part[j] \/ (part[i] = part[j] /\ place[i] < place[j])
    BY <1>7 DEF Places
  <1>10. ExtendedAt(all, combos, name, values, part, place)
    BY <1>8, <1>9 DEF ExtendedAt
  <1> QED
    BY <1>10 DEF all

\* The order of the product: of two combinations the earlier one has, at the
\* first name at which they were picked differently, the earlier choice.
Before(f, g, names, choices, m) ==
  \E k \in 1 .. m :
    /\ \A l \in 1 .. k - 1 : f[names[l]] = g[names[l]]
    /\ \E a, b \in DOMAIN choices[k] :
         a < b /\ f[names[k]] = choices[k][a] /\ g[names[k]] = choices[k][b]

LEMMA ProductOrder ==
  ASSUME NEW Names, NEW V, NEW names \in Seq(Names), NEW choices \in [DOMAIN names -> Seq(V)],
         Different(names)
  PROVE  LET combos == Product(names, choices)
         IN \A i, j \in DOMAIN combos :
              i < j => Before(combos[i], combos[j], names, choices, Len(names))
  <1> DEFINE N == Len(names)
             F == OverridesOf(Names, V)
             Ordered(list, m) ==
               \A i, j \in DOMAIN list : i < j => Before(list[i], list[j], names, choices, m)
  <1>1. /\ N \in Nat /\ DOMAIN names = 1 .. N
        /\ \A n \in 1 .. N : names[n] \in Names /\ choices[n] \in Seq(V)
    OBVIOUS
  <1>0. PICK h : IsProductLoop(h, Names, V, names, choices)
    BY ProductLoop
  <1>2. /\ h \in [0 .. N -> Seq(F)]
        /\ h[0] = << NoArgs >>
        /\ \A n \in 1 .. N : h[n] = Extended(h[n - 1], names[n], choices[n])
        /\ \A m \in 0 .. N : Range(h[m]) = Picked(names, choices, V, m)
        /\ Product(names, choices) = h[N]
    BY <1>0 DEF IsProductLoop
  <1> HIDE DEF N
  <1> DEFINE T == { m \in 0 .. N : Ordered(h[m], m) }
  <1>3. 0 \in T
    <2>1. 0 \in 0 .. N /\ DOMAIN h[0] = {1}
      BY <1>1, <1>2
    <2> QED
      BY <2>1
  <1>4. ASSUME NEW m \in 1 .. N, m - 1 \in T
        PROVE  m \in T
    <2> DEFINE old == h[m - 1]
               new == h[m]
               name == names[m]
               values == choices[m]
    <2>1. m - 1 \in 0 .. N /\ m \in 0 .. N /\ m \in 1 .. N
      BY <1>1
    <2>2. /\ old \in Seq(F) /\ new = Extended(old, name, values)
          /\ name \in Names /\ values \in Seq(V)
      BY <1>1, <1>2, <2>1
    <2>3. Ordered(old, m - 1)
      BY <1>4
    <2>4. \A p \in DOMAIN old : old[p] \in Picked(names, choices, V, m - 1)
      <3>1. Range(old) = Picked(names, choices, V, m - 1)
        BY <1>2, <2>1
      <3> QED
        BY <3>1 DEF Range
    <2> HIDE DEF old, new, Ordered
    <2>0. PICK part, place : ExtendedAt(new, old, name, values, part, place)
      <3> HIDE DEF name, values
      <3> QED
        BY <2>2, ExtendedPlaces
    <2>5. /\ \A i \in DOMAIN new :
               /\ part[i] \in DOMAIN old /\ place[i] \in DOMAIN values
               /\ new[i] = Updated(old[part[i]], Single(name, values[place[i]]))
          /\ \A i, j \in DOMAIN new :
               i < j => part[i] < part[j] \/ (part[i] = part[j] /\ place[i] < place[j])
      BY <2>0 DEF ExtendedAt
    <2>6. ASSUME NEW i \in DOMAIN new
          PROVE  /\ new[i][name] = values[place[i]]
                 /\ \A l \in 1 .. m - 1 : new[i][names[l]] = old[part[i]][names[l]]
      <3> DEFINE f == old[part[i]]
                 v == values[place[i]]
      <3>1. f \in Picked(names, choices, V, m - 1) /\ new[i] = Updated(f, Single(name, v))
        BY <2>4, <2>5
      <3>2. \A l \in 1 .. m - 1 : names[l] \in DOMAIN f
        BY <3>1 DEF Picked
      <3>3. \A l \in 1 .. m - 1 : names[l] # name
        <4>1. \A l \in 1 .. m - 1 : l \in DOMAIN names /\ m \in DOMAIN names /\ l # m
          BY <1>1
        <4> QED
          BY <4>1 DEF Different
      <3> HIDE DEF f, v, name, values
      <3>4. Updated(f, Single(name, v))[name] = v
            /\ \A k \in DOMAIN f \ {name} : Updated(f, Single(name, v))[k] = f[k]
        BY DEF Updated, Single
      <3>5. \A l \in 1 .. m - 1 : new[i][names[l]] = f[names[l]]
        BY <3>1, <3>2, <3>3, <3>4
      <3> QED
        BY <3>1, <3>4, <3>5 DEF f, v
    <2>7. ASSUME NEW i \in DOMAIN new, NEW j \in DOMAIN new, i < j
          PROVE  Before(new[i], new[j], names, choices, m)
      <3>1. part[i] \in DOMAIN old /\ part[j] \in DOMAIN old
            /\ place[i] \in DOMAIN values /\ place[j] \in DOMAIN values
        BY <2>5
      <3>2. CASE part[i] < part[j]
        <4>1. Before(old[part[i]], old[part[j]], names, choices, m - 1)
          BY <2>3, <3>1, <3>2 DEF Ordered
        <4>2. PICK k \in 1 .. m - 1 :
                /\ \A l \in 1 .. k - 1 : old[part[i]][names[l]] = old[part[j]][names[l]]
                /\ \E a, b \in DOMAIN choices[k] :
                     /\ a < b /\ old[part[i]][names[k]] = choices[k][a]
                     /\ old[part[j]][names[k]] = choices[k][b]
          BY <4>1 DEF Before
        <4>3. k \in 1 .. m /\ \A l \in 1 .. k - 1 : l \in 1 .. m - 1
          BY <2>1
        <4>4. /\ \A l \in 1 .. k - 1 : new[i][names[l]] = new[j][names[l]]
              /\ new[i][names[k]] = old[part[i]][names[k]]
              /\ new[j][names[k]] = old[part[j]][names[k]]
          BY <2>6, <4>2, <4>3
        <4>5. \E a, b \in DOMAIN choices[k] :
                a < b /\ new[i][names[k]] = choices[k][a] /\ new[j][names[k]] = choices[k][b]
          BY <4>2, <4>4
        <4> QED
          BY <4>3, <4>4, <4>5 DEF Before
      <3>3. CASE part[i] = part[j] /\ place[i] < place[j]
        <4>1. \A l \in 1 .. m - 1 : new[i][names[l]] = new[j][names[l]]
          BY <2>6, <3>3
        <4>2. m \in 1 .. m
          BY <2>1
        <4>3. new[i][names[m]] = choices[m][place[i]] /\ new[j][names[m]] = choices[m][place[j]]
          BY <2>6
        <4> QED
          BY <3>1, <3>3, <4>1, <4>2, <4>3 DEF Before
      <3> QED
        BY <2>5, <2>7, <3>2, <3>3
    <2>8. Ordered(new, m)
      BY <2>7 DEF Ordered
    <2> QED
      BY <2>1, <2>8 DEF new
  <1>5. N \in T
    <2> HIDE DEF T
    <2>1. 0 .. N \subseteq T
      BY <1>1, <1>3, <1>4, UpTo
    <2> QED
      BY <1>1, <2>1
  <1> QED
    BY <1>2, <1>5 DEF N

-----------------------------------------------------------------------------
(* The joint sweep *)

AllValues(b) == UNION { Range(c.values) : c \in Range(b.candidate) }

\* The joint choices of values for the names.
Joint(b, names) ==
  { f \in [Range(names) -> AllValues(b)] :
      \A name \in Range(names) : f[name] \in Range(CandidateOf(b, name).values) }

SweptPoint(b, pins, o) == Point(b, OverrideLabel(o), Assemble(b, Updated(pins, o)))

LEMMA CandidateNamed ==
  ASSUME NEW b, DeclaresLists(b), NEW name \in CandidateNames(b)
  PROVE  /\ CandidateOf(b, name) \in Range(b.candidate) /\ CandidateOf(b, name).name = name
         /\ CandidateOf(b, name).values \in Seq(AllValues(b))
  <1>1. \E c \in Range(b.candidate) : c.name = name
    BY DEF CandidateNames
  <1>2. CandidateOf(b, name) \in Range(b.candidate) /\ CandidateOf(b, name).name = name
    BY <1>1 DEF CandidateOf
  <1>3. ASSUME NEW c \in Range(b.candidate)
        PROVE  c.values \in Seq(AllValues(b))
    <2>1. Range(c.values) \subseteq AllValues(b)
      BY DEF AllValues
    <2>2. c.values \in Seq(Range(c.values))
      BY DEF DeclaresLists, IsList
    <2> QED
      BY <2>1, <2>2
  <1> QED
    BY <1>2, <1>3

\* The loop of generate_grid: every legal joint choice for the names, over the
\* pins, each once.
LEMMA JointPoints ==
  ASSUME NEW b, DeclaresLists(b), NEW names \in Seq(CandidateNames(b)), NEW pins,
         Different(names)
  PROVE  LET points == JointSweep(b, names, pins)
         IN /\ points \in Seq({ SweptPoint(b, pins, o) : o \in Joint(b, names) })
            /\ NoneTwice(points)
            /\ HashesIn(points) =
                 { Assemble(b, Updated(pins, o)) : o \in { f \in Joint(b, names) :
                     IsValid(b, Assemble(b, Updated(pins, f))) } }
  <1> DEFINE V == AllValues(b)
             choices == [n \in DOMAIN names |-> CandidateOf(b, names[n]).values]
             combos == Product(names, choices)
             J == Joint(b, names)
             P == { SweptPoint(b, pins, o) : o \in J }
             Args(o) == Assemble(b, Updated(pins, o))
             tried == [n \in DOMAIN combos |-> SweptPoint(b, pins, combos[n])]
             kept == [n \in DOMAIN combos |-> IsValid(b, Args(combos[n]))]
             N == Len(combos)
  <1>1. DOMAIN names = 1 .. Len(names) /\ \A n \in DOMAIN names : names[n] \in CandidateNames(b)
    OBVIOUS
  <1>2. choices \in [DOMAIN names -> Seq(V)]
    BY <1>1, CandidateNamed
  <1> HIDE DEF choices, V
  <1>3. /\ combos \in Seq(OverridesOf(CandidateNames(b), V))
        /\ Range(combos) = { f \in [Range(names) -> V] :
                               \A n \in DOMAIN names : f[names[n]] \in Range(choices[n]) }
    <2> DEFINE Names == CandidateNames(b)
    <2>1. /\ names \in Seq(Names) /\ choices \in [DOMAIN names -> Seq(V)]
          /\ Different(names)
      BY <1>2
    <2> HIDE DEF Names
    <2>2. /\ Product(names, choices) \in Seq(OverridesOf(Names, V))
          /\ Range(Product(names, choices)) = { f \in [Range(names) -> V] :
                 \A n \in DOMAIN names : f[names[n]] \in Range(choices[n]) }
      BY <2>1, ProductRange
    <2> QED
      BY <2>2 DEF Names
  <1>4. Range(combos) = J
    <2>1. \A n \in DOMAIN names : choices[n] = CandidateOf(b, names[n]).values
      BY DEF choices
    <2>2. Range(names) = { names[n] : n \in DOMAIN names }
      BY DEF Range
    <2> QED
      BY <1>3, <2>1, <2>2 DEF Joint, V
  <1> HIDE DEF combos
  <1>5. N \in Nat /\ DOMAIN combos = 1 .. N
    BY <1>3
  <1>6. (\A n \in 1 .. N : combos[n] \in J) /\ { combos[n] : n \in 1 .. N } = J
    BY <1>4, <1>5 DEF Range
  <1>7. JointSweep(b, names, pins) = Collect(<< >>, tried, kept)
    BY DEF JointSweep, SweptPoint, combos, choices
  <1> HIDE DEF J, N
  <1>8. \A o \in J : SweptPoint(b, pins, o) \in P /\ SweptPoint(b, pins, o).hash = Args(o)
    BY DEF SweptPoint, Point
  <1> HIDE DEF P, Args
  <1>9. tried \in Seq(P) /\ DOMAIN tried = 1 .. N
        /\ \A n \in 1 .. N : tried[n] = SweptPoint(b, pins, combos[n])
    <2>1. tried = [n \in 1 .. N |-> SweptPoint(b, pins, combos[n])]
      BY <1>5
    <2> QED
      BY <1>5, <1>6, <1>8, <2>1, SequenceOf
  <1>10. kept \in [DOMAIN tried -> BOOLEAN] /\ \A n \in 1 .. N : kept[n] = IsValid(b, Args(combos[n]))
    <2>1. \A n : IsValid(b, Args(combos[n])) \in BOOLEAN
      BY DEF IsValid
    <2> QED
      BY <1>5, <1>9, <2>1
  <1> HIDE DEF tried, kept
  <1> DEFINE none == << >>
             points == Collect(none, tried, kept)
  <1>11. none \in Seq(P) /\ NoneTwice(none) /\ HashesIn(none) = {}
    BY DEF NoneTwice, HashesIn, Range
  <1> HIDE DEF none
  <1>12. /\ points \in Seq(P)
         /\ NoneTwice(points)
         /\ HashesIn(points) = HashesIn(none) \cup
              { tried[n].hash : n \in { k \in DOMAIN tried : kept[k] } }
    <2>1. /\ none \in Seq(P) /\ tried \in Seq(P) /\ kept \in [DOMAIN tried -> BOOLEAN]
          /\ NoneTwice(none)
      BY <1>9, <1>10, <1>11
    <2> HIDE DEF points
    <2>2. points = Collect(none, tried, kept)
      BY DEF points
    <2> QED
      BY <2>1, <2>2, Collected
  <1>13. { tried[n].hash : n \in { k \in DOMAIN tried : kept[k] } }
           = { Args(o) : o \in { f \in J : IsValid(b, Args(f)) } }
    <2>1. \A n \in 1 .. N : tried[n].hash = Args(combos[n]) /\ kept[n] = IsValid(b, Args(combos[n]))
      BY <1>6, <1>8, <1>9, <1>10
    <2> QED
      BY <1>6, <1>9, <2>1
  <1> QED
    BY <1>7, <1>11, <1>12, <1>13 DEF none, P, Args, J

-----------------------------------------------------------------------------
(* The spot-check *)

\* The least and the greatest of a list of numbers.
LEMMA NumberEnds ==
  ASSUME NEW seq \in Seq(Int), seq # << >>
  PROVE  /\ Min(Range(seq)) \in Range(seq) /\ \A v \in Range(seq) : Min(Range(seq)) <= v
         /\ Max(Range(seq)) \in Range(seq) /\ \A v \in Range(seq) : Max(Range(seq)) >= v
  <1> DEFINE N == Len(seq)
             Ends(m) == \E x, y \in { seq[n] : n \in 1 .. m } :
                          \A n \in 1 .. m : x <= seq[n] /\ seq[n] <= y
             T == { m \in 0 .. N : m = 0 \/ Ends(m) }
  <1>1. N \in Nat /\ N # 0 /\ DOMAIN seq = 1 .. N /\ \A n \in 1 .. N : seq[n] \in Int
    OBVIOUS
  <1> HIDE DEF N
  <1>2. 0 \in T
    BY <1>1
  <1>3. ASSUME NEW m \in 1 .. N, m - 1 \in T
        PROVE  m \in T
    <2>1. /\ m \in 0 .. N /\ m - 1 \in 0 .. N /\ seq[m] \in Int /\ m \in 1 .. m
          /\ \A n \in 1 .. m : n = m \/ n \in 1 .. (m - 1)
          /\ \A n \in 1 .. (m - 1) : n \in 1 .. m /\ seq[n] \in Int
      BY <1>1
    <2>2. CASE m = 1
      <3>1. \A n \in 1 .. m : n = m
        BY <2>2
      <3>2. seq[m] \in { seq[n] : n \in 1 .. m }
        BY <2>1
      <3>3. \A n \in 1 .. m : seq[m] <= seq[n] /\ seq[n] <= seq[m]
        BY <2>1, <3>1
      <3> QED
        BY <2>1, <3>2, <3>3
    <2>3. CASE m # 1
      <3>1. Ends(m - 1)
        BY <1>3, <2>1, <2>3
      <3> DEFINE K == m - 1
      <3>2. PICK i \in 1 .. (m - 1), k \in 1 .. (m - 1) :
              \A n \in 1 .. (m - 1) : seq[i] <= seq[n] /\ seq[n] <= seq[k]
        <4>1. PICK x \in { seq[n] : n \in 1 .. K }, y \in { seq[n] : n \in 1 .. K } :
                \A n \in 1 .. K : x <= seq[n] /\ seq[n] <= y
          BY <3>1
        <4> HIDE DEF K
        <4>2. PICK i \in 1 .. K : x = seq[i]
          OBVIOUS
        <4>3. PICK k \in 1 .. K : y = seq[k]
          OBVIOUS
        <4>4. \A n \in 1 .. K : seq[i] <= seq[n] /\ seq[n] <= seq[k]
          BY <4>1, <4>2, <4>3
        <4> QED
          BY <4>4 DEF K
      <3>3. seq[i] \in Int /\ seq[k] \in Int /\ i \in 1 .. m /\ k \in 1 .. m
        BY <2>1
      <3>4. PICK lo \in {i, m} : seq[lo] <= seq[i] /\ seq[lo] <= seq[m]
        BY <2>1, <3>3
      <3>5. PICK hi \in {k, m} : seq[hi] >= seq[k] /\ seq[hi] >= seq[m]
        BY <2>1, <3>3
      <3>6. lo \in 1 .. m /\ hi \in 1 .. m /\ seq[lo] \in Int /\ seq[hi] \in Int
        BY <2>1, <3>3, <3>4, <3>5
      <3>7. ASSUME NEW n \in 1 .. m
            PROVE  seq[lo] <= seq[n] /\ seq[n] <= seq[hi]
        <4>1. CASE n = m
          BY <2>1, <3>4, <3>5, <3>6, <4>1
        <4>2. CASE n \in 1 .. (m - 1)
          <5>1. seq[n] \in Int /\ seq[i] <= seq[n] /\ seq[n] <= seq[k]
            BY <2>1, <3>2, <4>2
          <5> QED
            BY <3>3, <3>4, <3>5, <3>6, <5>1
        <4> QED
          BY <2>1, <4>1, <4>2
      <3>8. Ends(m)
        BY <3>6, <3>7
      <3> HIDE DEF Ends
      <3> QED
        BY <2>1, <3>8
    <2> QED
      BY <2>2, <2>3
  <1>4. N \in T
    <2> HIDE DEF T
    <2>1. 0 .. N \subseteq T
      BY <1>1, <1>2, <1>3, UpTo
    <2> QED
      BY <1>1, <2>1
  <1>5. Ends(N)
    BY <1>1, <1>4
  <1> HIDE DEF T
  <1> DEFINE S == Range(seq)
  <1>6. S = { seq[n] : n \in 1 .. N }
    BY <1>1 DEF Range
  <1>7. \E x, y \in S : \A v \in S : x <= v /\ v <= y
    <2>1. PICK x \in { seq[n] : n \in 1 .. N }, y \in { seq[n] : n \in 1 .. N } :
            \A n \in 1 .. N : x <= seq[n] /\ seq[n] <= y
      BY <1>5
    <2>2. x \in S /\ y \in S
      BY <1>6
    <2>3. \A v \in S : \E n \in 1 .. N : v = seq[n]
      BY <1>6
    <2> HIDE DEF S
    <2>4. \A v \in S : x <= v /\ v <= y
      BY <2>1, <2>3
    <2> QED
      BY <2>2, <2>4
  <1>8. S \subseteq Int
    BY <1>1, <1>6
  <1> HIDE DEF S
  <1>9. Min(S) \in S /\ \A v \in S : Min(S) <= v
    BY <1>7 DEF Min
  <1>10. Max(S) \in S /\ \A v \in S : Max(S) >= v
    <2>1. \E x \in S : \A v \in S : x >= v
      BY <1>7, <1>8
    <2> QED
      BY <2>1 DEF Max
  <1> QED
    BY <1>9, <1>10 DEF S

\* The value is an end of the declared range.
AtEnd(values, v) ==
  IF Range(values) \subseteq Int
    THEN (\A w \in Range(values) : v <= w) \/ (\A w \in Range(values) : v >= w)
    ELSE v \in {values[1], values[Len(values)]}

\* It is at least as far from the baseline as the other end, which w is.
AsFar(values, baseline, v, w) ==
  IF Range(values) \subseteq Int THEN Distance(w, baseline) <= Distance(v, baseline)
                                 ELSE v # baseline

\* The ends of a declared range, all of them, the further one in front.
LEMMA EndsFirst ==
  ASSUME NEW V, NEW values \in Seq(V), values # << >>, NEW baseline \in Range(values)
  PROVE  LET ends == ExtremeChoices(values, baseline)
         IN /\ ends \in Seq(V) /\ Len(ends) <= 2
            /\ Range(ends) = { v \in Range(values) : AtEnd(values, v) }
            /\ \A a, b \in DOMAIN ends :
                 a < b => ends[a] # ends[b] /\ AsFar(values, baseline, ends[a], ends[b])
  <1> DEFINE numeric == Range(values) \subseteq Int
             R == Range(values)
             L == Len(values)
             lo == IF numeric THEN Min(R) ELSE values[1]
             hi == IF numeric THEN Max(R) ELSE values[L]
             hiFirst == IF numeric /\ baseline \in Int
                          THEN Distance(hi, baseline) > Distance(lo, baseline)
                          ELSE lo = baseline
             ends == ExtremeChoices(values, baseline)
  <1>1. L \in Nat /\ 1 \in DOMAIN values /\ L \in DOMAIN values /\ R \subseteq V
        /\ values[1] \in R /\ values[L] \in R
    BY DEF Range
  <1>2. numeric => values \in Seq(Int)
    <2>1. numeric => \A n \in 1 .. L : values[n] \in Int
      BY DEF Range
    <2>2. DOMAIN values = 1 .. L /\ values = [n \in 1 .. L |-> values[n]]
      OBVIOUS
    <2> HIDE DEF L, numeric
    <2> QED
      BY <1>1, <2>1, <2>2, SequenceOf
  <1>3. numeric => /\ Min(R) \in R /\ \A v \in R : Min(R) <= v
                   /\ Max(R) \in R /\ \A v \in R : Max(R) >= v
    <2> HIDE DEF numeric
    <2> QED
      BY <1>2, NumberEnds
  <1>4. ends = IF lo = hi THEN <<lo>> ELSE IF hiFirst THEN <<hi, lo>> ELSE <<lo, hi>>
    BY DEF ExtremeChoices
  <1> HIDE DEF ends
  <1>5. lo \in R /\ hi \in R
    BY <1>1, <1>3
  <1>6. \A v \in R : AtEnd(values, v) <=> v = lo \/ v = hi
    <2>1. CASE numeric
      <3>1. R \subseteq Int /\ lo = Min(R) /\ hi = Max(R)
        BY <2>1
      <3> HIDE DEF R, lo, hi
      <3>2. ASSUME NEW v \in R
            PROVE  ((\A w \in R : v <= w) \/ (\A w \in R : v >= w)) <=> v = lo \/ v = hi
        <4>1. lo \in R /\ hi \in R /\ (\A w \in R : lo <= w) /\ (\A w \in R : hi >= w)
          BY <1>3, <2>1, <3>1 DEF R
        <4>2. v \in Int /\ lo \in Int /\ hi \in Int
          BY <3>1, <4>1
        <4>3. ASSUME \A w \in R : v <= w PROVE v = lo
          <5>1. v <= lo /\ lo <= v
            BY <4>1, <4>3
          <5> QED
            BY <4>2, <5>1
        <4>4. ASSUME \A w \in R : v >= w PROVE v = hi
          <5>1. v >= hi /\ hi >= v
            BY <4>1, <4>4
          <5> QED
            BY <4>2, <5>1
        <4> QED
          BY <4>1, <4>3, <4>4
      <3> QED
        BY <2>1, <3>2 DEF AtEnd, R
    <2>2. CASE ~ numeric
      BY <2>2 DEF AtEnd
    <2> QED
      BY <2>1, <2>2
  <1>7. lo # hi => IF hiFirst THEN AsFar(values, baseline, hi, lo)
                              ELSE AsFar(values, baseline, lo, hi)
    <2>1. CASE numeric
      <3>1. baseline \in Int /\ lo \in Int /\ hi \in Int
        BY <1>5, <2>1
      <3>2. Distance(lo, baseline) \in Int /\ Distance(hi, baseline) \in Int
        BY <3>1 DEF Distance
      <3>3. hiFirst <=> Distance(hi, baseline) > Distance(lo, baseline)
        BY <2>1, <3>1
      <3> DEFINE x == Distance(lo, baseline)
                 y == Distance(hi, baseline)
      <3> HIDE DEF hiFirst, lo, hi, x, y
      <3>4. IF hiFirst THEN x <= y ELSE y <= x
        BY <3>2, <3>3 DEF x, y
      <3> QED
        BY <2>1, <3>4 DEF AsFar, x, y
    <2>2. CASE ~ numeric
      BY <2>2 DEF AsFar
    <2> QED
      BY <2>1, <2>2
  <1> HIDE DEF lo, hi, hiFirst, R
  <1>8. CASE lo = hi
    <2>1. ends = <<lo>> /\ lo \in V
      BY <1>1, <1>4, <1>5, <1>8
    <2>2. ends \in Seq(V) /\ Len(ends) = 1 /\ DOMAIN ends = {1} /\ ends[1] = lo
      BY <2>1
    <2>3. Range(ends) = {lo}
      BY <2>2 DEF Range
    <2>4. Range(ends) = { v \in R : AtEnd(values, v) }
      BY <1>5, <1>6, <1>8, <2>3
    <2>5. \A a, b \in DOMAIN ends : ~ (a < b)
      BY <2>2
    <2> QED
      BY <2>2, <2>4, <2>5 DEF ends, R
  <1>9. CASE lo # hi
    <2> DEFINE x == IF hiFirst THEN hi ELSE lo
               y == IF hiFirst THEN lo ELSE hi
    <2>1. ends = <<x, y>> /\ x # y /\ x \in V /\ y \in V /\ {x, y} = {lo, hi}
          /\ AsFar(values, baseline, x, y)
      BY <1>1, <1>4, <1>5, <1>7, <1>9
    <2> HIDE DEF x, y
    <2>2. ends \in Seq(V) /\ Len(ends) = 2 /\ DOMAIN ends = 1 .. 2
          /\ ends[1] = x /\ ends[2] = y
      BY <2>1
    <2>3. Range(ends) = {x, y}
      BY <2>2 DEF Range
    <2>4. Range(ends) = { v \in R : AtEnd(values, v) }
      BY <1>5, <1>6, <2>1, <2>3
    <2>5. \A a, b \in DOMAIN ends : a < b => a = 1 /\ b = 2
      BY <2>2
    <2>6. \A a, b \in DOMAIN ends :
            a < b => ends[a] # ends[b] /\ AsFar(values, baseline, ends[a], ends[b])
      BY <2>1, <2>2, <2>5
    <2> QED
      BY <2>2, <2>4, <2>6 DEF ends, R
  <1> QED
    BY <1>8, <1>9

\* What the validators make sure of, as far as the spot-check needs it.
Sound(b) ==
  /\ DeclaresLists(b)
  /\ \A n, k \in DOMAIN b.candidate : b.candidate[n].name = b.candidate[k].name => n = k
  /\ \A c \in Range(b.candidate) :
       c.values # << >> /\ b.baseline[c.name] \in Range(c.values)

\* The candidates of some names, their names, and their ends.
SpotCands(b, varied) ==
  Where(b.candidate, [n \in DOMAIN b.candidate |-> b.candidate[n].name \in varied])

NamesOf(cands) == [n \in DOMAIN cands |-> cands[n].name]

EndsOf(b, cands) ==
  [n \in DOMAIN cands |-> ExtremeChoices(cands[n].values, b.baseline[cands[n].name])]

\* cands are those of the declared candidates, in their order: the n-th is the
\* at[n]-th declared.
Picks(cands, b, varied, at) ==
  /\ at \in [DOMAIN cands -> DOMAIN b.candidate]
  /\ \A n \in DOMAIN cands : cands[n] = b.candidate[at[n]] /\ cands[n].name \in varied
  /\ \A n, k \in DOMAIN cands : n < k => at[n] < at[k]
  /\ \A m \in DOMAIN b.candidate :
       b.candidate[m].name \in varied => \E n \in DOMAIN cands : at[n] = m

LEMMA SpotPicks ==
  ASSUME NEW b, Sound(b), NEW varied
  PROVE  /\ SpotCands(b, varied) \in Seq(Range(b.candidate))
         /\ \E at : Picks(SpotCands(b, varied), b, varied, at)
  <1> DEFINE seq == b.candidate
             S == Range(seq)
             kept == [n \in DOMAIN seq |-> seq[n].name \in varied]
             cands == Where(seq, kept)
  <1>1. seq \in Seq(S) /\ kept \in [DOMAIN seq -> BOOLEAN]
    BY DEF Sound, DeclaresLists, IsList
  <1>2. \A n \in DOMAIN seq : kept[n] <=> seq[n].name \in varied
    OBVIOUS
  <1>3. SpotCands(b, varied) = cands
    BY DEF SpotCands
  <1> HIDE DEF S, kept, seq
  <1>4. cands \in Seq(S) /\ \E at : Sublist(cands, seq, kept, at)
    BY <1>1, WhereSublist
  <1> HIDE DEF cands
  <1>5. PICK at : Sublist(cands, seq, kept, at)
    BY <1>4
  <1>6. Picks(cands, b, varied, at)
    BY <1>2, <1>5 DEF Picks, Sublist, seq
  <1> QED
    BY <1>3, <1>4, <1>6 DEF S, seq

\* Every one of the varied candidates is set to an end of its range.
ToEnds(b, varied, o) ==
  /\ o \in [varied -> AllValues(b)]
  /\ \A c \in Range(b.candidate) :
       c.name \in varied => o[c.name] \in { v \in Range(c.values) : AtEnd(c.values, v) }

\* On the first of the varied candidates where they differ, o is at least as far
\* from the baseline as q.
Outdoes(b, varied, o, q) ==
  \E n \in DOMAIN b.candidate :
    LET c == b.candidate[n]
    IN /\ c.name \in varied /\ o[c.name] # q[c.name]
       /\ \A m \in 1 .. n - 1 : LET name == b.candidate[m].name
                                IN name \in varied => o[name] = q[name]
       /\ AsFar(c.values, b.baseline[c.name], o[c.name], q[c.name])

\* The names of the varied candidates and their ends, as Product takes them.
LEMMA SpotAxes ==
  ASSUME NEW b, Sound(b), NEW varied \in SUBSET CandidateNames(b),
         NEW cands \in Seq(Range(b.candidate)), NEW at, Picks(cands, b, varied, at)
  PROVE  /\ NamesOf(cands) \in Seq(varied) /\ Len(NamesOf(cands)) = Len(cands)
         /\ Range(NamesOf(cands)) = varied /\ Different(NamesOf(cands))
         /\ EndsOf(b, cands) \in [DOMAIN NamesOf(cands) -> Seq(AllValues(b))]
         /\ \A n \in DOMAIN cands :
              /\ Range(EndsOf(b, cands)[n])
                   = { v \in Range(cands[n].values) : AtEnd(cands[n].values, v) }
              /\ \A i, j \in DOMAIN EndsOf(b, cands)[n] :
                   i < j => /\ EndsOf(b, cands)[n][i] # EndsOf(b, cands)[n][j]
                            /\ AsFar(cands[n].values, b.baseline[cands[n].name],
                                     EndsOf(b, cands)[n][i], EndsOf(b, cands)[n][j])
  <1> DEFINE N == Len(cands)
             names == NamesOf(cands)
             ends == EndsOf(b, cands)
             C == Range(b.candidate)
             V == AllValues(b)
  <1>1. /\ N \in Nat /\ DOMAIN cands = 1 .. N
        /\ \A n \in 1 .. N : cands[n] \in C /\ cands[n].name \in varied
    BY DEF Picks
  <1> HIDE DEF N
  <1>2. names \in Seq(varied) /\ Len(names) = N /\ DOMAIN names = 1 .. N
        /\ \A n \in 1 .. N : names[n] = cands[n].name
    <2>1. names = [n \in 1 .. N |-> cands[n].name]
      BY <1>1 DEF NamesOf
    <2>2. names \in [1 .. N -> varied]
      BY <1>1, <2>1
    <2> HIDE DEF names
    <2> QED
      BY <1>1, <2>1, <2>2, SequenceOf
  <1> HIDE DEF names
  <1>3. Range(names) = varied
    <2>1. ASSUME NEW name \in varied
          PROVE  \E n \in 1 .. N : names[n] = name
      <3>1. PICK m \in DOMAIN b.candidate : b.candidate[m].name = name
        BY DEF CandidateNames, Range
      <3>2. PICK n \in DOMAIN cands : at[n] = m
        BY <3>1 DEF Picks
      <3>3. cands[n].name = name
        BY <3>1, <3>2 DEF Picks
      <3> QED
        BY <1>1, <1>2, <3>2, <3>3
    <2>2. \A n \in 1 .. N : names[n] \in varied
      BY <1>1, <1>2
    <2> QED
      BY <1>2, <2>1, <2>2 DEF Range
  <1>4. Different(names)
    <2> SUFFICES ASSUME NEW n \in 1 .. N, NEW k \in 1 .. N, names[n] = names[k]
                 PROVE  n = k
      BY <1>2 DEF Different
    <2>1. at[n] = at[k]
      <3>1. /\ at[n] \in DOMAIN b.candidate /\ at[k] \in DOMAIN b.candidate
            /\ b.candidate[at[n]].name = b.candidate[at[k]].name
        BY <1>1, <1>2 DEF Picks
      <3> QED
        BY <3>1 DEF Sound
    <2>2. at[n] \in Nat /\ ~ (at[n] < at[k]) /\ ~ (at[k] < at[n])
      <3>1. at[n] \in DOMAIN b.candidate
        BY <1>1 DEF Picks
      <3>2. DOMAIN b.candidate = 1 .. Len(b.candidate) /\ Len(b.candidate) \in Nat
        BY DEF Sound, DeclaresLists, IsList
      <3> QED
        BY <2>1, <3>1, <3>2
    <2>3. ~ (n < k) /\ ~ (k < n)
      BY <1>1, <2>2 DEF Picks
    <2> QED
      BY <1>1, <2>3
  <1>5. \A n \in 1 .. N : ends[n] = ExtremeChoices(cands[n].values, b.baseline[cands[n].name])
    BY <1>1 DEF EndsOf
  <1>6. DOMAIN ends = 1 .. N /\ ends = [n \in 1 .. N |-> ends[n]]
    BY <1>1 DEF EndsOf
  <1> HIDE DEF ends
  <1>7. ASSUME NEW n \in 1 .. N
        PROVE  /\ ends[n] \in Seq(V)
               /\ Range(ends[n]) = { v \in Range(cands[n].values) : AtEnd(cands[n].values, v) }
               /\ \A i, j \in DOMAIN ends[n] :
                    i < j => /\ ends[n][i] # ends[n][j]
                             /\ AsFar(cands[n].values, b.baseline[cands[n].name],
                                      ends[n][i], ends[n][j])
    <2> DEFINE values == cands[n].values
               baseline == b.baseline[cands[n].name]
               e == ends[n]
    <2>1. cands[n] \in C
      BY <1>1
    <2>2. values # << >> /\ baseline \in Range(values)
      BY <2>1 DEF Sound
    <2>3. values \in Seq(V)
      <3>1. values \in Seq(Range(values)) /\ Range(values) \subseteq V
        BY <2>1 DEF Sound, DeclaresLists, IsList, AllValues
      <3> QED
        BY <3>1
    <2>4. e = ExtremeChoices(values, baseline)
      BY <1>5
    <2> HIDE DEF values, baseline, V, e
    <2>5. /\ e \in Seq(V) /\ Range(e) = { v \in Range(values) : AtEnd(values, v) }
          /\ \A i, j \in DOMAIN e :
               i < j => e[i] # e[j] /\ AsFar(values, baseline, e[i], e[j])
      BY <2>2, <2>3, <2>4, EndsFirst
    <2> QED
      BY <2>5 DEF values, baseline, e
  <1>8. ends \in [DOMAIN names -> Seq(V)]
    BY <1>2, <1>6, <1>7
  <1> QED
    BY <1>1, <1>2, <1>3, <1>4, <1>7, <1>8 DEF ends, names, N, V

\* The combinations that are tried: all that set every varied candidate to an
\* end, each before those it outdoes.
LEMMA SpotCombos ==
  ASSUME NEW b, Sound(b), NEW varied \in SUBSET CandidateNames(b)
  PROVE  LET cands  == SpotCands(b, varied)
             combos == Product(NamesOf(cands), EndsOf(b, cands))
         IN /\ combos \in Seq(OverridesOf(varied, AllValues(b)))
            /\ \A o : o \in Range(combos) <=> ToEnds(b, varied, o)
            /\ \A i, j \in DOMAIN combos : i < j => Outdoes(b, varied, combos[i], combos[j])
  <1> DEFINE cands == SpotCands(b, varied)
             names == NamesOf(cands)
             ends == EndsOf(b, cands)
             combos == Product(names, ends)
             V == AllValues(b)
             N == Len(cands)
             Ok(n, v) == v \in { w \in Range(cands[n].values) : AtEnd(cands[n].values, w) }
  <1>1. cands \in Seq(Range(b.candidate)) /\ \E at : Picks(cands, b, varied, at)
    BY SpotPicks
  <1>2. PICK at : Picks(cands, b, varied, at)
    BY <1>1
  <1> HIDE DEF cands
  <1>3. /\ names \in Seq(varied) /\ Len(names) = N
        /\ Range(names) = varied /\ Different(names)
        /\ ends \in [DOMAIN names -> Seq(V)]
        /\ \A n \in DOMAIN cands :
             /\ \A v : v \in Range(ends[n]) <=> Ok(n, v)
             /\ \A i, j \in DOMAIN ends[n] :
                  i < j => /\ ends[n][i] # ends[n][j]
                           /\ AsFar(cands[n].values, b.baseline[cands[n].name],
                                    ends[n][i], ends[n][j])
    <2>1. /\ names \in Seq(varied) /\ Len(names) = Len(cands)
          /\ Range(names) = varied /\ Different(names)
          /\ ends \in [DOMAIN names -> Seq(AllValues(b))]
          /\ \A n \in DOMAIN cands :
               /\ Range(ends[n]) = { v \in Range(cands[n].values) : AtEnd(cands[n].values, v) }
               /\ \A i, j \in DOMAIN ends[n] :
                    i < j => /\ ends[n][i] # ends[n][j]
                             /\ AsFar(cands[n].values, b.baseline[cands[n].name],
                                      ends[n][i], ends[n][j])
      BY <1>1, <1>2, SpotAxes
    <2> HIDE DEF names, ends
    <2> QED
      BY <2>1
  <1>4. N \in Nat /\ DOMAIN cands = 1 .. N /\ \A n \in 1 .. N : names[n] = cands[n].name
    BY <1>1 DEF NamesOf
  <1> HIDE DEF names, ends, V, N
  <1>5. DOMAIN names = 1 .. N
    BY <1>3, <1>4
  <1>6. /\ \A n \in 1 .. N : /\ at[n] \in DOMAIN b.candidate
                             /\ cands[n] = b.candidate[at[n]] /\ cands[n].name \in varied
        /\ \A n, k \in 1 .. N : n < k => at[n] < at[k]
        /\ \A m \in DOMAIN b.candidate :
             b.candidate[m].name \in varied => \E n \in 1 .. N : at[n] = m
    BY <1>2, <1>4 DEF Picks
  <1>7. DOMAIN b.candidate \subseteq Nat
    BY DEF Sound, DeclaresLists, IsList
  <1>8. /\ combos \in Seq(OverridesOf(varied, V))
        /\ \A o : o \in Range(combos) <=>
             o \in [varied -> V] /\ \A n \in 1 .. N : o[names[n]] \in Range(ends[n])
    <2>0. names \in Seq(varied) /\ ends \in [DOMAIN names -> Seq(V)] /\ Different(names)
      BY <1>3
    <2> HIDE DEF Ok
    <2>1. /\ combos \in Seq(OverridesOf(varied, V))
          /\ Range(combos) = { f \in [Range(names) -> V] :
                                 \A n \in DOMAIN names : f[names[n]] \in Range(ends[n]) }
      BY <2>0, ProductRange
    <2> HIDE DEF combos
    <2>2. DOMAIN names = 1 .. N /\ Range(names) = varied
      BY <1>3, <1>5
    <2> DEFINE D == DOMAIN names
               R == Range(names)
    <2> HIDE DEF D, R
    <2>3. \A o : o \in Range(combos) <=>
                  o \in [R -> V] /\ \A n \in D : o[names[n]] \in Range(ends[n])
      BY <2>1 DEF D, R
    <2>4. D = 1 .. N /\ R = varied
      BY <2>2 DEF D, R
    <2> QED
      BY <2>1, <2>3, <2>4
  <1>9. \A i, j \in DOMAIN combos :
          i < j => Before(combos[i], combos[j], names, ends, N)
    BY <1>3, ProductOrder
  <1> HIDE DEF combos
  <1>10. ASSUME NEW o
         PROVE  o \in Range(combos) <=> ToEnds(b, varied, o)
    <2>1. o \in Range(combos) <=> o \in [varied -> V] /\ \A n \in 1 .. N : Ok(n, o[cands[n].name])
      BY <1>3, <1>4, <1>8
    <2>2. (\A n \in 1 .. N : Ok(n, o[cands[n].name])) <=>
            \A c \in Range(b.candidate) :
              c.name \in varied => o[c.name] \in { v \in Range(c.values) : AtEnd(c.values, v) }
      <3>1. \A n \in 1 .. N : cands[n] \in Range(b.candidate) /\ cands[n].name \in varied
        BY <1>6 DEF Range
      <3>2. ASSUME NEW c \in Range(b.candidate), c.name \in varied
            PROVE  \E n \in 1 .. N : cands[n] = c
        <4>1. PICK m \in DOMAIN b.candidate : b.candidate[m] = c
          BY DEF Range
        <4>2. PICK n \in 1 .. N : at[n] = m
          BY <1>6, <3>2, <4>1
        <4> QED
          BY <1>6, <4>1, <4>2
      <3> QED
        BY <3>1, <3>2
    <2> QED
      BY <2>1, <2>2 DEF ToEnds, V
  <1>11. ASSUME NEW i \in DOMAIN combos, NEW j \in DOMAIN combos, i < j
         PROVE  Outdoes(b, varied, combos[i], combos[j])
    <2> DEFINE o == combos[i]
               q == combos[j]
    <2>1. PICK k \in 1 .. N :
            /\ \A l \in 1 .. k - 1 : o[names[l]] = q[names[l]]
            /\ \E x, y \in DOMAIN ends[k] :
                 x < y /\ o[names[k]] = ends[k][x] /\ q[names[k]] = ends[k][y]
      BY <1>9, <1>11 DEF Before
    <2> HIDE DEF o, q
    <2> DEFINE c == cands[k]
               n == at[k]
    <2>2. /\ n \in DOMAIN b.candidate /\ b.candidate[n] = c /\ c.name \in varied
          /\ names[k] = c.name
      BY <1>4, <1>6
    <2>3. o[c.name] # q[c.name] /\ AsFar(c.values, b.baseline[c.name], o[c.name], q[c.name])
      <3>1. PICK x \in DOMAIN ends[k], y \in DOMAIN ends[k] :
              x < y /\ o[c.name] = ends[k][x] /\ q[c.name] = ends[k][y]
        BY <2>1, <2>2
      <3>2. k \in DOMAIN cands
        BY <1>4
      <3> QED
        BY <1>3, <3>1, <3>2
    <2>4. ASSUME NEW m \in 1 .. n - 1, b.candidate[m].name \in varied
          PROVE  o[b.candidate[m].name] = q[b.candidate[m].name]
      <3>1. m \in DOMAIN b.candidate /\ m < n
        <4>1. DOMAIN b.candidate = 1 .. Len(b.candidate) /\ Len(b.candidate) \in Nat
          BY DEF Sound, DeclaresLists, IsList
        <4> QED
          BY <2>2, <4>1
      <3>2. PICK l \in 1 .. N : at[l] = m
        BY <1>6, <2>4, <3>1
      <3>3. ~ (k < l) /\ k # l
        <4>1. n \in Nat /\ m \in Nat
          BY <1>7, <2>2
        <4> QED
          BY <1>6, <3>1, <3>2, <4>1
      <3>4. l \in 1 .. k - 1
        BY <1>4, <3>3
      <3> QED
        BY <1>4, <1>6, <2>1, <3>2, <3>4
    <2>5. Outdoes(b, varied, o, q)
      BY <2>2, <2>3, <2>4 DEF Outdoes
    <2> QED
      BY <2>5 DEF o, q
  <1> QED
    BY <1>8, <1>10, <1>11 DEF combos, names, ends, cands, V

\* What the spot-check is: its overrides are legal, and no legal ones that set
\* every varied candidate to an end depart further on the first of them that
\* they set otherwise.
IsSpot(b, varied, o) ==
  /\ ToEnds(b, varied, o)
  /\ IsValid(b, Assemble(b, o))
  /\ \A q : ToEnds(b, varied, q) /\ IsValid(b, Assemble(b, q)) /\ q # o =>
       Outdoes(b, varied, o, q)

LEMMA SpotFirst ==
  ASSUME NEW b, Sound(b), IsValid(b, Assemble(b, NoArgs)), NEW points,
         SpotCheckPoint(b, points) # None
  PROVE  \E o : /\ SpotCheckPoint(b, points) = Point(b, SpotLabel(o), Assemble(b, o))
                /\ IsSpot(b, VariedArgs(points) \cap InvariantNames(b), o)
  <1> DEFINE varied == VariedArgs(points) \cap InvariantNames(b)
             V == AllValues(b)
             F == OverridesOf(varied, V)
             cands == SpotCands(b, varied)
             combos == Product(NamesOf(cands), EndsOf(b, cands))
             kept == [n \in DOMAIN combos |-> IsValid(b, Assemble(b, combos[n]))]
             legal == Where(combos, kept)
  <1>1. varied \in SUBSET CandidateNames(b)
    BY DEF InvariantNames, CandidateNames
  <1>2. SpotCheckPoint(b, points) =
          IF varied = {} THEN Point(b, SpotLabel(NoArgs), Assemble(b, NoArgs))
          ELSE IF legal = << >> THEN None
          ELSE Point(b, SpotLabel(legal[1]), Assemble(b, legal[1]))
    BY DEF SpotCheckPoint, SpotCands, NamesOf, EndsOf
  <1> HIDE DEF varied
  <1>3. /\ combos \in Seq(F)
        /\ \A o : o \in Range(combos) <=> ToEnds(b, varied, o)
        /\ \A i, j \in DOMAIN combos : i < j => Outdoes(b, varied, combos[i], combos[j])
    BY <1>1, SpotCombos
  <1> HIDE DEF combos
  <1>4. CASE varied = {}
    <2>1. ToEnds(b, varied, NoArgs)
      <3>1. NoArgs \in [varied -> V]
        BY <1>4 DEF NoArgs
      <3> QED
        BY <1>4, <3>1 DEF ToEnds
    <2>2. ASSUME NEW q, ToEnds(b, varied, q)
          PROVE  q = NoArgs
      <3>1. q \in [varied -> V]
        BY <2>2 DEF ToEnds
      <3> QED
        BY <1>4, <3>1 DEF NoArgs
    <2>3. IsSpot(b, varied, NoArgs)
      BY <2>1, <2>2 DEF IsSpot
    <2> QED
      BY <1>2, <1>4, <2>3 DEF varied
  <1>5. CASE varied # {}
    <2>1. legal # << >>
          /\ SpotCheckPoint(b, points) = Point(b, SpotLabel(legal[1]), Assemble(b, legal[1]))
      BY <1>2, <1>5
    <2>2. kept \in [DOMAIN combos -> BOOLEAN]
      <3>1. \A n : IsValid(b, Assemble(b, combos[n])) \in BOOLEAN
        BY DEF IsValid
      <3> QED
        BY <3>1
    <2>3. \A n \in DOMAIN combos : kept[n] <=> IsValid(b, Assemble(b, combos[n]))
      OBVIOUS
    <2>4. DOMAIN combos \subseteq Nat
      BY <1>3
    <2> HIDE DEF kept, F
    <2>5. legal \in Seq(F) /\ \E at : Sublist(legal, combos, kept, at)
      BY <1>3, <2>2, WhereSublist
    <2> HIDE DEF legal
    <2>6. PICK at : Sublist(legal, combos, kept, at)
      BY <2>5
    <2>7. 1 \in DOMAIN legal /\ \A i \in DOMAIN legal : i = 1 \/ 1 < i
      BY <2>1, <2>5
    <2> DEFINE o == legal[1]
    <2>8. at[1] \in DOMAIN combos /\ o = combos[at[1]] /\ kept[at[1]]
      BY <2>6, <2>7 DEF Sublist
    <2>9. ToEnds(b, varied, o) /\ IsValid(b, Assemble(b, o))
      BY <1>3, <2>3, <2>8 DEF Range
    <2>10. ASSUME NEW q, ToEnds(b, varied, q), IsValid(b, Assemble(b, q)), q # o
           PROVE  Outdoes(b, varied, o, q)
      <3>1. q \in Range(combos)
        BY <1>3, <2>10
      <3>2. PICK j \in DOMAIN combos : combos[j] = q
        BY <3>1 DEF Range
      <3>3. PICK i \in DOMAIN legal : at[i] = j
        BY <2>3, <2>6, <2>10, <3>2 DEF Sublist
      <3>4. i # 1
        BY <2>8, <2>10, <3>2, <3>3
      <3>5. at[1] < j
        BY <2>6, <2>7, <3>3, <3>4 DEF Sublist
      <3> QED
        BY <1>3, <2>8, <3>2, <3>5
    <2>11. IsSpot(b, varied, o)
      BY <2>9, <2>10 DEF IsSpot
    <2> QED
      BY <2>1, <2>11 DEF varied
  <1> QED
    BY <1>4, <1>5

-----------------------------------------------------------------------------
(* The plan *)

LEMMA ListOver ==
  ASSUME NEW P, NEW Q, NEW seq \in Seq(P), Range(seq) \subseteq Q
  PROVE  seq \in Seq(Q)
  <1>1. DOMAIN seq = 1 .. Len(seq) /\ Len(seq) \in Nat
        /\ seq = [n \in 1 .. Len(seq) |-> seq[n]]
    OBVIOUS
  <1>2. \A n \in 1 .. Len(seq) : seq[n] \in Q
    BY <1>1 DEF Range
  <1> DEFINE N == Len(seq)
  <1> HIDE DEF N
  <1>3. seq \in [1 .. N -> Q]
    BY <1>1, <1>2 DEF N
  <1>4. N \in Nat
    BY <1>1 DEF N
  <1> QED
    BY <1>3, <1>4, SequenceOf

LEMMA MinOfTwo ==
  ASSUME NEW a \in Int, NEW b \in Int
  PROVE  Min({a, b}) = IF a <= b THEN a ELSE b
  <1>1. \E x \in {a, b} : \A y \in {a, b} : x <= y
    OBVIOUS
  <1>2. Min({a, b}) \in {a, b} /\ \A y \in {a, b} : Min({a, b}) <= y
    BY <1>1 DEF Min
  <1> QED
    BY <1>2

LEMMA Truncated ==
  ASSUME NEW S, NEW seq \in Seq(S), NEW limit \in Int
  PROVE  LET cut == Truncate(seq, limit)
         IN /\ cut \in Seq(S) /\ Len(cut) <= Len(seq)
            /\ Len(cut) = IF limit > 0 THEN Min({limit, Len(seq)}) ELSE Len(seq)
            /\ \A n \in DOMAIN cut : n \in DOMAIN seq /\ cut[n] = seq[n]
            /\ Len(cut) = Len(seq) => cut = seq
            /\ Range(cut) \subseteq Range(seq)
  <1> DEFINE L == Len(seq)
             cut == Truncate(seq, limit)
             M == Min({limit, L})
  <1>1. L \in Nat /\ DOMAIN seq = 1 .. L
    OBVIOUS
  <1>2. M = IF limit <= L THEN limit ELSE L
    BY <1>1, MinOfTwo
  <1> HIDE DEF M
  <1>3. CASE limit > 0
    <2>1. cut = SubSeq(seq, 1, M)
      BY <1>3 DEF Truncate, M
    <2>2. M \in 0 .. L
      <3>1. CASE limit <= L
        BY <1>1, <1>2, <1>3, <3>1
      <3>2. CASE ~ (limit <= L)
        BY <1>1, <1>2, <3>2
      <3> QED
        BY <3>1, <3>2
    <2>3. /\ cut \in Seq(S) /\ Len(cut) = M /\ DOMAIN cut = 1 .. M
          /\ \A n \in 1 .. M : n \in DOMAIN seq /\ cut[n] = seq[n]
      BY <1>1, <2>1, <2>2
    <2> HIDE DEF cut
    <2>4. Range(cut) \subseteq Range(seq)
      BY <2>3 DEF Range
    <2>5. Len(cut) = L => cut = seq
      BY <1>1, <2>3
    <2>6. Len(cut) <= L /\ Len(cut) = IF limit > 0 THEN M ELSE L
      BY <1>1, <1>3, <2>2, <2>3
    <2> HIDE DEF L
    <2>7. /\ cut \in Seq(S) /\ Len(cut) <= L
          /\ Len(cut) = IF limit > 0 THEN M ELSE L
          /\ \A n \in DOMAIN cut : n \in DOMAIN seq /\ cut[n] = seq[n]
          /\ Len(cut) = L => cut = seq
          /\ Range(cut) \subseteq Range(seq)
      BY <2>3, <2>4, <2>5, <2>6
    <2> QED
      BY <2>7 DEF cut, M, L
  <1>4. CASE ~ (limit > 0)
    <2>1. cut = seq
      BY <1>4 DEF Truncate
    <2> HIDE DEF cut
    <2>2. /\ cut \in Seq(S) /\ Len(cut) = L /\ L <= L
          /\ \A n \in DOMAIN cut : n \in DOMAIN seq /\ cut[n] = seq[n]
          /\ Range(cut) \subseteq Range(seq)
      BY <1>1, <2>1
    <2> HIDE DEF L
    <2>3. /\ cut \in Seq(S) /\ Len(cut) <= L
          /\ Len(cut) = IF limit > 0 THEN M ELSE L
          /\ \A n \in DOMAIN cut : n \in DOMAIN seq /\ cut[n] = seq[n]
          /\ Len(cut) = L => cut = seq
          /\ Range(cut) \subseteq Range(seq)
      BY <1>4, <2>1, <2>2
    <2> QED
      BY <2>3 DEF cut, M, L
  <1> QED
    BY <1>3, <1>4

\* A part of a list, in its order, has nothing twice that the list has once.
LEMMA PartOf ==
  ASSUME NEW S, NEW seq \in Seq(S), NoneTwice(seq),
         NEW kept \in [DOMAIN seq -> BOOLEAN]
  PROVE  /\ Where(seq, kept) \in Seq(S) /\ NoneTwice(Where(seq, kept))
         /\ Range(Where(seq, kept)) = { seq[n] : n \in { k \in DOMAIN seq : kept[k] } }
  <1> DEFINE list == Where(seq, kept)
  <1>1. list \in Seq(S) /\ \E at : Sublist(list, seq, kept, at)
    BY WhereSublist
  <1> HIDE DEF list
  <1>2. PICK at : Sublist(list, seq, kept, at)
    BY <1>1
  <1>3. Range(list) = { seq[n] : n \in { k \in DOMAIN seq : kept[k] } }
    <2>1. \A i \in DOMAIN list : at[i] \in DOMAIN seq /\ kept[at[i]] /\ list[i] = seq[at[i]]
      BY <1>2 DEF Sublist
    <2>2. \A n \in DOMAIN seq : kept[n] => \E i \in DOMAIN list : list[i] = seq[n]
      BY <1>2 DEF Sublist
    <2> QED
      BY <2>1, <2>2 DEF Range
  <1>4. NoneTwice(list)
    <2> SUFFICES ASSUME NEW i \in DOMAIN list, NEW j \in DOMAIN list, list[i].hash = list[j].hash
                 PROVE  i = j
      BY DEF NoneTwice
    <2>1. at[i] = at[j] /\ at[i] \in DOMAIN seq
      BY <1>2 DEF Sublist, NoneTwice
    <2>2. i \in Nat /\ j \in Nat /\ DOMAIN seq \subseteq Nat
      BY <1>1
    <2>3. ~ (at[i] < at[j]) /\ ~ (at[j] < at[i])
      BY <2>1, <2>2
    <2>4. ~ (i < j) /\ ~ (j < i)
      BY <1>2, <2>3 DEF Sublist
    <2> QED
      BY <2>2, <2>4
  <1> QED
    BY <1>1, <1>3, <1>4 DEF list

\* The list rebuilt around the baseline and the spot-check: the baseline in
\* front, all that was there, and nothing twice.
LEMMA RebuiltList ==
  ASSUME NEW b, NEW points, points \in Seq(Range(points)), NoneTwice(points), NEW spot
  PROVE  LET list == SkippingPlan(b, points, spot).points
             base == BaselinePoint(b)
         IN /\ list \in Seq(Range(points) \cup {base, spot}) /\ NoneTwice(list)
            /\ HashesIn(list) = HashesIn(points) \cup {base.hash, spot.hash}
            /\ list[1] = base
  <1> DEFINE base == BaselinePoint(b)
             P == Range(points) \cup {base, spot}
             kept == [n \in DOMAIN points |-> points[n].hash # base.hash]
             rest == Where(points, kept)
             first == << base >>
             joined == first \o rest
             list == AddNew(joined, spot)
  <1>1. SkippingPlan(b, points, spot).points = list
    BY DEF SkippingPlan, Others
  <1> HIDE DEF base
  <1>2. kept \in [DOMAIN points -> BOOLEAN] /\ points \in Seq(P)
    <2>1. Range(points) \subseteq P
      OBVIOUS
    <2> HIDE DEF P
    <2>2. points \in Seq(P)
      BY <2>1, ListOver
    <2> QED
      BY <2>2
  <1>3. base \in P /\ spot \in P
    OBVIOUS
  <1> HIDE DEF P
  <1>4. \A n \in DOMAIN points : kept[n] <=> points[n].hash # base.hash
    OBVIOUS
  <1> HIDE DEF kept
  <1>5. /\ rest \in Seq(P) /\ NoneTwice(rest)
        /\ Range(rest) = { points[n] : n \in { k \in DOMAIN points : kept[k] } }
    BY <1>2, PartOf
  <1>6. Range(rest) = { p \in Range(points) : p.hash # base.hash }
    BY <1>4, <1>5 DEF Range
  <1> HIDE DEF rest
  <1>7. first \in Seq(P) /\ Range(first) = {base}
    BY <1>3 DEF Range
  <1>8. joined \in Seq(P) /\ Range(joined) = {base} \cup Range(rest)
    <2> HIDE DEF first, joined
    <2>1. first \o rest \in Seq(P) /\ Range(first \o rest) = Range(first) \cup Range(rest)
      BY <1>5, <1>7, ConcatRange
    <2> QED
      BY <1>7, <2>1 DEF joined
  <1>9. /\ Len(rest) \in Nat /\ DOMAIN rest = 1 .. Len(rest)
        /\ DOMAIN joined = 1 .. (Len(rest) + 1)
        /\ joined[1] = base /\ \A n \in 2 .. (Len(rest) + 1) : joined[n] = rest[n - 1]
    BY <1>3, <1>5
  <1> HIDE DEF joined
  <1>10. NoneTwice(joined)
    <2> SUFFICES ASSUME NEW i \in DOMAIN joined, NEW j \in DOMAIN joined,
                        joined[i].hash = joined[j].hash
                 PROVE  i = j
      BY DEF NoneTwice
    <2>1. \A n \in 2 .. (Len(rest) + 1) :
            n - 1 \in DOMAIN rest /\ joined[n].hash # base.hash
      <3> TAKE n \in 2 .. (Len(rest) + 1)
      <3>1. n - 1 \in DOMAIN rest
        BY <1>9
      <3>2. rest[n - 1] \in Range(rest)
        BY <3>1 DEF Range
      <3> QED
        BY <1>6, <1>9, <3>1, <3>2
    <2>2. \A n \in DOMAIN joined : n = 1 \/ n \in 2 .. (Len(rest) + 1)
      BY <1>9
    <2>3. CASE i = 1
      BY <1>9, <2>1, <2>2, <2>3
    <2>4. CASE j = 1
      BY <1>9, <2>1, <2>2, <2>4
    <2>5. CASE i # 1 /\ j # 1
      <3>1. i \in 2 .. (Len(rest) + 1) /\ j \in 2 .. (Len(rest) + 1)
        BY <2>2, <2>5
      <3>2. rest[i - 1].hash = rest[j - 1].hash
        BY <1>9, <3>1
      <3>3. i - 1 = j - 1
        BY <1>5, <2>1, <3>1, <3>2 DEF NoneTwice
      <3> QED
        BY <1>9, <3>1, <3>3
    <2> QED
      BY <2>3, <2>4, <2>5
  <1>11. HashesIn(joined) = HashesIn(points) \cup {base.hash}
    BY <1>6, <1>8 DEF HashesIn
  <1>12. /\ list \in Seq(P) /\ NoneTwice(list)
         /\ HashesIn(list) = HashesIn(joined) \cup {spot.hash}
         /\ \A n \in DOMAIN joined : list[n] = joined[n]
    <2>1. joined \in Seq(P) /\ spot \in P
      BY <1>3, <1>8
    <2>2. /\ list \in Seq(P) /\ HashesIn(list) = HashesIn(joined) \cup {spot.hash}
          /\ NoneTwice(joined) => NoneTwice(list)
          /\ \A n \in DOMAIN joined : list[n] = joined[n]
      BY <2>1, AddNewPoint
    <2> HIDE DEF list
    <2> QED
      BY <1>10, <2>2
  <1> HIDE DEF list
  <1>13. list[1] = base
    BY <1>9, <1>12
  <1>14. HashesIn(list) = HashesIn(points) \cup {base.hash, spot.hash}
    BY <1>11, <1>12
  <1> QED
    BY <1>1, <1>12, <1>13, <1>14 DEF base, P

\* The arguments a grid admits are candidates, none of them twice.
LEMMA GridArgs ==
  ASSUME NEW b, ValidBranch(b), DeclaresLists(b), b.focused_grid # None
  PROVE  b.focused_grid.args \in Seq(CandidateNames(b)) /\ Different(b.focused_grid.args)
  <1> DEFINE args == b.focused_grid.args
  <1>1. IsInjective(args) /\ Range(args) \subseteq CandidateNames(b)
    BY DEF ValidBranch, ValidGrid
  <1>2. args \in Seq(Range(args))
    BY DEF DeclaresLists, IsList
  <1>3. args \in Seq(CandidateNames(b))
    BY <1>1, <1>2
  <1> QED
    BY <1>1, <1>3 DEF Different, IsInjective

\* What a valid branch is expanded into has no configuration twice, and neither
\* has what is selected of it.
LEMMA SelectedOnce ==
  ASSUME NEW b, ValidBranch(b), DeclaresLists(b), NEW mode,
         mode # "ofat" => b.focused_grid # None, NEW only, NEW limit \in Int
  PROVE  LET points == SelectPoints(b, mode, only, limit)
         IN points \in Seq(Range(points)) /\ NoneTwice(points)
  <1> DEFINE points == IF mode = "ofat" THEN GenerateOfat(b) ELSE GenerateGrid(b)
             kept == [n \in DOMAIN points |-> points[n].label \in only]
             some == IF only = None THEN points ELSE Where(points, kept)
             cut == Truncate(some, limit)
             S == Range(points)
  <1>1. SelectPoints(b, mode, only, limit) = cut
    BY DEF SelectPoints
  <1>2. points \in Seq(S) /\ NoneTwice(points)
    <2>1. \E P : points \in Seq(P) /\ NoneTwice(points)
      <3>1. CASE mode = "ofat"
        BY <3>1, OfatPoints
      <3>2. CASE mode # "ofat"
        <4> DEFINE args == b.focused_grid.args
                   pins == KeptPins(b.focused_grid)
                   P == { SweptPoint(b, pins, o) : o \in Joint(b, args) }
        <4>1. points = JointSweep(b, args, pins)
          BY <3>2 DEF GenerateGrid
        <4>2. args \in Seq(CandidateNames(b)) /\ Different(args)
          BY <3>2, GridArgs
        <4> HIDE DEF args, pins
        <4>3. JointSweep(b, args, pins) \in Seq(P) /\ NoneTwice(JointSweep(b, args, pins))
          BY <4>2, JointPoints
        <4> QED
          BY <4>1, <4>3
      <3> QED
        BY <3>1, <3>2
    <2> HIDE DEF points
    <2>2. Range(points) \subseteq S
      OBVIOUS
    <2> QED
      BY <2>1, <2>2, ListOver
  <1> HIDE DEF points, S
  <1>3. some \in Seq(S) /\ NoneTwice(some)
    <2>1. kept \in [DOMAIN points -> BOOLEAN]
      OBVIOUS
    <2> HIDE DEF kept
    <2>2. Where(points, kept) \in Seq(S) /\ NoneTwice(Where(points, kept))
      BY <1>2, <2>1, PartOf
    <2> QED
      BY <1>2, <2>2
  <1> HIDE DEF some
  <1>4. /\ cut \in Seq(S)
        /\ \A n \in DOMAIN cut : n \in DOMAIN some /\ cut[n] = some[n]
    BY <1>3, Truncated
  <1> HIDE DEF cut
  <1>5. NoneTwice(cut)
    BY <1>3, <1>4 DEF NoneTwice
  <1>6. cut \in Seq(Range(cut))
    BY <1>4, ListOver
  <1> QED
    BY <1>1, <1>5, <1>6

\* The list that is run has no configuration twice, and what is to be evaluated
\* by itself is in it.
LEMMA PlannedOnce ==
  ASSUME NEW b, ValidBranch(b), DeclaresLists(b), NEW mode,
         mode # "ofat" => b.focused_grid # None, NEW only, NEW limit \in Int, NEW gate
  PROVE  LET plan == Plan(b, SelectPoints(b, mode, only, limit), gate)
         IN NoneTwice(plan.points) /\ plan.evaluate_hashes \subseteq HashesIn(plan.points)
  <1> DEFINE points == SelectPoints(b, mode, only, limit)
             spot == SpotCheckPoint(b, points)
             skipping == SkippingPlan(b, points, spot)
             skips == gate /\ AccuracyInvariantSearch(b, points) /\ spot # None
             plan == Plan(b, points, gate)
  <1>1. points \in Seq(Range(points)) /\ NoneTwice(points)
    BY SelectedOnce
  <1> HIDE DEF points
  <1>2. plan = IF skips THEN skipping ELSE PerConfigPlan(points)
    BY DEF Plan
  <1> HIDE DEF spot, plan
  <1>3. /\ NoneTwice(skipping.points)
        /\ HashesIn(skipping.points) = HashesIn(points) \cup {BaselinePoint(b).hash, spot.hash}
    BY <1>1, RebuiltList
  <1>4. skipping.evaluate_hashes = {BaselinePoint(b).hash, spot.hash}
    BY DEF SkippingPlan
  <1>5. PerConfigPlan(points).points = points
        /\ PerConfigPlan(points).evaluate_hashes = HashesIn(points)
    BY DEF PerConfigPlan, HashesIn
  <1> HIDE DEF skipping, skips
  <1>6. NoneTwice(plan.points) /\ plan.evaluate_hashes \subseteq HashesIn(plan.points)
    BY <1>1, <1>2, <1>3, <1>4, <1>5
  <1> QED
    BY <1>6 DEF plan, points

=============================================================================
