-------------------------- MODULE ObjectiveProofs --------------------------
(***************************************************************************)
(* Proofs about Objective and Compare: what is ranked, reported and saved  *)
(* of every result set, whatever the number of its records.                *)
(***************************************************************************)
EXTENDS Compare, GenerateProofs

-----------------------------------------------------------------------------
(* Filters *)

\* The elements of a list for which p, a function on them, is true.
In(seq, p) == Where(seq, [n \in DOMAIN seq |-> p[seq[n]]])

LEMMA KeptBoolean ==
  ASSUME NEW S, NEW seq \in Seq(S), NEW p \in [S -> BOOLEAN]
  PROVE  [n \in DOMAIN seq |-> p[seq[n]]] \in [DOMAIN seq -> BOOLEAN]
  <1>1. \A n \in DOMAIN seq : seq[n] \in S
    BY ElementOfSeq, LenProperties
  <1> QED
    BY <1>1

\* A filtered list has just the elements for which p is true.
LEMMA InRange ==
  ASSUME NEW S, NEW seq \in Seq(S), NEW p \in [S -> BOOLEAN]
  PROVE  /\ In(seq, p) \in Seq(S)
         /\ Range(In(seq, p)) = { s \in Range(seq) : p[s] }
  <1> DEFINE kept == [n \in DOMAIN seq |-> p[seq[n]]]
             list == In(seq, p)
  <1>1. kept \in [DOMAIN seq -> BOOLEAN] /\ list = Where(seq, kept)
        /\ \A n \in DOMAIN seq : kept[n] = p[seq[n]]
    BY KeptBoolean DEF In
  <1> HIDE DEF kept, list
  <1>2. list \in Seq(S) /\ \E at : Sublist(list, seq, kept, at)
    BY <1>1, WhereSublist
  <1>3. PICK at : Sublist(list, seq, kept, at)
    BY <1>2
  <1>4. \A i \in DOMAIN list : at[i] \in DOMAIN seq /\ list[i] = seq[at[i]] /\ p[list[i]]
    BY <1>1, <1>3 DEF Sublist
  <1>5. \A n \in DOMAIN seq : p[seq[n]] => \E i \in DOMAIN list : list[i] = seq[n]
    BY <1>1, <1>3 DEF Sublist
  <1>6. Range(list) = { s \in Range(seq) : p[s] }
    BY <1>4, <1>5 DEF Range
  <1> QED
    BY <1>2, <1>6 DEF list

\* Two loops of the same steps go through the same values.
LEMMA SameLoopSame ==
  ASSUME NEW N \in Nat, NEW f, NEW g, f[0] = g[0],
         \A n \in 1 .. N : f[n - 1] = g[n - 1] => f[n] = g[n]
  PROVE  f[N] = g[N]
  <1> DEFINE T == { n \in 0 .. N : f[n] = g[n] }
  <1>1. 0 \in T /\ \A n \in 1 .. N : n - 1 \in T => n \in T
    OBVIOUS
  <1> HIDE DEF T
  <1>2. 0 .. N \subseteq T
    BY <1>1, UpTo
  <1>3. N \in T
    BY <1>2
  <1> QED
    BY <1>3 DEF T

\* What an element more makes of a filtered list.
LEMMA InAppend ==
  ASSUME NEW S, NEW seq \in Seq(S), NEW x \in S, NEW p \in [S -> BOOLEAN]
  PROVE  In(Append(seq, x), p) = IF p[x] THEN Append(In(seq, p), x) ELSE In(seq, p)
  <1> DEFINE more == Append(seq, x)
             N == Len(seq)
             kept == [n \in DOMAIN seq |-> p[seq[n]]]
             keptMore == [n \in DOMAIN more |-> p[more[n]]]
  <1>1. /\ more \in Seq(S) /\ N \in Nat /\ Len(more) = N + 1
        /\ DOMAIN seq = 1 .. N /\ DOMAIN more = 1 .. N + 1
        /\ more[N + 1] = x /\ \A n \in 1 .. N : more[n] = seq[n]
    OBVIOUS
  <1>2. /\ kept \in [DOMAIN seq -> BOOLEAN] /\ keptMore \in [DOMAIN more -> BOOLEAN]
        /\ In(seq, p) = Where(seq, kept) /\ In(more, p) = Where(more, keptMore)
    BY <1>1, KeptBoolean DEF In
  <1>3. keptMore[N + 1] = p[x] /\ \A n \in 1 .. N : keptMore[n] = kept[n]
    BY <1>1
  <1> HIDE DEF more, kept, keptMore, N
  <1>4. PICK f : /\ f[0] = << >>
                 /\ \A n \in 1 .. N :
                      f[n] = IF kept[n] THEN Append(f[n - 1], seq[n]) ELSE f[n - 1]
                 /\ Where(seq, kept) = f[N]
    BY <1>2, WhereLoop DEF N
  <1> DEFINE M == Len(more)
  <1>5. PICK g : /\ g[0] = << >>
                 /\ \A n \in 1 .. M :
                      g[n] = IF keptMore[n] THEN Append(g[n - 1], more[n]) ELSE g[n - 1]
                 /\ Where(more, keptMore) = g[M]
    <2>1. more \in Seq(S) /\ keptMore \in [DOMAIN more -> BOOLEAN]
      BY <1>1, <1>2
    <2> QED
      BY <2>1, WhereLoop
  <1>9. M = N + 1
    BY <1>1
  <1> HIDE DEF M
  <1>6. \A n \in 1 .. N : f[n - 1] = g[n - 1] => f[n] = g[n]
    BY <1>1, <1>3, <1>4, <1>5, <1>9
  <1>7. f[N] = g[N]
    <2>1. N \in Nat /\ f[0] = g[0]
      BY <1>1, <1>4, <1>5
    <2> QED
      BY <1>6, <2>1, SameLoopSame
  <1>8. g[M] = IF p[x] THEN Append(g[N], x) ELSE g[N]
    BY <1>1, <1>3, <1>5, <1>9
  <1> QED
    BY <1>2, <1>4, <1>5, <1>7, <1>8 DEF more

LEMMA InEmpty ==
  ASSUME NEW p
  PROVE  In(<< >>, p) = << >>
  <1> DEFINE none == << >>
             kept == [n \in DOMAIN none |-> p[none[n]]]
  <1>1. none \in Seq({}) /\ Len(none) = 0 /\ kept \in [DOMAIN none -> BOOLEAN]
    OBVIOUS
  <1>2. In(none, p) = Where(none, kept)
    BY DEF In
  <1> HIDE DEF kept
  <1> HIDE DEF none
  <1>3. PICK h \in [0 .. Len(none) -> Seq({})] :
               h[0] = << >> /\ Where(none, kept) = h[Len(none)]
    BY <1>1, WhereLoop
  <1>4. h[0] = << >> /\ Where(none, kept) = h[0]
    BY <1>1, <1>3
  <1> QED
    BY <1>2, <1>4 DEF none

\* Induction on a list: its beginnings, one element more at a time.
LEMMA Beginnings ==
  ASSUME NEW S, NEW seq \in Seq(S), NEW T, << >> \in T,
         \A n \in 1 .. Len(seq) : SubSeq(seq, 1, n - 1) \in T =>
                                    Append(SubSeq(seq, 1, n - 1), seq[n]) \in T
  PROVE  seq \in T
  <1> DEFINE N == Len(seq)
             Start(n) == SubSeq(seq, 1, n)
             U == { n \in 0 .. N : Start(n) \in T }
  <1>1. N \in Nat /\ DOMAIN seq = 1 .. N
    OBVIOUS
  <1>2. Start(0) = << >> /\ Start(N) = seq
    OBVIOUS
  <1>3. ASSUME NEW n \in 1 .. N
        PROVE  Start(n) = Append(Start(n - 1), seq[n])
    OBVIOUS
  <1>4. \A n \in 1 .. N : Start(n - 1) \in T => Append(Start(n - 1), seq[n]) \in T
    OBVIOUS
  <1> HIDE DEF Start, N
  <1>5. 0 \in U
    BY <1>1, <1>2
  <1>6. ASSUME NEW n \in 1 .. N, n - 1 \in U
        PROVE  n \in U
    <2>1. Start(n - 1) \in T
      BY <1>6
    <2>2. Start(n) \in T
      BY <1>3, <1>4, <2>1
    <2>3. n \in 0 .. N
      BY <1>1
    <2> QED
      BY <2>2, <2>3
  <1> HIDE DEF U
  <1>7. 0 .. N \subseteq U
    BY <1>1, <1>5, <1>6, UpTo
  <1>8. N \in U
    BY <1>1, <1>7
  <1> QED
    BY <1>2, <1>8 DEF U

\* A filter of a filtered list that keeps no more than the first one.
LEMMA InTwice ==
  ASSUME NEW S, NEW seq \in Seq(S), NEW b \in [S -> BOOLEAN], NEW p \in [S -> BOOLEAN],
         \A s \in S : p[s] => b[s]
  PROVE  In(In(seq, b), p) = In(seq, p)
  <1> DEFINE T == { s \in Seq(S) : In(In(s, b), p) = In(s, p) }
  <1>1. << >> \in T
    BY InEmpty
  <1>2. ASSUME NEW s \in T, NEW x \in S
        PROVE  Append(s, x) \in T
    <2>1. s \in Seq(S) /\ In(In(s, b), p) = In(s, p) /\ Append(s, x) \in Seq(S)
      OBVIOUS
    <2>2. In(s, b) \in Seq(S)
      BY <2>1, InRange
    <2>3. In(Append(s, x), b) = IF b[x] THEN Append(In(s, b), x) ELSE In(s, b)
      BY <2>1, InAppend
    <2>4. In(Append(s, x), p) = IF p[x] THEN Append(In(s, p), x) ELSE In(s, p)
      BY <2>1, InAppend
    <2>5. In(Append(In(s, b), x), p) = IF p[x] THEN Append(In(In(s, b), p), x)
                                               ELSE In(In(s, b), p)
      BY <2>2, InAppend
    <2>6. In(In(Append(s, x), b), p) = In(Append(s, x), p)
      BY <2>1, <2>3, <2>4, <2>5
    <2> QED
      BY <2>1, <2>6
  <1>3. \A n \in 1 .. Len(seq) : seq[n] \in S
    BY ElementOfSeq, LenProperties
  <1> HIDE DEF T
  <1>4. seq \in T
    BY <1>1, <1>2, <1>3, Beginnings
  <1> QED
    BY <1>4 DEF T

\* The first of what is kept, and when there is none.
LEMMA InFirst ==
  ASSUME NEW S, NEW seq \in Seq(S), NEW p \in [S -> BOOLEAN]
  PROVE  /\ In(seq, p) = << >> <=> \A n \in DOMAIN seq : ~p[seq[n]]
         /\ In(seq, p) # << >> =>
              \E n \in DOMAIN seq : /\ p[seq[n]] /\ In(seq, p)[1] = seq[n]
                                    /\ \A k \in 1 .. n - 1 : ~p[seq[k]]
  <1> DEFINE kept == [n \in DOMAIN seq |-> p[seq[n]]]
             list == In(seq, p)
  <1>1. kept \in [DOMAIN seq -> BOOLEAN] /\ list = Where(seq, kept)
        /\ \A n \in DOMAIN seq : kept[n] = p[seq[n]]
    BY KeptBoolean DEF In
  <1>2. DOMAIN seq = 1 .. Len(seq) /\ Len(seq) \in Nat
    OBVIOUS
  <1> HIDE DEF kept, list
  <1>3. list \in Seq(S) /\ \E at : Sublist(list, seq, kept, at)
    BY <1>1, WhereSublist
  <1>4. PICK at : Sublist(list, seq, kept, at)
    BY <1>3
  <1>5. /\ DOMAIN list = 1 .. Len(list) /\ Len(list) \in Nat
        /\ list = << >> <=> Len(list) = 0
    BY <1>3
  <1>6. /\ \A i \in DOMAIN list : at[i] \in DOMAIN seq /\ list[i] = seq[at[i]] /\ p[seq[at[i]]]
        /\ \A i, j \in DOMAIN list : i < j => at[i] < at[j]
        /\ \A n \in DOMAIN seq : p[seq[n]] => \E i \in DOMAIN list : at[i] = n
    BY <1>1, <1>4 DEF Sublist
  <1>7. list = << >> <=> \A n \in DOMAIN seq : ~p[seq[n]]
    <2>1. ASSUME list = << >>, NEW n \in DOMAIN seq, p[seq[n]] PROVE FALSE
      BY <1>5, <1>6, <2>1
    <2>2. ASSUME list # << >> PROVE 1 \in DOMAIN list
      BY <1>5, <2>2
    <2>3. ASSUME list # << >> PROVE \E n \in DOMAIN seq : p[seq[n]]
      BY <1>6, <2>2, <2>3
    <2> QED
      BY <2>1, <2>3
  <1>8. ASSUME list # << >>
        PROVE  /\ at[1] \in DOMAIN seq /\ p[seq[at[1]]] /\ list[1] = seq[at[1]]
               /\ \A k \in 1 .. at[1] - 1 : ~p[seq[k]]
    <2>1. 1 \in DOMAIN list
      BY <1>5, <1>8
    <2>2. ASSUME NEW k \in 1 .. at[1] - 1, p[seq[k]]
          PROVE  FALSE
      <3>1. k \in DOMAIN seq /\ k < at[1]
        BY <1>2, <1>6, <2>1
      <3>2. PICK i \in DOMAIN list : at[i] = k
        BY <1>6, <2>2, <3>1
      <3>3. i = 1 \/ 1 < i
        BY <1>5
      <3> QED
        BY <1>2, <1>6, <2>1, <3>1, <3>2, <3>3
    <2> QED
      BY <1>6, <2>1, <2>2
  <1> QED
    BY <1>7, <1>8 DEF list

-----------------------------------------------------------------------------
(* Metrics *)

Numeric(metrics) ==
  \A key \in DOMAIN metrics : \A stat \in DOMAIN metrics[key] : metrics[key][stat] \in Int

\* The first key with a value decides; there is none if no key has one.
LEMMA MetricSelected ==
  ASSUME NEW metrics, Numeric(metrics), NEW K, NEW keys \in Seq(K), NEW stat
  PROVE  /\ SelectMetric(metrics, keys, stat) \in Int \cup {None}
         /\ SelectMetric(metrics, keys, stat) = None <=>
              \A n \in DOMAIN keys : MetricValue(metrics, keys[n], stat) = None
  <1> DEFINE p == [k \in K |-> MetricValue(metrics, k, stat) # None]
             present == Those(keys, LAMBDA k : MetricValue(metrics, k, stat) # None)
  <1>1. p \in [K -> BOOLEAN]
    OBVIOUS
  <1>2. \A n \in DOMAIN keys : keys[n] \in K
    BY ElementOfSeq, LenProperties
  <1>3. present = In(keys, p)
    <2>1. [n \in DOMAIN keys |-> MetricValue(metrics, keys[n], stat) # None]
            = [n \in DOMAIN keys |-> p[keys[n]]]
      BY <1>2
    <2> QED
      BY <2>1 DEF Those, In
  <1>4. SelectMetric(metrics, keys, stat) =
          IF present = << >> THEN None ELSE MetricValue(metrics, present[1], stat)
    BY DEF SelectMetric
  <1>5. \A n \in DOMAIN keys : p[keys[n]] <=> MetricValue(metrics, keys[n], stat) # None
    BY <1>2
  <1> HIDE DEF present, p
  <1>6. /\ present = << >> <=> \A n \in DOMAIN keys : ~p[keys[n]]
        /\ present # << >> => \E n \in DOMAIN keys : p[keys[n]] /\ present[1] = keys[n]
    BY <1>1, <1>3, InFirst
  <1>7. \A k : MetricValue(metrics, k, stat) \in Int \cup {None}
    BY DEF MetricValue, Get, Numeric
  <1>8. present # << >> => MetricValue(metrics, present[1], stat) # None
    BY <1>5, <1>6
  <1> QED
    BY <1>4, <1>5, <1>6, <1>7, <1>8

MetricKeys ==
  {"per_token_p95_ms", "per_token_ms", "decode_throughput_tok_s",
   "output_throughput_tok_s", "overall_throughput_tok_s"}

LEMMA KeyLists ==
  PER_TOKEN_KEYS \in Seq(MetricKeys) /\ THROUGHPUT_KEYS \in Seq(MetricKeys)
  <1>1. \A S : \A a, b, c \in S : <<a, b>> \in Seq(S) /\ <<a, b, c>> \in Seq(S)
    OBVIOUS
  <1>2. /\ {"per_token_p95_ms", "per_token_ms"} \subseteq MetricKeys
        /\ {"decode_throughput_tok_s", "output_throughput_tok_s", "overall_throughput_tok_s"}
             \subseteq MetricKeys
    BY DEF MetricKeys
  <1> QED
    BY <1>1, <1>2 DEF PER_TOKEN_KEYS, THROUGHPUT_KEYS

\* What an entry is placed by.
LEMMA EntryNumbers ==
  ASSUME NEW r, Numeric(r.metrics), NEW stat, HasEntry(r, stat)
  PROVE  ToEntry(r, stat).throughput \in Int /\ ToEntry(r, stat).per_token_ms \in Int
  BY MetricSelected, KeyLists DEF HasEntry, ToEntry

-----------------------------------------------------------------------------
(* The frontier of a list of entries *)

Placeable(e) == e.throughput \in Int /\ e.per_token_ms \in Int

AsGood(f, e) == f.throughput >= e.throughput /\ f.per_token_ms <= e.per_token_ms

LEMMA DominanceOrder ==
  ASSUME NEW e, NEW f, NEW g, Placeable(e), Placeable(f), Placeable(g)
  PROVE  /\ ~Dominates(e, e)
         /\ Dominates(e, f) /\ Dominates(f, g) => Dominates(e, g)
         /\ Dominates(e, f) /\ AsGood(f, g) => AsGood(e, g)
         /\ AsGood(e, e)
  BY DEF Placeable, Dominates, AsGood

LEMMA AheadOrder ==
  ASSUME NEW e, NEW f, NEW g, Placeable(e), Placeable(f), Placeable(g)
  PROVE  /\ Ahead(e, f) => ~Ahead(f, e)
         /\ Ahead(e, f) /\ Ahead(f, g) => Ahead(e, g)
         /\ ~Ahead(e, f) => f.throughput >= e.throughput
  BY DEF Placeable, Ahead

\* The undominated entries, and each entry is matched by one of them.
LEMMA Undominated ==
  ASSUME NEW E, \A e \in E : Placeable(e), NEW entries \in Seq(E)
  PROVE  /\ ParetoFrontier(entries) \in Seq(E)
         /\ Range(ParetoFrontier(entries)) =
              { e \in Range(entries) : \A f \in Range(entries) : ~Dominates(f, e) }
         /\ \A e \in Range(entries) : \E f \in Range(ParetoFrontier(entries)) : AsGood(f, e)
  <1> DEFINE N == Len(entries)
             kept == [n \in DOMAIN entries |->
                        \A k \in DOMAIN entries \ {n} : ~Dominates(entries[k], entries[n])]
             list == Where(entries, kept)
  <1>1. /\ N \in Nat /\ DOMAIN entries = 1 .. N
        /\ \A n \in 1 .. N : entries[n] \in E /\ Placeable(entries[n])
    OBVIOUS
  <1>2. kept \in [DOMAIN entries -> BOOLEAN] /\ ParetoFrontier(entries) = list
    BY DEF ParetoFrontier
  <1>3. \A n \in 1 .. N : kept[n] <=> \A k \in 1 .. N : ~Dominates(entries[k], entries[n])
    BY <1>1, DominanceOrder
  <1> HIDE DEF kept, list
  <1>4. list \in Seq(E) /\ \E at : Sublist(list, entries, kept, at)
    BY <1>2, WhereSublist DEF list
  <1>5. PICK at : Sublist(list, entries, kept, at)
    BY <1>4
  <1>6. /\ \A i \in DOMAIN list : at[i] \in 1 .. N /\ list[i] = entries[at[i]] /\ kept[at[i]]
        /\ \A n \in 1 .. N : kept[n] => \E i \in DOMAIN list : list[i] = entries[n]
    BY <1>1, <1>5 DEF Sublist
  <1>7. Range(list) = { e \in Range(entries) : \A f \in Range(entries) : ~Dominates(f, e) }
    <2>1. ASSUME NEW i \in DOMAIN list
          PROVE  /\ list[i] \in Range(entries)
                 /\ \A f \in Range(entries) : ~Dominates(f, list[i])
      BY <1>1, <1>3, <1>6 DEF Range
    <2>2. ASSUME NEW e \in Range(entries), \A f \in Range(entries) : ~Dominates(f, e)
          PROVE  \E i \in DOMAIN list : list[i] = e
      <3>1. PICK n \in 1 .. N : e = entries[n]
        BY <1>1 DEF Range
      <3>2. kept[n]
        BY <1>1, <1>3, <2>2, <3>1 DEF Range
      <3> QED
        BY <1>6, <3>1, <3>2
    <2> QED
      BY <2>1, <2>2 DEF Range
  <1>8. ASSUME NEW e \in Range(entries)
        PROVE  \E f \in Range(list) : AsGood(f, e)
    <2> DEFINE T == { m \in 0 .. N : \E n \in 1 .. N :
                        /\ AsGood(entries[n], e)
                        /\ \A k \in 1 .. m : ~Dominates(entries[k], entries[n]) }
    <2>1. PICK first \in 1 .. N : e = entries[first]
      BY <1>1 DEF Range
    <2>2. 0 \in T
      BY <1>1, <2>1, DominanceOrder
    <2>3. ASSUME NEW m \in 1 .. N, m - 1 \in T
          PROVE  m \in T
      <3>1. PICK n \in 1 .. N :
              /\ AsGood(entries[n], e)
              /\ \A k \in 1 .. m - 1 : ~Dominates(entries[k], entries[n])
        BY <2>3
      <3>2. CASE ~Dominates(entries[m], entries[n])
        <4>1. \A k \in 1 .. m : ~Dominates(entries[k], entries[n])
          BY <3>1, <3>2
        <4> QED
          BY <1>1, <3>1, <4>1
      <3>3. CASE Dominates(entries[m], entries[n])
        <4>1. AsGood(entries[m], e)
          BY <1>1, <2>1, <3>1, <3>3, DominanceOrder
        <4>2. ASSUME NEW k \in 1 .. m
              PROVE  ~Dominates(entries[k], entries[m])
          <5>1. k \in 1 .. N /\ (k = m \/ k \in 1 .. m - 1)
            BY <1>1
          <5> QED
            BY <1>1, <3>1, <3>3, <5>1, DominanceOrder
        <4> QED
          BY <1>1, <4>1, <4>2
      <3> QED
        BY <3>2, <3>3
    <2>4. N \in T
      <3> HIDE DEF T
      <3>1. 0 .. N \subseteq T
        BY <1>1, <2>2, <2>3, UpTo
      <3> QED
        BY <1>1, <3>1
    <2>5. PICK n \in 1 .. N : AsGood(entries[n], e) /\ kept[n]
      BY <1>3, <2>4
    <2> QED
      BY <1>6, <2>5 DEF Range
  <1> QED
    BY <1>2, <1>4, <1>7, <1>8

-----------------------------------------------------------------------------
(* The ranking *)

Sorted(list) == \A i, j \in DOMAIN list : i < j => ~Ahead(list[j], list[i])

LEMMA InSorted ==
  ASSUME NEW S, NEW seq \in Seq(S), NEW p \in [S -> BOOLEAN], Sorted(seq)
  PROVE  Sorted(In(seq, p))
  <1> DEFINE kept == [n \in DOMAIN seq |-> p[seq[n]]]
             list == In(seq, p)
  <1>1. kept \in [DOMAIN seq -> BOOLEAN] /\ list = Where(seq, kept)
    BY KeptBoolean DEF In
  <1> HIDE DEF kept, list
  <1>2. \E at : Sublist(list, seq, kept, at)
    BY <1>1, WhereSublist
  <1>3. PICK at : Sublist(list, seq, kept, at)
    BY <1>2
  <1>4. /\ \A i \in DOMAIN list : at[i] \in DOMAIN seq /\ list[i] = seq[at[i]]
        /\ \A i, j \in DOMAIN list : i < j => at[i] < at[j]
    BY <1>3 DEF Sublist
  <1>5. Sorted(list)
    BY <1>4 DEF Sorted
  <1> QED
    BY <1>5 DEF list

\* Putting an entry in its place keeps the order.
LEMMA PlacedSorted ==
  ASSUME NEW E, \A e \in E : Placeable(e), NEW list \in Seq(E), Sorted(list), NEW entry \in E
  PROVE  /\ Placed(list, entry) \in Seq(E)
         /\ Range(Placed(list, entry)) = Range(list) \cup {entry}
         /\ Sorted(Placed(list, entry))
  <1> DEFINE behind == [e \in E |-> Ahead(entry, e)]
             before == [e \in E |-> ~Ahead(entry, e)]
             front == In(list, before)
             back == In(list, behind)
             placed == Placed(list, entry)
  <1>1. before \in [E -> BOOLEAN] /\ behind \in [E -> BOOLEAN]
    BY DEF Ahead
  <1>2. placed = (front \o <<entry>>) \o back
    <2>1. \A n \in DOMAIN list : list[n] \in E
      BY ElementOfSeq, LenProperties
    <2>2. /\ [n \in DOMAIN list |-> ~Ahead(entry, list[n])] = [n \in DOMAIN list |-> before[list[n]]]
          /\ [n \in DOMAIN list |-> Ahead(entry, list[n])] = [n \in DOMAIN list |-> behind[list[n]]]
      BY <2>1
    <2> QED
      BY <2>2 DEF Placed, Those, In
  <1>3. /\ front \in Seq(E) /\ Range(front) = { e \in Range(list) : before[e] } /\ Sorted(front)
        /\ back \in Seq(E) /\ Range(back) = { e \in Range(list) : behind[e] } /\ Sorted(back)
    <2> HIDE DEF before, behind
    <2>1. front \in Seq(E) /\ Range(front) = { e \in Range(list) : before[e] }
      BY <1>1, InRange
    <2>2. back \in Seq(E) /\ Range(back) = { e \in Range(list) : behind[e] }
      BY <1>1, InRange
    <2>3. Sorted(front) /\ Sorted(back)
      BY <1>1, InSorted
    <2> QED
      BY <2>1, <2>2, <2>3
  <1>4. \A e \in E : (before[e] <=> ~Ahead(entry, e)) /\ (behind[e] <=> Ahead(entry, e))
    OBVIOUS
  <1>5. Range(list) \subseteq E
    BY ElementOfSeq, LenProperties DEF Range
  <1> HIDE DEF front, back, placed, before, behind
  <1> DEFINE F == Len(front)
             B == Len(back)
  <1>6. /\ F \in Nat /\ B \in Nat /\ DOMAIN front = 1 .. F /\ DOMAIN back = 1 .. B
        /\ placed \in Seq(E) /\ DOMAIN placed = 1 .. F + 1 + B
        /\ \A i \in 1 .. F : placed[i] = front[i]
        /\ placed[F + 1] = entry
        /\ \A i \in 1 .. B : placed[F + 1 + i] = back[i]
    BY <1>2, <1>3
  <1>7. /\ \A i \in 1 .. F : front[i] \in Range(list) /\ ~Ahead(entry, front[i]) /\ front[i] \in E
        /\ \A i \in 1 .. B : back[i] \in Range(list) /\ Ahead(entry, back[i]) /\ back[i] \in E
    BY <1>3, <1>4, <1>5, <1>6 DEF Range
  <1> HIDE DEF F, B
  <1>8. \A i \in 1 .. F + 1 + B :
          i \in 1 .. F \/ i = F + 1 \/ \E j \in 1 .. B : i = F + 1 + j
    <2>1. \A i \in 1 .. F + 1 + B : ~(i <= F + 1) => i - F - 1 \in 1 .. B /\ i = F + 1 + (i - F - 1)
      BY <1>6
    <2> QED
      BY <1>6, <2>1
  <1>9. Range(placed) = Range(list) \cup {entry}
    <2>1. \A e \in Range(list) : (\E i \in 1 .. F : front[i] = e) \/ (\E i \in 1 .. B : back[i] = e)
      <3>1. \A e \in Range(list) : e \in Range(front) \/ e \in Range(back)
        BY <1>3, <1>4, <1>5
      <3>2. /\ \A e \in Range(front) : \E i \in 1 .. F : front[i] = e
            /\ \A e \in Range(back) : \E i \in 1 .. B : back[i] = e
        BY <1>6 DEF Range
      <3> QED
        BY <3>1, <3>2
    <2>2. \A i \in 1 .. F : i \in DOMAIN placed
      BY <1>6
    <2>3. \A i \in 1 .. B : F + 1 + i \in DOMAIN placed
      BY <1>6
    <2>4. F + 1 \in DOMAIN placed
      BY <1>6
    <2>5. Range(list) \cup {entry} \subseteq Range(placed)
      BY <1>6, <2>1, <2>2, <2>3, <2>4 DEF Range
    <2>6. Range(placed) \subseteq Range(list) \cup {entry}
      <3>1. \A i \in 1 .. F + 1 + B : placed[i] \in Range(list) \cup {entry}
        BY <1>6, <1>7, <1>8
      <3>2. \A e \in Range(placed) : \E i \in 1 .. F + 1 + B : e = placed[i]
        BY <1>6 DEF Range
      <3> QED
        BY <3>1, <3>2
    <2> QED
      BY <2>5, <2>6
  <1>10. Sorted(placed)
    <2> SUFFICES ASSUME NEW i \in 1 .. F + 1 + B, NEW j \in 1 .. F + 1 + B, i < j
                 PROVE  ~Ahead(placed[j], placed[i])
      BY <1>6 DEF Sorted
    <2>1. CASE i \in 1 .. F /\ j \in 1 .. F
      BY <1>3, <1>6, <2>1 DEF Sorted
    <2>2. CASE i \in 1 .. F /\ j = F + 1
      BY <1>6, <1>7, <2>2
    <2>3. CASE i \in 1 .. F /\ \E k \in 1 .. B : j = F + 1 + k
      BY <1>6, <1>7, <2>3, AheadOrder
    <2>4. CASE i = F + 1 /\ \E k \in 1 .. B : j = F + 1 + k
      BY <1>6, <1>7, <2>4, AheadOrder
    <2>5. CASE (\E k \in 1 .. B : i = F + 1 + k) /\ \E k \in 1 .. B : j = F + 1 + k
      <3>1. PICK k \in 1 .. B, l \in 1 .. B : i = F + 1 + k /\ j = F + 1 + l
        BY <2>5
      <3>2. k < l
        BY <1>6, <3>1
      <3> QED
        BY <1>3, <1>6, <3>1, <3>2 DEF Sorted
    <2>6. ~(j <= F + 1 /\ i \notin 1 .. F)
      BY <1>6
    <2>7. i \notin 1 .. F => ~(j \in 1 .. F \/ j = F + 1)
      BY <1>6, <2>6
    <2> QED
      BY <1>8, <2>1, <2>2, <2>3, <2>4, <2>5, <2>7
  <1> QED
    BY <1>6, <1>9, <1>10 DEF placed

\* The ranking of entries is in order and has just them.
LEMMA RankedInOrder ==
  ASSUME NEW E, \A e \in E : Placeable(e), NEW entries \in Seq(E)
  PROVE  /\ Ranked(entries) \in Seq(E)
         /\ Range(Ranked(entries)) = Range(entries)
         /\ Sorted(Ranked(entries))
  <1> DEFINE N == Len(entries)
             Lists == { list \in Seq(E) : Sorted(list) }
             step == [n \in 1 .. N |-> [list \in Lists |-> Placed(list, entries[n])]]
             IsHistory(h) ==
               h = [n \in 0 .. N |-> IF n = 0 THEN << >> ELSE Placed(h[n - 1], entries[n])]
  <1>1. N \in Nat /\ DOMAIN entries = 1 .. N /\ \A n \in 1 .. N : entries[n] \in E
    OBVIOUS
  <1>2. \A n \in 1 .. N : \A list \in Lists : Placed(list, entries[n]) \in Lists
    BY <1>1, PlacedSorted
  <1>3. << >> \in Lists
    BY DEF Sorted
  <1>4. \A list \in Lists : list \in Seq(E) /\ Sorted(list)
    OBVIOUS
  <1> HIDE DEF N, Lists
  <1>5. step \in [1 .. N -> [Lists -> Lists]]
    BY <1>2
  <1>6. \A n \in 1 .. N : \A list \in Lists : step[n][list] = Placed(list, entries[n])
    OBVIOUS
  <1> HIDE DEF step
  <1>7. PICK h \in [0 .. N -> Lists] : IsLoop(h, N, << >>, step)
    BY <1>1, <1>3, <1>5, LoopExists
  <1>8. \A n \in 1 .. N : n - 1 \in 0 .. N /\ h[n - 1] \in Lists
    BY <1>1
  <1>9. h[0] = << >> /\ \A n \in 1 .. N : h[n] = Placed(h[n - 1], entries[n])
    BY <1>6, <1>7, <1>8 DEF IsLoop
  <1>10. IsHistory(h)
    BY <1>1, <1>9
  <1> DEFINE g == CHOOSE f : IsHistory(f)
  <1>11. IsHistory(g)
    <2> HIDE DEF IsHistory
    <2> QED
      BY <1>10
  <1>12. Ranked(entries) = g[N]
    BY DEF Ranked, N
  <1>13. g[0] = << >> /\ \A n \in 1 .. N : g[n] = Placed(g[n - 1], entries[n])
    <2> HIDE DEF g
    <2>1. \A n \in 0 .. N : g[n] = IF n = 0 THEN << >> ELSE Placed(g[n - 1], entries[n])
      BY <1>11
    <2> QED
      BY <1>1, <2>1
  <1> HIDE DEF g
  <1> DEFINE Upto(n) == { entries[k] : k \in 1 .. n }
             T == { n \in 0 .. N : g[n] \in Lists /\ Range(g[n]) = Upto(n) }
  <1>14. 0 \in T
    BY <1>1, <1>3, <1>13 DEF Range
  <1>15. ASSUME NEW n \in 1 .. N, n - 1 \in T
         PROVE  n \in T
    <2>1. g[n - 1] \in Lists /\ Range(g[n - 1]) = Upto(n - 1)
      BY <1>15
    <2>2. /\ g[n] = Placed(g[n - 1], entries[n]) /\ g[n] \in Lists
          /\ Range(g[n]) = Upto(n - 1) \cup {entries[n]}
      <3>1. g[n] = Placed(g[n - 1], entries[n])
        BY <1>13
      <3>2. g[n] \in Lists
        BY <1>2, <2>1, <3>1
      <3>3. g[n - 1] \in Seq(E) /\ Sorted(g[n - 1]) /\ entries[n] \in E
        BY <1>1, <1>4, <2>1
      <3>4. Range(Placed(g[n - 1], entries[n])) = Range(g[n - 1]) \cup {entries[n]}
        BY <3>3, PlacedSorted
      <3> QED
        BY <2>1, <3>1, <3>2, <3>4
    <2>3. Upto(n) = Upto(n - 1) \cup {entries[n]}
      BY <1>1
    <2> QED
      BY <1>1, <2>2, <2>3
  <1>16. g[N] \in Lists /\ Range(g[N]) = Upto(N)
    <2> HIDE DEF T
    <2>1. 0 .. N \subseteq T
      BY <1>1, <1>14, <1>15, UpTo
    <2>2. N \in T
      BY <1>1, <2>1
    <2> QED
      BY <2>2 DEF T
  <1>17. Upto(N) = Range(entries)
    BY <1>1 DEF Range
  <1> QED
    BY <1>4, <1>12, <1>16, <1>17

-----------------------------------------------------------------------------
(* The gate *)

\* The place of the record that decides the reference of a branch.
IsReference(records, name, n) ==
  /\ n \in DOMAIN records
  /\ records[n].branch = name /\ records[n].config_label = BaselineLabel
  /\ \A k \in 1 .. n - 1 : ~(/\ records[k].branch = name
                             /\ records[k].config_label = BaselineLabel)

LEMMA ReferenceScore ==
  ASSUME NEW R, NEW records \in Seq(R), NEW name
  PROVE  /\ \A n : IsReference(records, name, n) =>
                     BranchBaselineScore(records, name) = ScoreOf(records[n].accuracy)
         /\ (\A n : ~IsReference(records, name, n)) => BranchBaselineScore(records, name) = None
  <1> DEFINE p == [r \in R |-> r.branch = name /\ r.config_label = BaselineLabel]
             list == Those(records, LAMBDA r : /\ r.branch = name
                                               /\ r.config_label = BaselineLabel)
             N == Len(records)
  <1>1. N \in Nat /\ DOMAIN records = 1 .. N /\ \A n \in 1 .. N : records[n] \in R
    OBVIOUS
  <1>2. p \in [R -> BOOLEAN]
    OBVIOUS
  <1>3. \A n \in 1 .. N : p[records[n]] <=> /\ records[n].branch = name
                                            /\ records[n].config_label = BaselineLabel
    BY <1>1
  <1>4. list = In(records, p)
    <2>1. [n \in DOMAIN records |-> /\ records[n].branch = name
                                    /\ records[n].config_label = BaselineLabel]
            = [n \in DOMAIN records |-> p[records[n]]]
      BY <1>1
    <2> QED
      BY <2>1 DEF Those, In
  <1>5. BranchBaselineScore(records, name) =
          IF list = << >> THEN None ELSE ScoreOf(list[1].accuracy)
    BY DEF BranchBaselineScore
  <1> HIDE DEF p, list, N
  <1>6. /\ list = << >> <=> \A n \in 1 .. N : ~p[records[n]]
        /\ list # << >> => \E n \in 1 .. N : /\ p[records[n]] /\ list[1] = records[n]
                                             /\ \A k \in 1 .. n - 1 : ~p[records[k]]
    BY <1>1, <1>2, <1>4, InFirst
  <1>7. \A n : IsReference(records, name, n) <=>
                 n \in 1 .. N /\ p[records[n]] /\ \A k \in 1 .. n - 1 : ~p[records[k]]
    <2> SUFFICES ASSUME NEW n
                 PROVE  IsReference(records, name, n) <=>
                          n \in 1 .. N /\ p[records[n]] /\ \A k \in 1 .. n - 1 : ~p[records[k]]
      OBVIOUS
    <2>1. n \in 1 .. N => \A k \in 1 .. n - 1 : k \in 1 .. N
      BY <1>1
    <2> QED
      BY <1>1, <1>3, <2>1 DEF IsReference
  <1>8. ASSUME NEW n, NEW m, n \in 1 .. N, p[records[n]], \A k \in 1 .. n - 1 : ~p[records[k]],
               m \in 1 .. N, p[records[m]], \A k \in 1 .. m - 1 : ~p[records[k]]
        PROVE  n = m
    <2>1. ~(n < m) /\ ~(m < n)
      BY <1>1, <1>8
    <2> QED
      BY <1>1, <1>8, <2>1
  <1>9. ASSUME list # << >>
        PROVE  \E n : IsReference(records, name, n) /\ list[1] = records[n]
    BY <1>6, <1>7, <1>9
  <1>10. ASSUME NEW n, IsReference(records, name, n)
         PROVE  BranchBaselineScore(records, name) = ScoreOf(records[n].accuracy)
    <2>1. list # << >>
      BY <1>6, <1>7, <1>10
    <2>2. PICK m : IsReference(records, name, m) /\ list[1] = records[m]
      BY <1>9, <2>1
    <2>3. n = m
      BY <1>7, <1>8, <1>10, <2>2
    <2> QED
      BY <1>5, <2>1, <2>2, <2>3
  <1>11. ASSUME \A n : ~IsReference(records, name, n)
         PROVE  BranchBaselineScore(records, name) = None
    BY <1>5, <1>9, <1>11
  <1> QED
    BY <1>10, <1>11

\* What is assumed of a record.
Meant(r) == r.quality_pass \in BOOLEAN \cup {None} /\ Numeric(r.metrics)

LEMMA RequestRecords ==
  ASSUME NEW req \in Requests
  PROVE  /\ req.records \in Seq(Range(req.records))
         /\ \A r \in Range(req.records) : Meant(r)
         /\ req.branches \in Seq(Range(req.branches))
  BY RecordsMeant DEF IsList, Meant, Numeric

\* The gate of the code and the gate as the properties state it.
LEMMA GateCleared ==
  ASSUME request \in Requests, NEW r \in Range(request.records)
  PROVE  ClearsGate(r) <=> RecordQualityPass(r, BranchBaselineScore(request.records, r.branch))
  <1> DEFINE records == request.records
             ref == BranchBaselineScore(records, r.branch)
             N == Len(records)
             Comparable(n) == /\ {records[n].accuracy, r.accuracy} \subseteq Scores
                              /\ Degradation(r.accuracy, records[n].accuracy) <= Tolerance
  <1>1. records \in Seq(Range(records)) /\ Meant(r)
    BY RequestRecords
  <1>2. ClearsGate(r) <=> \/ r.quality_pass = TRUE
                          \/ /\ r.quality_pass = None
                             /\ \E n : IsReference(records, r.branch, n) /\ Comparable(n)
    BY DEF ClearsGate, IsReference
  <1>3. /\ \A n : IsReference(records, r.branch, n) => ref = ScoreOf(records[n].accuracy)
        /\ (\A n : ~IsReference(records, r.branch, n)) => ref = None
    BY <1>1, ReferenceScore
  <1> SUFFICES ClearsGate(r) <=> RecordQualityPass(r, ref)
    OBVIOUS
  <1> HIDE DEF ref, records
  <1>4. None \notin Scores /\ None \notin BOOLEAN
    BY RecordsMeant DEF Scores
  <1>5. CASE r.quality_pass = TRUE
    BY <1>2, <1>5 DEF RecordQualityPass
  <1>6. CASE r.quality_pass = FALSE
    <2>1. r.quality_pass # None /\ r.quality_pass # TRUE
      BY <1>4, <1>6
    <2>2. RecordQualityPass(r, ref) = FALSE
      BY <1>6 DEF RecordQualityPass
    <2> QED
      BY <1>2, <2>1, <2>2
  <1>7. CASE r.quality_pass = None
    <2>1. RecordQualityPass(r, ref) <=> Passes(ScoreOf(r.accuracy), ref)
      BY <1>4, <1>7 DEF RecordQualityPass
    <2>2. r.quality_pass # TRUE
      BY <1>4, <1>7
    <2>3. ClearsGate(r) <=> \E n : IsReference(records, r.branch, n) /\ Comparable(n)
      BY <1>2, <1>7, <2>2
    <2>4. CASE \A n : ~IsReference(records, r.branch, n)
      <3>1. ref = None
        BY <1>3, <2>4
      <3> QED
        BY <2>1, <2>3, <2>4, <3>1 DEF Passes
    <2>5. CASE \E n : IsReference(records, r.branch, n)
      <3>1. ASSUME NEW n, IsReference(records, r.branch, n)
            PROVE  Comparable(n) <=> Passes(ScoreOf(r.accuracy), ref)
        <4>1. ref = ScoreOf(records[n].accuracy)
          BY <1>3, <3>1
        <4> QED
          BY <1>4, <4>1 DEF Passes, ScoreOf
      <3> HIDE DEF Comparable
      <3> QED
        BY <2>1, <2>3, <2>5, <3>1
    <2> QED
      BY <2>4, <2>5
  <1>8. r.quality_pass \in BOOLEAN \cup {None}
    BY <1>1 DEF Meant
  <1> QED
    BY <1>5, <1>6, <1>7, <1>8

-----------------------------------------------------------------------------
(* The frontier of a branch *)

Eligible(records, name, stat, gate, r) ==
  /\ r.branch = name
  /\ PassesSLO(r, stat)
  /\ PassesQualityGate(r, gate, GateBaselineScore(records, name, gate))
  /\ HasEntry(r, stat)

EntriesOf(records, name, stat, gate) ==
  { ToEntry(r, stat) : r \in { q \in Range(records) : Eligible(records, name, stat, gate, q) } }

\* The entries are those of the eligible records, the frontier is the undominated
\* ones of them in order.
LEMMA Built ==
  ASSUME NEW R, NEW records \in Seq(R), \A r \in R : Meant(r), NEW name, NEW stat, NEW gate
  PROVE  LET built   == BuildFrontier(records, name, stat, gate)
             entries == EntriesOf(records, name, stat, gate)
         IN /\ built.entries \in Seq(entries) /\ Range(built.entries) = entries
            /\ \A e \in entries : Placeable(e)
            /\ built.frontier \in Seq(entries) /\ Sorted(built.frontier)
            /\ Range(built.frontier) =
                 { e \in entries : \A f \in entries : ~Dominates(f, e) }
            /\ \A e \in entries : \E f \in Range(built.frontier) : AsGood(f, e)
  <1> DEFINE built == BuildFrontier(records, name, stat, gate)
             E == EntriesOf(records, name, stat, gate)
             ref == GateBaselineScore(records, name, gate)
             p == [r \in R |-> Eligible(records, name, stat, gate, r)]
             selected == Those(records, LAMBDA r : /\ r.branch = name
                                                   /\ PassesSLO(r, stat)
                                                   /\ PassesQualityGate(r, gate, ref)
                                                   /\ HasEntry(r, stat))
             entries == [n \in DOMAIN selected |-> ToEntry(selected[n], stat)]
  <1>1. /\ built.entries = entries
        /\ built.frontier = Ranked(ParetoFrontier(entries))
    BY DEF BuildFrontier
  <1>2. \A n \in DOMAIN records : records[n] \in R
    BY ElementOfSeq, LenProperties
  <1>3. p \in [R -> BOOLEAN] /\ \A r \in R : p[r] <=> Eligible(records, name, stat, gate, r)
    BY DEF Eligible
  <1>4. selected = In(records, p)
    <2>1. [n \in DOMAIN records |-> /\ records[n].branch = name
                                    /\ PassesSLO(records[n], stat)
                                    /\ PassesQualityGate(records[n], gate, ref)
                                    /\ HasEntry(records[n], stat)]
            = [n \in DOMAIN records |-> p[records[n]]]
      BY <1>2 DEF Eligible
    <2> QED
      BY <2>1 DEF Those, In
  <1> HIDE DEF selected, p, ref, built
  <1>5. selected \in Seq(R) /\ Range(selected) = { r \in Range(records) : p[r] }
    BY <1>3, <1>4, InRange
  <1>6. Range(records) \subseteq R
    BY <1>2 DEF Range
  <1>7. Range(selected) = { q \in Range(records) : Eligible(records, name, stat, gate, q) }
    BY <1>3, <1>5, <1>6
  <1>8. E = { ToEntry(r, stat) : r \in Range(selected) }
    BY <1>7 DEF EntriesOf
  <1>9. \A e \in E : Placeable(e)
    <2>1. ASSUME NEW r \in Range(selected)
          PROVE  Placeable(ToEntry(r, stat))
      <3>1. r \in R /\ HasEntry(r, stat)
        BY <1>6, <1>7, <2>1 DEF Eligible
      <3>2. Numeric(r.metrics)
        BY <3>1 DEF Meant
      <3> QED
        BY <3>1, <3>2, EntryNumbers DEF Placeable
    <2> QED
      BY <1>8, <2>1
  <1>10. entries \in Seq(E) /\ Range(entries) = E
    <2> DEFINE N == Len(selected)
    <2>1. N \in Nat /\ DOMAIN selected = 1 .. N /\ entries = [n \in 1 .. N |-> ToEntry(selected[n], stat)]
      BY <1>5
    <2>2. \A n \in 1 .. N : selected[n] \in Range(selected)
      BY <2>1 DEF Range
    <2>3. \A n \in 1 .. N : ToEntry(selected[n], stat) \in E
      BY <1>8, <2>2
    <2> HIDE DEF N, E, entries
    <2>4. entries \in [1 .. N -> E]
      BY <2>1, <2>3
    <2>5. entries \in Seq(E)
      BY <2>1, <2>4, SequenceOf
    <2>6. \A r \in Range(selected) : \E n \in 1 .. N : r = selected[n]
      BY <2>1 DEF Range
    <2>7. \A e \in E : \E n \in 1 .. N : e = entries[n]
      BY <1>8, <2>1, <2>6
    <2>8. Range(entries) = E
      BY <2>1, <2>4, <2>7 DEF Range
    <2> QED
      BY <2>5, <2>8
  <1> HIDE DEF entries, E
  <1> DEFINE pareto == ParetoFrontier(entries)
  <1>11. /\ pareto \in Seq(E)
         /\ Range(pareto) = { e \in E : \A f \in E : ~Dominates(f, e) }
         /\ \A e \in E : \E f \in Range(pareto) : AsGood(f, e)
    BY <1>9, <1>10, Undominated
  <1> HIDE DEF pareto
  <1>12. Ranked(pareto) \in Seq(E) /\ Range(Ranked(pareto)) = Range(pareto) /\ Sorted(Ranked(pareto))
    BY <1>9, <1>11, RankedInOrder
  <1>13. /\ built.entries \in Seq(E) /\ Range(built.entries) = E
         /\ built.frontier = Ranked(pareto)
    BY <1>1, <1>10 DEF pareto
  <1> QED
    BY <1>9, <1>11, <1>12, <1>13 DEF built, E

-----------------------------------------------------------------------------
(* The invariant of the command *)

\* Every report is that of its branch, asked about only if it was known; what is
\* to be saved is from the frontiers reported, and what is saved is all of it.
ObjectiveInv ==
  /\ request \in Requests
  /\ IsList(reports) /\ IsList(all_frontier)
  /\ \A report \in Range(reports) :
       /\ report = Report(request, report.branch)
       /\ EffectiveGate(request) => Known(request, report.branch)
  /\ request.inspect => all_frontier = << >>
  /\ \A e \in Range(all_frontier) : \E report \in Range(reports) : e \in Range(report.frontier)
  /\ saved # None => phase = "done" /\ ~request.inspect /\ saved = all_frontier

LEMMA ListOneMore ==
  ASSUME NEW list, IsList(list), NEW x
  PROVE  IsList(Append(list, x)) /\ Range(Append(list, x)) = Range(list) \cup {x}
  <1> DEFINE S == Range(list) \cup {x}
             N == Len(list)
             more == Append(list, x)
  <1>1. /\ list \in Seq(Range(list)) /\ N \in Nat /\ DOMAIN list = 1 .. N
        /\ more = Append(list, x)
    BY DEF IsList
  <1>2. /\ Len(more) = N + 1 /\ DOMAIN more = 1 .. N + 1
        /\ more[N + 1] = x /\ \A n \in 1 .. N : more[n] = list[n]
    BY <1>1
  <1> HIDE DEF more
  <1>3. Range(more) = S
    <2>1. \A n \in 1 .. N + 1 : n \in 1 .. N \/ n = N + 1
      BY <1>1
    <2>2. \A n \in 1 .. N : n \in 1 .. N + 1
      BY <1>1
    <2>3. N + 1 \in 1 .. N + 1
      BY <1>1
    <2> QED
      BY <1>1, <1>2, <2>1, <2>2, <2>3 DEF Range
  <1>4. more \in Seq(S)
    <2>1. list \in Seq(S) /\ x \in S
      BY <1>1, ListOver
    <2> HIDE DEF S
    <2> QED
      BY <1>1, <2>1
  <1> QED
    BY <1>1, <1>3, <1>4 DEF IsList

LEMMA ListsJoined ==
  ASSUME NEW first, IsList(first), NEW second, IsList(second)
  PROVE  IsList(first \o second) /\ Range(first \o second) = Range(first) \cup Range(second)
  <1> DEFINE S == Range(first) \cup Range(second)
             both == first \o second
  <1>1. first \in Seq(S) /\ second \in Seq(S)
    BY ListOver DEF IsList
  <1>2. Range(both) = S /\ both \in Seq(S)
    <2> HIDE DEF S
    <2>1. Range(both) = Range(first) \cup Range(second)
      BY <1>1, ConcatRange
    <2> QED
      BY <1>1, <2>1 DEF S
  <1> QED
    BY <1>2 DEF IsList

LEMMA ObjectiveInit == Init => ObjectiveInv
  <1> SUFFICES ASSUME Init PROVE ObjectiveInv
    OBVIOUS
  <1>1. /\ request \in Requests /\ reports = << >> /\ all_frontier = << >> /\ saved = None
    BY DEF Init
  <1>2. Range(<< >>) = {} /\ IsList(<< >>)
    BY DEF Range, IsList
  <1> QED
    BY <1>1, <1>2 DEF ObjectiveInv

\* What Built says of a report.
LEMMA ReportBuilt ==
  ASSUME request \in Requests, NEW name
  PROVE  LET report  == Report(request, name)
             entries == EntriesOf(request.records, name, request.stat, EffectiveGate(request))
         IN /\ report.branch = name
            /\ report.entries \in Seq(entries) /\ Range(report.entries) = entries
            /\ \A e \in entries : Placeable(e)
            /\ report.frontier \in Seq(entries) /\ Sorted(report.frontier)
            /\ Range(report.frontier) =
                 { e \in entries : \A f \in entries : ~Dominates(f, e) }
            /\ \A e \in entries : \E f \in Range(report.frontier) : AsGood(f, e)
  <1> DEFINE built == BuildFrontier(request.records, name, request.stat, EffectiveGate(request))
             report == Report(request, name)
  <1>1. report.branch = name /\ report.entries = built.entries /\ report.frontier = built.frontier
    BY DEF Report
  <1>2. request.records \in Seq(Range(request.records))
        /\ \A r \in Range(request.records) : Meant(r)
    BY RequestRecords
  <1> HIDE DEF report
  <1> QED
    BY <1>1, <1>2, Built DEF report

LEMMA ReportList ==
  ASSUME request \in Requests, NEW name
  PROVE  Report(request, name).branch = name /\ IsList(Report(request, name).frontier)
  <1> DEFINE report == Report(request, name)
             E == EntriesOf(request.records, name, request.stat, EffectiveGate(request))
  <1>1. report.branch = name /\ report.frontier \in Seq(E)
    BY ReportBuilt
  <1> HIDE DEF report, E
  <1>2. IsList(report.frontier)
    BY <1>1, ListOver DEF IsList
  <1> QED
    BY <1>1, <1>2 DEF report

\* A turn of the loop adds the report of its branch.
LEMMA RankObjectiveInv ==
  ASSUME ObjectiveInv, RankBranch
  PROVE  ObjectiveInv'
  <1> DEFINE name == Head(todo)
             report == Report(request, name)
  <1>1. /\ phase = "rank"
        /\ EffectiveGate(request) => Known(request, name)
        /\ reports' = Append(reports, report)
        /\ all_frontier' = IF request.inspect THEN all_frontier
                           ELSE all_frontier \o report.frontier
        /\ request' = request /\ saved' = saved
    BY DEF RankBranch
  <1>2. request \in Requests /\ IsList(reports) /\ IsList(all_frontier)
    BY DEF ObjectiveInv
  <1>3. report.branch = name /\ IsList(report.frontier)
    BY <1>2, ReportList
  <1>4. report = Report(request, report.branch)
    BY <1>3
  <1> HIDE DEF report, name
  <1>5. IsList(reports') /\ Range(reports') = Range(reports) \cup {report}
    BY <1>1, <1>2, ListOneMore
  <1>6. /\ IsList(all_frontier')
        /\ Range(all_frontier') \subseteq Range(all_frontier) \cup Range(report.frontier)
        /\ request.inspect => all_frontier' = all_frontier
    BY <1>1, <1>2, <1>3, ListsJoined
  <1>7. \A e \in Range(all_frontier') : \E r \in Range(reports') : e \in Range(r.frontier)
    BY <1>5, <1>6 DEF ObjectiveInv
  <1>8. \A r \in Range(reports') : /\ r = Report(request, r.branch)
                                   /\ EffectiveGate(request) => Known(request, r.branch)
    BY <1>1, <1>3, <1>4, <1>5 DEF ObjectiveInv
  <1>9. saved = None
    BY <1>1 DEF ObjectiveInv
  <1> QED
    BY <1>1, <1>2, <1>5, <1>6, <1>7, <1>8, <1>9 DEF ObjectiveInv

LEMMA ObjectiveNext == ObjectiveInv /\ [Next]_vars => ObjectiveInv'
  <1> SUFFICES ASSUME ObjectiveInv, [Next]_vars PROVE ObjectiveInv'
    OBVIOUS
  <1>1. ASSUME UNCHANGED <<request, reports, all_frontier, saved>>, saved # None => phase' = "done"
        PROVE  ObjectiveInv'
    BY <1>1 DEF ObjectiveInv
  <1>2. CASE Refuse
    BY <1>1, <1>2 DEF Refuse, ObjectiveInv
  <1>3. CASE Begin
    BY <1>1, <1>3 DEF Begin, ObjectiveInv
  <1>4. CASE RankBranch
    BY <1>4, RankObjectiveInv
  <1>5. CASE UnknownBranch
    BY <1>1, <1>5 DEF UnknownBranch, ObjectiveInv
  <1>6. CASE PrintOnly
    BY <1>1, <1>6 DEF PrintOnly
  <1>7. CASE Save
    <2>1. /\ ~request.inspect /\ saved' = all_frontier /\ phase' = "done"
          /\ UNCHANGED <<request, reports, all_frontier>>
      BY <1>7 DEF Save
    <2> QED
      BY <2>1 DEF ObjectiveInv
  <1>8. CASE UNCHANGED vars
    BY <1>1, <1>8 DEF vars, ObjectiveInv
  <1> QED
    BY <1>2, <1>3, <1>4, <1>5, <1>6, <1>7, <1>8 DEF Next

\* However many branches and records there are: every report is that of its
\* branch, and what is saved is what was collected from the frontiers.
THEOREM ObjectiveInvariant == Spec => []ObjectiveInv
  BY ObjectiveInit, ObjectiveNext, PTL DEF Spec

-----------------------------------------------------------------------------
(* What is saved, and what covers it *)

\* Nothing is saved that misses the SLO of its workload or fails the gate of
\* its own branch: the verdict recorded, or the score against the reference.
THEOREM SavedAreAcceptable == Spec => []SavedIsAcceptable
  <1>1. ASSUME ObjectiveInv PROVE SavedIsAcceptable
    <2> SUFFICES ASSUME saved # None
                 PROVE  /\ ~request.inspect
                        /\ \A e \in Range(saved) :
                             /\ e.per_token_ms <= GatePerTokenMs(e.workload)
                             /\ \E r \in Range(request.records) :
                                  /\ <<r.branch, r.config_hash, r.workload>>
                                       = <<e.branch, e.config_hash, e.workload>>
                                  /\ request.gate => ClearsGate(r)
      BY DEF SavedIsAcceptable
    <2>1. ~request.inspect /\ saved = all_frontier /\ request \in Requests
      BY <1>1 DEF ObjectiveInv
    <2>2. ASSUME NEW e \in Range(saved)
          PROVE  /\ e.per_token_ms <= GatePerTokenMs(e.workload)
                 /\ \E r \in Range(request.records) :
                      /\ <<r.branch, r.config_hash, r.workload>>
                           = <<e.branch, e.config_hash, e.workload>>
                      /\ request.gate => ClearsGate(r)
      <3>1. PICK report \in Range(reports) : e \in Range(report.frontier)
        BY <1>1, <2>1, <2>2 DEF ObjectiveInv
      <3> DEFINE name == report.branch
                 gate == EffectiveGate(request)
                 E == EntriesOf(request.records, name, request.stat, gate)
      <3>2. report = Report(request, name)
        BY <1>1, <3>1 DEF ObjectiveInv
      <3>3. Range(Report(request, name).frontier) \subseteq E
        <4>1. Range(Report(request, name).frontier)
                = { x \in E : \A f \in E : ~Dominates(f, x) }
          BY <2>1, ReportBuilt
        <4> QED
          BY <4>1
      <3>4. e \in E
        BY <3>1, <3>2, <3>3
      <3>5. PICK r \in Range(request.records) :
              /\ Eligible(request.records, name, request.stat, gate, r)
              /\ e = ToEntry(r, request.stat)
        BY <3>4 DEF EntriesOf
      <3>6. /\ e.branch = r.branch /\ e.config_hash = r.config_hash /\ e.workload = r.workload
            /\ e.per_token_ms = SelectMetric(r.metrics, PER_TOKEN_KEYS, request.stat)
        BY <3>5 DEF ToEntry
      <3>7. SelectMetric(r.metrics, PER_TOKEN_KEYS, request.stat) <= GatePerTokenMs(r.workload)
        BY <3>5 DEF Eligible, PassesSLO
      <3>8. request.gate => ClearsGate(r)
        <4>1. r.branch = name /\ PassesQualityGate(r, gate, GateBaselineScore(request.records, name, gate))
          BY <3>5 DEF Eligible
        <4>2. request.gate => gate
          BY <2>1 DEF EffectiveGate
        <4>3. request.gate => RecordQualityPass(r, BranchBaselineScore(request.records, r.branch))
          BY <4>1, <4>2 DEF PassesQualityGate, GateBaselineScore
        <4> QED
          BY <2>1, <4>3, GateCleared
      <3> QED
        BY <3>6, <3>7, <3>8
    <2> QED
      BY <2>1, <2>2
  <1> QED
    BY <1>1, ObjectiveInvariant, PTL

\* Every eligible entry is matched on both axes by one on the frontier, where no
\* entry beats another and throughput and latency fall with the rank.
THEOREM FrontierIsCover == Spec => []FrontierCovers
  <1>1. ASSUME ObjectiveInv PROVE FrontierCovers
    <2> SUFFICES ASSUME NEW report \in Range(reports)
                 PROVE
                   /\ \A e \in Range(report.entries) : \E f \in Range(report.frontier) :
                        f.throughput >= e.throughput /\ f.per_token_ms <= e.per_token_ms
                   /\ \A e, f \in Range(report.frontier) :
                        f.throughput > e.throughput <=> f.per_token_ms > e.per_token_ms
                   /\ \A n \in DOMAIN report.frontier : \A k \in 1 .. n :
                        report.frontier[k].throughput >= report.frontier[n].throughput
      BY DEF FrontierCovers
    <2> DEFINE name == report.branch
               E == EntriesOf(request.records, name, request.stat, EffectiveGate(request))
               frontier == report.frontier
    <2>1. report = Report(request, name) /\ request \in Requests
      BY <1>1 DEF ObjectiveInv
    <2>2. /\ Range(report.entries) = E
          /\ \A e \in E : Placeable(e)
          /\ frontier \in Seq(E) /\ Sorted(frontier)
          /\ Range(frontier) = { e \in E : \A f \in E : ~Dominates(f, e) }
          /\ \A e \in E : \E f \in Range(frontier) : AsGood(f, e)
      <3>1. LET r == Report(request, name)
            IN /\ Range(r.entries) = E
               /\ \A e \in E : Placeable(e)
               /\ r.frontier \in Seq(E) /\ Sorted(r.frontier)
               /\ Range(r.frontier) = { e \in E : \A f \in E : ~Dominates(f, e) }
               /\ \A e \in E : \E f \in Range(r.frontier) : AsGood(f, e)
        BY <2>1, ReportBuilt
      <3> HIDE DEF E
      <3> QED
        BY <2>1, <3>1
    <2> HIDE DEF E, frontier
    <2>3. \A e \in Range(report.entries) : \E f \in Range(frontier) :
            f.throughput >= e.throughput /\ f.per_token_ms <= e.per_token_ms
      BY <2>2 DEF AsGood
    <2>4. ASSUME NEW e \in Range(frontier), NEW f \in Range(frontier)
          PROVE  f.throughput > e.throughput <=> f.per_token_ms > e.per_token_ms
      <3>1. Placeable(e) /\ Placeable(f) /\ ~Dominates(e, f) /\ ~Dominates(f, e)
        BY <2>2
      <3> QED
        BY <3>1 DEF Placeable, Dominates
    <2>5. ASSUME NEW n \in DOMAIN frontier, NEW k \in 1 .. n
          PROVE  frontier[k].throughput >= frontier[n].throughput
      <3>1. k \in DOMAIN frontier /\ n \in Nat /\ frontier[k] \in E /\ frontier[n] \in E
        BY <2>2
      <3>2. Placeable(frontier[k]) /\ Placeable(frontier[n])
        BY <2>2, <3>1
      <3>3. CASE k = n
        BY <3>2, <3>3 DEF Placeable
      <3>4. CASE k < n
        <4>1. ~Ahead(frontier[n], frontier[k])
          BY <2>2, <3>1, <3>4 DEF Sorted
        <4> QED
          BY <3>2, <4>1, AheadOrder
      <3> QED
        BY <3>1, <3>3, <3>4
    <2> QED
      BY <2>3, <2>4, <2>5 DEF frontier
  <1> QED
    BY <1>1, ObjectiveInvariant, PTL

-----------------------------------------------------------------------------
(* Branches apart *)

OwnRecords(records, name) == Those(records, LAMBDA r : r.branch = name)

\* Neither the reference nor the frontier of a branch sees other records.
LEMMA OwnRecordsOnly ==
  ASSUME NEW R, NEW records \in Seq(R), NEW name
  PROVE  LET own == OwnRecords(records, name)
         IN /\ own \in Seq(R) /\ Range(own) = { r \in Range(records) : r.branch = name }
            /\ OwnRecords(own, name) = own
            /\ BranchBaselineScore(own, name) = BranchBaselineScore(records, name)
            /\ \A stat, gate :
                 BuildFrontier(own, name, stat, gate) = BuildFrontier(records, name, stat, gate)
  <1> DEFINE b == [r \in R |-> r.branch = name]
             own == OwnRecords(records, name)
  <1>1. b \in [R -> BOOLEAN] /\ \A r \in R : b[r] <=> r.branch = name
    OBVIOUS
  <1>2. ASSUME NEW list \in Seq(R)
        PROVE  OwnRecords(list, name) = In(list, b)
    <2>1. \A n \in DOMAIN list : list[n] \in R
      BY ElementOfSeq, LenProperties
    <2>2. [n \in DOMAIN list |-> list[n].branch = name] = [n \in DOMAIN list |-> b[list[n]]]
      BY <2>1
    <2> QED
      BY <2>2 DEF OwnRecords, Those, In
  <1>3. Range(records) \subseteq R
    BY ElementOfSeq, LenProperties DEF Range
  <1> HIDE DEF b
  <1>4. own \in Seq(R) /\ Range(own) = { r \in Range(records) : b[r] }
    BY <1>1, <1>2, InRange
  <1>5. Range(own) = { r \in Range(records) : r.branch = name }
    BY <1>1, <1>3, <1>4
  <1>6. own = In(records, b)
    BY <1>2
  <1> HIDE DEF own
  <1>7. OwnRecords(own, name) = own
    BY <1>1, <1>2, <1>4, <1>6, InTwice
  <1>8. BranchBaselineScore(own, name) = BranchBaselineScore(records, name)
    <2> DEFINE p == [r \in R |-> r.branch = name /\ r.config_label = BaselineLabel]
               Baselines(list) == Those(list, LAMBDA r : /\ r.branch = name
                                                         /\ r.config_label = BaselineLabel)
    <2>1. p \in [R -> BOOLEAN] /\ \A r \in R : p[r] => b[r]
      BY <1>1
    <2>2. ASSUME NEW list \in Seq(R)
          PROVE  Baselines(list) = In(list, p)
      <3>1. \A n \in DOMAIN list : list[n] \in R
        BY ElementOfSeq, LenProperties
      <3>2. [n \in DOMAIN list |-> /\ list[n].branch = name
                                   /\ list[n].config_label = BaselineLabel]
              = [n \in DOMAIN list |-> p[list[n]]]
        BY <3>1
      <3> QED
        BY <3>2 DEF Those, In
    <2>3. \A list : BranchBaselineScore(list, name) =
            IF Baselines(list) = << >> THEN None ELSE ScoreOf(Baselines(list)[1].accuracy)
      BY DEF BranchBaselineScore
    <2> HIDE DEF p, Baselines
    <2>4. In(own, p) = In(records, p)
      BY <1>1, <1>6, <2>1, InTwice
    <2>5. Baselines(own) = Baselines(records)
      BY <1>4, <2>2, <2>4
    <2> QED
      BY <2>3, <2>5
  <1>9. ASSUME NEW stat, NEW gate
        PROVE  BuildFrontier(own, name, stat, gate) = BuildFrontier(records, name, stat, gate)
    <2> DEFINE ref == GateBaselineScore(records, name, gate)
               p == [r \in R |-> /\ r.branch = name
                                 /\ PassesSLO(r, stat)
                                 /\ PassesQualityGate(r, gate, ref)
                                 /\ HasEntry(r, stat)]
               Selected(list) == Those(list, LAMBDA r : /\ r.branch = name
                                                        /\ PassesSLO(r, stat)
                                                        /\ PassesQualityGate(r, gate, ref)
                                                        /\ HasEntry(r, stat))
               Entries(list) == [n \in DOMAIN Selected(list) |-> ToEntry(Selected(list)[n], stat)]
    <2>1. p \in [R -> BOOLEAN] /\ \A r \in R : p[r] => b[r]
      BY <1>1
    <2>2. ASSUME NEW list \in Seq(R)
          PROVE  Selected(list) = In(list, p)
      <3>1. \A n \in DOMAIN list : list[n] \in R
        BY ElementOfSeq, LenProperties
      <3>2. [n \in DOMAIN list |-> /\ list[n].branch = name
                                   /\ PassesSLO(list[n], stat)
                                   /\ PassesQualityGate(list[n], gate, ref)
                                   /\ HasEntry(list[n], stat)]
              = [n \in DOMAIN list |-> p[list[n]]]
        BY <3>1
      <3> QED
        BY <3>2 DEF Those, In
    <2>3. GateBaselineScore(own, name, gate) = ref
      BY <1>8 DEF GateBaselineScore
    <2>4. /\ BuildFrontier(own, name, stat, gate) =
               [entries |-> Entries(own), frontier |-> Ranked(ParetoFrontier(Entries(own)))]
          /\ BuildFrontier(records, name, stat, gate) =
               [entries |-> Entries(records), frontier |-> Ranked(ParetoFrontier(Entries(records)))]
      BY <2>3 DEF BuildFrontier
    <2> HIDE DEF p, Selected, ref
    <2>5. In(own, p) = In(records, p)
      BY <1>1, <1>6, <2>1, InTwice
    <2>6. Selected(own) = Selected(records)
      BY <1>4, <2>2, <2>5
    <2> QED
      BY <2>4, <2>6
  <1> QED
    BY <1>4, <1>5, <1>7, <1>8, <1>9 DEF own

\* What is reported of a branch is what would be reported if no other branch had
\* been measured.
THEOREM BranchesStayApart == Spec => []BranchesApart
  <1>1. ASSUME ObjectiveInv PROVE BranchesApart
    <2> SUFFICES ASSUME NEW report \in Range(reports)
                 PROVE  report = Report([request EXCEPT !.records =
                                   Those(@, LAMBDA r : r.branch = report.branch)], report.branch)
      BY DEF BranchesApart
    <2> DEFINE name == report.branch
               records == request.records
               own == OwnRecords(records, name)
               alone == [request EXCEPT !.records = own]
    <2>1. report = Report(request, name) /\ request \in Requests
      BY <1>1 DEF ObjectiveInv
    <2>2. DOMAIN request = {"branches", "slo", "gate", "records", "branch", "stat", "inspect",
                            "out", "no_save"}
      BY <2>1, RecordsMeant
    <2>3. /\ alone.records = own /\ alone.gate = request.gate /\ alone.stat = request.stat
          /\ alone.inspect = request.inspect /\ alone.branches = request.branches
      BY <2>2
    <2>4. records \in Seq(Range(records))
      BY <2>1, RequestRecords
    <2> HIDE DEF own, records, alone, name
    <2>5. /\ OwnRecords(own, name) = own
          /\ BranchBaselineScore(own, name) = BranchBaselineScore(records, name)
          /\ \A stat, gate :
               BuildFrontier(own, name, stat, gate) = BuildFrontier(records, name, stat, gate)
      BY <2>4, OwnRecordsOnly DEF own
    <2>6. GateBaselineScore(own, name, request.gate) = GateBaselineScore(records, name, request.gate)
      BY <2>5 DEF GateBaselineScore
    <2>7. EffectiveGate(alone) = EffectiveGate(request)
      BY <2>3 DEF EffectiveGate
    <2>8. BranchNamed(alone, name) = BranchNamed(request, name)
      BY <2>3 DEF BranchNamed
    <2>9. Report(alone, name) = Report(request, name)
      <3> DEFINE Scope(list) == Those(list, LAMBDA r : r.branch = name)
                 SloOnly(list, stat) == Those(list, LAMBDA r : PassesSLO(r, stat))
                 Excluded(list, stat, gate, ref) ==
                   Those(SloOnly(list, stat), LAMBDA r : ~PassesQualityGate(r, gate, ref))
                 Said(scope, ref, built, stat, gate, inspect, effective, branch) ==
                   [branch    |-> name,
                    entries   |-> built.entries,
                    frontier  |-> built.frontier,
                    slo_only  |-> SloOnly(scope, stat),
                    excluded  |-> Excluded(scope, stat, gate, ref),
                    statuses  |-> IF inspect
                                    THEN [n \in DOMAIN built.frontier |->
                                            GateStatus(built.frontier[n], gate, ref)]
                                    ELSE << >>,
                    bad_pins  |-> IF effective THEN GateFailedPins(branch, scope) ELSE {}]
      <3>1. \A req : Report(req, name) =
              Said(Scope(req.records), GateBaselineScore(req.records, name, req.gate),
                   BuildFrontier(req.records, name, req.stat, EffectiveGate(req)),
                   req.stat, req.gate, req.inspect, EffectiveGate(req), BranchNamed(req, name))
        BY DEF Report
      <3>2. Scope(own) = own /\ Scope(records) = own
        BY <2>5 DEF OwnRecords, own
      <3>3. request.records = records
        BY DEF records
      <3>4. BuildFrontier(own, name, request.stat, EffectiveGate(request))
              = BuildFrontier(records, name, request.stat, EffectiveGate(request))
        BY <2>5
      <3> HIDE DEF Said, Scope
      <3> QED
        BY <2>3, <2>6, <2>7, <2>8, <3>1, <3>2, <3>3, <3>4
    <2>10. alone = [request EXCEPT !.records = Those(@, LAMBDA r : r.branch = report.branch)]
      BY DEF alone, own, OwnRecords, records, name
    <2> QED
      BY <2>1, <2>9, <2>10 DEF name
  <1> QED
    BY <1>1, ObjectiveInvariant, PTL

-----------------------------------------------------------------------------
(* The inspection view *)

\* The verdict shown is PASS for just the entries of records that clear the gate.
LEMMA GateShown ==
  ASSUME NEW r, Meant(r), NEW stat, NEW reference
  PROVE  GateStatus(ToEntry(r, stat), TRUE, reference) = "PASS"
           <=> RecordQualityPass(r, reference)
  <1> DEFINE e == ToEntry(r, stat)
  <1>1. e.accuracy = r.accuracy /\ e.quality_pass = r.quality_pass
    BY DEF ToEntry
  <1> HIDE DEF e
  <1>2. CASE r.quality_pass \in BOOLEAN
    <2>1. GateStatus(e, TRUE, reference) = IF r.quality_pass THEN "PASS" ELSE "FAIL"
      BY <1>1, <1>2 DEF GateStatus
    <2>2. RecordQualityPass(r, reference) = r.quality_pass
      BY <1>2 DEF RecordQualityPass
    <2>3. CASE r.quality_pass = TRUE
      <3>1. GateStatus(e, TRUE, reference) = "PASS" /\ RecordQualityPass(r, reference)
        BY <2>1, <2>2, <2>3
      <3> QED
        BY <3>1 DEF e
    <2>4. CASE r.quality_pass = FALSE
      <3>1. GateStatus(e, TRUE, reference) = "FAIL" /\ ~RecordQualityPass(r, reference)
        BY <2>1, <2>2, <2>4
      <3> QED
        BY <3>1 DEF e
    <2> QED
      BY <1>2, <2>3, <2>4
  <1>3. CASE r.quality_pass \notin BOOLEAN
    <2> DEFINE score == ScoreOf(r.accuracy)
               ok == Passes(score, reference)
    <2>1. RecordQualityPass(r, reference) <=> ok
      BY <1>3 DEF RecordQualityPass
    <2>2. GateStatus(e, TRUE, reference) =
            IF score = None \/ reference = None THEN "n-a"
            ELSE IF ok THEN "PASS" ELSE "FAIL"
      BY <1>1, <1>3 DEF GateStatus
    <2>3. score = None \/ reference = None => ~ok
      BY DEF Passes
    <2> HIDE DEF ok, score
    <2>4. GateStatus(e, TRUE, reference) = "PASS" <=> ok
      BY <2>2, <2>3
    <2> QED
      BY <2>1, <2>4 DEF e
  <1> QED
    BY <1>2, <1>3

\* Among the entries that would be saved, one that is undominated without the
\* gate stays so with it.
LEMMA GateOnlyRemoves ==
  ASSUME NEW records, NEW name, NEW stat, NEW r \in Range(records)
  PROVE  LET reference == BranchBaselineScore(records, name)
         IN Eligible(records, name, stat, TRUE, r)
              <=> /\ Eligible(records, name, stat, FALSE, r)
                  /\ RecordQualityPass(r, reference)
  BY DEF Eligible, PassesQualityGate, GateBaselineScore

\* What the inspection view marks PASS is on the acceptable frontier, and what it
\* marks otherwise is not even among its entries.
THEOREM InspectionIsFaithful == Spec => []InspectionAgrees
  <1>1. ASSUME ObjectiveInv PROVE InspectionAgrees
    <2> SUFFICES ASSUME request.inspect /\ request.gate,
                        NEW report \in Range(reports), NEW n \in DOMAIN report.frontier
                 PROVE  LET acceptable == BuildFrontier(request.records, report.branch,
                                                        request.stat, TRUE)
                            e == report.frontier[n]
                        IN IF report.statuses[n] = "PASS"
                             THEN e \in Range(acceptable.frontier)
                             ELSE e \notin Range(acceptable.entries)
      BY DEF InspectionAgrees
    <2> DEFINE records == request.records
               name == report.branch
               stat == request.stat
               reference == BranchBaselineScore(records, name)
               shown == EntriesOf(records, name, stat, FALSE)
               passing == EntriesOf(records, name, stat, TRUE)
               acceptable == BuildFrontier(records, name, stat, TRUE)
               e == report.frontier[n]
    <2>1. report = Report(request, name) /\ request \in Requests
      BY <1>1 DEF ObjectiveInv
    <2>2. ~EffectiveGate(request)
      BY DEF EffectiveGate
    <2>3. EffectiveGate(request) = FALSE
      BY <2>2 DEF EffectiveGate
    <2>4. /\ report.frontier \in Seq(shown)
          /\ Range(report.frontier) = { x \in shown : \A f \in shown : ~Dominates(f, x) }
      <3>1. LET it == Report(request, name)
            IN /\ it.frontier \in Seq(shown)
               /\ Range(it.frontier) = { x \in shown : \A f \in shown : ~Dominates(f, x) }
        BY <2>1, <2>3, ReportBuilt
      <3> HIDE DEF shown
      <3> QED
        BY <2>1, <3>1
    <2>5. /\ Range(acceptable.entries) = passing
          /\ Range(acceptable.frontier) = { x \in passing : \A f \in passing : ~Dominates(f, x) }
      <3>1. records \in Seq(Range(records)) /\ \A r \in Range(records) : Meant(r)
        BY <2>1, RequestRecords
      <3> QED
        BY <3>1, Built
    <2>6. report.statuses[n] = GateStatus(e, TRUE, reference)
      <3>1. request.gate = TRUE \/ request.gate # TRUE
        OBVIOUS
      <3>2. GateBaselineScore(records, name, request.gate) = reference
        BY DEF GateBaselineScore
      <3>3. GateStatus(e, request.gate, reference) = GateStatus(e, TRUE, reference)
        BY DEF GateStatus
      <3>4. Report(request, name).statuses =
              [k \in DOMAIN Report(request, name).frontier |->
                 GateStatus(Report(request, name).frontier[k], request.gate,
                            GateBaselineScore(records, name, request.gate))]
        BY DEF Report
      <3>5. report.statuses = [k \in DOMAIN report.frontier |->
                 GateStatus(report.frontier[k], request.gate,
                            GateBaselineScore(records, name, request.gate))]
        BY <2>1, <3>4
      <3> QED
        BY <3>2, <3>3, <3>5
    <2> HIDE DEF shown, passing, acceptable, reference, records, stat, e, name
    <2>7. e \in shown /\ \A f \in shown : ~Dominates(f, e)
      <3>1. e \in Range(report.frontier)
        BY DEF Range, e
      <3> QED
        BY <2>4, <3>1
    <2>8. \A r \in Range(records) : Meant(r)
      BY <2>1, RequestRecords DEF records
    <2>9. \A r \in Range(records) :
            Eligible(records, name, stat, TRUE, r)
              <=> Eligible(records, name, stat, FALSE, r) /\ RecordQualityPass(r, reference)
      BY GateOnlyRemoves DEF reference
    <2>10. passing \subseteq shown
      BY <2>9 DEF passing, shown, EntriesOf
    <2>11. ASSUME NEW r \in Range(records), e = ToEntry(r, stat)
           PROVE  report.statuses[n] = "PASS" <=> RecordQualityPass(r, reference)
      BY <2>6, <2>8, <2>11, GateShown
    <2>12. ASSUME report.statuses[n] = "PASS" PROVE e \in Range(acceptable.frontier)
      <3>1. PICK r \in Range(records) : Eligible(records, name, stat, FALSE, r)
                                        /\ e = ToEntry(r, stat)
        BY <2>7 DEF shown, EntriesOf
      <3>2. Eligible(records, name, stat, TRUE, r)
        BY <2>9, <2>11, <2>12, <3>1
      <3>3. e \in passing
        BY <3>1, <3>2 DEF passing, EntriesOf
      <3> QED
        BY <2>5, <2>7, <2>10, <3>3
    <2>13. ASSUME e \in Range(acceptable.entries) PROVE report.statuses[n] = "PASS"
      <3>1. PICK r \in Range(records) : Eligible(records, name, stat, TRUE, r)
                                        /\ e = ToEntry(r, stat)
        BY <2>5, <2>13 DEF passing, EntriesOf
      <3> QED
        BY <2>9, <2>11, <3>1
    <2> QED
      BY <2>12, <2>13 DEF acceptable, e, records, stat, name
  <1> QED
    BY <1>1, ObjectiveInvariant, PTL

-----------------------------------------------------------------------------
(* What is left out *)

\* A decode rate, under the statistic or as a mean, is a throughput.
LEMMA MeasuredSelected ==
  ASSUME NEW metrics, Numeric(metrics), NEW stat,
         "decode_throughput_tok_s" \in DOMAIN metrics,
         {stat, "mean"} \cap DOMAIN metrics["decode_throughput_tok_s"] # {}
  PROVE  SelectMetric(metrics, THROUGHPUT_KEYS, stat) # None
  <1> DEFINE key == "decode_throughput_tok_s"
  <1>1. MetricValue(metrics, key, stat) # None
    <2>1. CASE stat \in DOMAIN metrics[key]
      BY <2>1, RecordsMeant DEF MetricValue, Numeric
    <2>2. CASE stat \notin DOMAIN metrics[key]
      <3>1. "mean" \in DOMAIN metrics[key]
        BY <2>2
      <3>2. MetricValue(metrics, key, stat) = metrics[key]["mean"]
        BY <2>2, <3>1 DEF MetricValue, Get
      <3> QED
        BY <3>1, <3>2, RecordsMeant DEF Numeric
    <2> QED
      BY <2>1, <2>2
  <1>2. 1 \in DOMAIN THROUGHPUT_KEYS /\ THROUGHPUT_KEYS[1] = key
    BY DEF THROUGHPUT_KEYS
  <1>3. THROUGHPUT_KEYS \in Seq(MetricKeys)
    BY KeyLists
  <1> QED
    BY <1>1, <1>2, <1>3, MetricSelected

\* The records in scope, those that meet the SLO and those the gate takes out.
LEMMA ReportedRecords ==
  ASSUME NEW req, NEW R, req.records \in Seq(R), NEW name
  PROVE  LET report == Report(req, name)
             reference == GateBaselineScore(req.records, name, req.gate)
         IN /\ Range(report.slo_only) =
                 { r \in Range(req.records) : r.branch = name /\ PassesSLO(r, req.stat) }
            /\ Range(report.excluded) =
                 { r \in Range(report.slo_only) : ~PassesQualityGate(r, req.gate, reference) }
  <1> DEFINE records == req.records
             reference == GateBaselineScore(records, name, req.gate)
             own == [r \in R |-> r.branch = name]
             slo == [r \in R |-> PassesSLO(r, req.stat)]
             out == [r \in R |-> ~PassesQualityGate(r, req.gate, reference)]
             inScope == Those(records, LAMBDA r : r.branch = name)
             sloOnly == Those(inScope, LAMBDA r : PassesSLO(r, req.stat))
             excluded == Those(sloOnly, LAMBDA r : ~PassesQualityGate(r, req.gate, reference))
  <1>1. Report(req, name).slo_only = sloOnly /\ Report(req, name).excluded = excluded
    BY DEF Report
  <1>2. /\ own \in [R -> BOOLEAN] /\ \A r \in R : own[r] <=> r.branch = name
        /\ out \in [R -> BOOLEAN]
        /\ \A r \in R : out[r] <=> ~PassesQualityGate(r, req.gate, reference)
    OBVIOUS
  <1>3. slo \in [R -> BOOLEAN] /\ \A r \in R : slo[r] <=> PassesSLO(r, req.stat)
    BY DEF PassesSLO
  <1>4. \A list \in Seq(R) : \A n \in DOMAIN list : list[n] \in R
    BY ElementOfSeq, LenProperties
  <1>5. inScope = In(records, own)
    <2>1. [n \in DOMAIN records |-> records[n].branch = name]
            = [n \in DOMAIN records |-> own[records[n]]]
      BY <1>4
    <2> QED
      BY <2>1 DEF Those, In
  <1>6. ASSUME inScope \in Seq(R) PROVE sloOnly = In(inScope, slo)
    <2> HIDE DEF inScope
    <2>1. [n \in DOMAIN inScope |-> PassesSLO(inScope[n], req.stat)]
            = [n \in DOMAIN inScope |-> slo[inScope[n]]]
      BY <1>4, <1>6
    <2> QED
      BY <2>1 DEF Those, In
  <1>7. ASSUME sloOnly \in Seq(R) PROVE excluded = In(sloOnly, out)
    <2> HIDE DEF sloOnly
    <2>1. [n \in DOMAIN sloOnly |-> ~PassesQualityGate(sloOnly[n], req.gate, reference)]
            = [n \in DOMAIN sloOnly |-> out[sloOnly[n]]]
      BY <1>4, <1>7
    <2> QED
      BY <2>1 DEF Those, In
  <1> HIDE DEF own, slo, out, inScope, sloOnly, excluded, reference
  <1>8. inScope \in Seq(R) /\ Range(inScope) = { r \in Range(records) : own[r] }
    BY <1>2, <1>5, InRange
  <1>9. sloOnly \in Seq(R) /\ Range(sloOnly) = { r \in Range(inScope) : slo[r] }
    BY <1>3, <1>6, <1>8, InRange
  <1>10. Range(excluded) = { r \in Range(sloOnly) : out[r] }
    BY <1>2, <1>7, <1>9, InRange
  <1>11. Range(records) \subseteq R
    BY <1>4 DEF Range
  <1> QED
    BY <1>1, <1>2, <1>3, <1>8, <1>9, <1>10, <1>11 DEF reference

\* A result set has one record per configuration and workload of a branch: the
\* run that writes it measures none twice.
OneRecordPerPoint(records) ==
  \A r, s \in Range(records) :
    <<r.branch, r.config_hash, r.workload>> = <<s.branch, s.config_hash, s.workload>> => r = s

\* Of a result set with one record per configuration and workload: one that
\* meets the SLO and has a decode rate, under the statistic asked for or as a
\* mean, is eligible or reported as excluded.
THEOREM AllAccountedFor ==
  ASSUME \A req \in Requests : OneRecordPerPoint(req.records)
  PROVE  Spec => []NothingUnaccounted
  <1>1. ASSUME ObjectiveInv PROVE NothingUnaccounted
    <2> SUFFICES ASSUME ~request.inspect,
                        NEW report \in Range(reports), NEW r \in Range(report.slo_only),
                        "decode_throughput_tok_s" \in DOMAIN r.metrics,
                        {request.stat, "mean"}
                          \cap DOMAIN r.metrics["decode_throughput_tok_s"] # {}
                 PROVE  (\E e \in Range(report.entries) :
                           e.config_hash = r.config_hash /\ e.workload = r.workload)
                          <=> r \notin Range(report.excluded)
      BY DEF NothingUnaccounted
    <2> DEFINE records == request.records
               name == report.branch
               stat == request.stat
               gate == EffectiveGate(request)
               reference == GateBaselineScore(records, name, request.gate)
               E == EntriesOf(records, name, stat, gate)
    <2>1. report = Report(request, name) /\ request \in Requests
      BY <1>1 DEF ObjectiveInv
    <2>2. records \in Seq(Range(records)) /\ \A q \in Range(records) : Meant(q)
      BY <2>1, RequestRecords
    <2>3. Range(report.entries) = E
      <3>1. Range(Report(request, name).entries) = E
        BY <2>1, ReportBuilt
      <3> QED
        BY <2>1, <3>1
    <2>4. /\ Range(report.slo_only) =
               { q \in Range(records) : q.branch = name /\ PassesSLO(q, stat) }
          /\ Range(report.excluded) =
               { q \in Range(report.slo_only) : ~PassesQualityGate(q, request.gate, reference) }
      <3>1. LET it == Report(request, name)
            IN /\ Range(it.slo_only) =
                    { q \in Range(records) : q.branch = name /\ PassesSLO(q, stat) }
               /\ Range(it.excluded) =
                    { q \in Range(it.slo_only) : ~PassesQualityGate(q, request.gate, reference) }
        BY <2>2, ReportedRecords
      <3> QED
        BY <2>1, <3>1
    <2>5. \A q : PassesQualityGate(q, gate, GateBaselineScore(records, name, gate))
                   <=> PassesQualityGate(q, request.gate, reference)
      BY DEF EffectiveGate, PassesQualityGate, GateBaselineScore
    <2>6. HasEntry(r, stat)
      <3>1. Numeric(r.metrics)
        BY <2>2, <2>4 DEF Meant
      <3>2. SelectMetric(r.metrics, THROUGHPUT_KEYS, stat) # None
        BY <3>1, MeasuredSelected
      <3> QED
        BY <2>4, <3>2 DEF HasEntry, PassesSLO
    <2> HIDE DEF gate, reference, E, name, records, stat
    <2>7. ASSUME r \notin Range(report.excluded)
          PROVE  \E e \in Range(report.entries) :
                   e.config_hash = r.config_hash /\ e.workload = r.workload
      <3>1. Eligible(records, name, stat, gate, r)
        BY <2>4, <2>5, <2>6, <2>7 DEF Eligible
      <3>2. ToEntry(r, stat) \in E
        BY <2>4, <3>1 DEF E, EntriesOf
      <3> QED
        BY <2>3, <3>2 DEF ToEntry
    <2>8. ASSUME NEW e \in Range(report.entries),
                 e.config_hash = r.config_hash, e.workload = r.workload
          PROVE  r \notin Range(report.excluded)
      <3>1. PICK q \in Range(records) : Eligible(records, name, stat, gate, q)
                                        /\ e = ToEntry(q, stat)
        BY <2>3, <2>8 DEF E, EntriesOf
      <3>2. q.branch = name /\ q.config_hash = r.config_hash /\ q.workload = r.workload
        BY <2>8, <3>1 DEF Eligible, ToEntry
      <3>3. q = r
        BY <2>1, <2>4, <3>2 DEF OneRecordPerPoint, records
      <3> QED
        BY <2>4, <2>5, <3>1, <3>3 DEF Eligible
    <2> QED
      BY <2>7, <2>8
  <1> QED
    BY <1>1, ObjectiveInvariant, PTL

-----------------------------------------------------------------------------
(* The pins of a focused grid *)

LEMMA GreatestPlace ==
  ASSUME NEW N \in Nat, NEW S, S \subseteq 1 .. N, S # {}
  PROVE  Max(S) \in S /\ \A x \in S : Max(S) >= x
  <1> DEFINE D == { d \in 0 .. N : N - d \in S }
  <1>1. D \in SUBSET Nat /\ D # {}
    <2>1. PICK x \in S : TRUE
      OBVIOUS
    <2>2. x \in 1 .. N /\ N - x \in 0 .. N /\ N - (N - x) = x
      BY <2>1
    <2>3. N - x \in D
      BY <2>1, <2>2
    <2>4. D \subseteq Nat
      OBVIOUS
    <2> HIDE DEF D
    <2> QED
      BY <2>3, <2>4
  <1>2. PICK d \in D : \A e \in D : d <= e
    BY <1>1, LeastNumber
  <1>3. ASSUME NEW x \in S PROVE N - d >= x
    <2>1. x \in 1 .. N /\ N - x \in D
      OBVIOUS
    <2>2. d <= N - x /\ d \in Nat
      BY <1>2, <2>1
    <2> QED
      BY <2>1, <2>2
  <1>4. N - d \in S
    BY <1>2
  <1>5. \E m \in S : \A x \in S : m >= x
    BY <1>3, <1>4
  <1> QED
    BY <1>5 DEF Max

\* The place of the last record of a configuration.
IsLastOf(records, hash, n) ==
  /\ n \in DOMAIN records /\ records[n].config_hash = hash
  /\ \A k \in DOMAIN records : records[k].config_hash = hash => k <= n

LastOf(records, hash) == SelectLastInSeq(records, LAMBDA r : r.config_hash = hash)

LEMMA LastSelected ==
  ASSUME NEW R, NEW records \in Seq(R), NEW hash
  PROVE  LET last == LastOf(records, hash)
         IN /\ last \in 0 .. Len(records)
            /\ last > 0 => IsLastOf(records, hash, last)
            /\ \A n \in DOMAIN records : records[n].config_hash = hash => last > 0
  <1> DEFINE N == Len(records)
             S == { i \in 1 .. N : records[i].config_hash = hash }
             last == LastOf(records, hash)
  <1>1. N \in Nat /\ DOMAIN records = 1 .. N
    OBVIOUS
  <1>2. last = IF S # {} THEN Max(S) ELSE 0
    BY DEF LastOf, SelectLastInSeq
  <1> HIDE DEF last
  <1>3. S # {} => Max(S) \in S /\ \A x \in S : Max(S) >= x
    <2>1. S \subseteq 1 .. N
      OBVIOUS
    <2> HIDE DEF S
    <2> QED
      BY <1>1, <2>1, GreatestPlace
  <1>4. last \in 0 .. N
    BY <1>1, <1>2, <1>3
  <1>5. ASSUME last > 0 PROVE IsLastOf(records, hash, last)
    <2>1. S # {} /\ last \in S /\ \A x \in S : last >= x
      BY <1>1, <1>2, <1>3, <1>5
    <2>2. \A k \in 1 .. N : records[k].config_hash = hash => k <= last
      BY <1>1, <2>1
    <2> QED
      BY <1>1, <2>1, <2>2 DEF IsLastOf
  <1>6. ASSUME NEW n \in 1 .. N, records[n].config_hash = hash PROVE last > 0
    <2>1. n \in S
      BY <1>6
    <2>2. last \in S
      BY <1>2, <1>3, <2>1
    <2> QED
      BY <1>1, <2>2
  <1> QED
    BY <1>1, <1>4, <1>5, <1>6 DEF last

\* Where only the records of a branch are of a configuration, the last of them is
\* the last of all.
LEMMA LastOfOwn ==
  ASSUME NEW R, NEW records \in Seq(R), NEW name, NEW hash,
         \A r \in Range(records) : r.config_hash = hash => r.branch = name,
         NEW m, IsLastOf(OwnRecords(records, name), hash, m),
         NEW n, IsLastOf(records, hash, n)
  PROVE  OwnRecords(records, name)[m] = records[n]
  <1> DEFINE b == [r \in R |-> r.branch = name]
             kept == [k \in DOMAIN records |-> b[records[k]]]
             own == OwnRecords(records, name)
  <1>1. \A k \in DOMAIN records : records[k] \in R /\ records[k] \in Range(records)
    BY ElementOfSeq, LenProperties DEF Range
  <1>2. /\ b \in [R -> BOOLEAN] /\ kept \in [DOMAIN records -> BOOLEAN]
        /\ \A k \in DOMAIN records : kept[k] <=> records[k].branch = name
    BY <1>1
  <1>3. own = Where(records, kept)
    <2>1. [k \in DOMAIN records |-> records[k].branch = name] = kept
      BY <1>1
    <2> QED
      BY <2>1 DEF OwnRecords, Those
  <1> HIDE DEF b, kept, own
  <1>4. own \in Seq(R) /\ \E at : Sublist(own, records, kept, at)
    BY <1>2, <1>3, WhereSublist
  <1>5. PICK at : Sublist(own, records, kept, at)
    BY <1>4
  <1>6. /\ DOMAIN records = 1 .. Len(records) /\ Len(records) \in Nat
        /\ DOMAIN own = 1 .. Len(own) /\ Len(own) \in Nat
    BY <1>4
  <1>7. /\ m \in DOMAIN own /\ own[m].config_hash = hash
        /\ \A k \in DOMAIN own : own[k].config_hash = hash => k <= m
        /\ n \in DOMAIN records /\ records[n].config_hash = hash
        /\ \A k \in DOMAIN records : records[k].config_hash = hash => k <= n
    BY DEF IsLastOf, own
  <1>8. /\ at[m] \in DOMAIN records /\ own[m] = records[at[m]]
        /\ \A i, j \in DOMAIN own : i < j => at[i] < at[j]
        /\ \A k \in DOMAIN records : kept[k] =>
             \E i \in DOMAIN own : at[i] = k /\ own[i] = records[k]
    BY <1>5, <1>7 DEF Sublist
  <1>9. kept[n]
    BY <1>1, <1>2, <1>7
  <1>10. PICK i \in DOMAIN own : at[i] = n /\ own[i] = records[n]
    BY <1>7, <1>8, <1>9
  <1>11. i <= m /\ at[m] <= n
    BY <1>7, <1>8, <1>10
  <1>12. i = m
    BY <1>6, <1>7, <1>8, <1>10, <1>11
  <1> QED
    BY <1>10, <1>12 DEF own

\* The pins found by the records of a branch alone.
LEMMA PinsOfOwn ==
  ASSUME request \in Requests, NEW branch, branch.focused_grid # None
  PROVE  LET records == request.records
             own     == OwnRecords(records, branch.name)
             pins    == branch.focused_grid.pins
             Hash(arg) == Assemble(branch, Single(arg, pins[arg]))
             Own(arg)  == { r \in Range(records) :
                              r.branch = branch.name /\ r.config_hash = Hash(arg) }
             bad     == GateFailedPins(branch, own)
         IN /\ \A arg \in DOMAIN pins :
                 /\ Own(arg) # {} /\ (\A r \in Own(arg) : ~ClearsGate(r)) => arg \in bad
                 /\ (\A r \in Own(arg) : ClearsGate(r)) => arg \notin bad
            /\ (\A r \in Range(records) : \A arg \in DOMAIN pins :
                  r.config_hash = Hash(arg) => r.branch = branch.name)
                 => bad = GateFailedPins(branch, records)
  <1> DEFINE records == request.records
             name == branch.name
             own == OwnRecords(records, name)
             pins == branch.focused_grid.pins
             Hash(arg) == Assemble(branch, Single(arg, pins[arg]))
             Own(arg) == { r \in Range(records) : r.branch = name /\ r.config_hash = Hash(arg) }
             reference == BranchBaselineScore(records, name)
             LastIn(list, arg) == LastOf(list, Hash(arg))
             Failed(list) == { arg \in DOMAIN pins :
                                 /\ LastIn(list, arg) > 0
                                 /\ ~RecordQualityPass(list[LastIn(list, arg)], reference) }
             R == Range(records)
  <1>1. records \in Seq(R)
    BY RequestRecords
  <1>2. /\ own \in Seq(R) /\ Range(own) = { r \in R : r.branch = name }
        /\ BranchBaselineScore(own, name) = reference
    BY <1>1, OwnRecordsOnly
  <1>3. GateFailedPins(branch, own) = Failed(own)
    <2>1. GateFailedPins(branch, own) = FailedPins(branch, own, reference)
      BY <1>2 DEF GateFailedPins
    <2> QED
      BY <2>1 DEF FailedPins, LastOf
  <1>4. GateFailedPins(branch, records) = Failed(records)
    <2>1. GateFailedPins(branch, records) = FailedPins(branch, records, reference)
      BY DEF GateFailedPins
    <2> QED
      BY <2>1 DEF FailedPins, LastOf
  <1>5. \A r \in R : r.branch = name => (ClearsGate(r) <=> RecordQualityPass(r, reference))
    BY GateCleared
  <1>6. ASSUME NEW list \in Seq(R), NEW arg
        PROVE  /\ LastIn(list, arg) \in 0 .. Len(list)
               /\ LastIn(list, arg) > 0 => IsLastOf(list, Hash(arg), LastIn(list, arg))
               /\ \A n \in DOMAIN list : list[n].config_hash = Hash(arg) => LastIn(list, arg) > 0
    <2> HIDE DEF Hash
    <2> QED
      BY LastSelected
  <1>7. \A list \in Seq(R) : \A n \in DOMAIN list : list[n] \in Range(list)
    BY DEF Range
  <1> HIDE DEF LastIn, Hash, reference, own, R
  <1>8. ASSUME NEW arg, LastIn(own, arg) > 0
        PROVE  own[LastIn(own, arg)] \in Own(arg)
    <2>1. IsLastOf(own, Hash(arg), LastIn(own, arg))
      BY <1>2, <1>6, <1>8
    <2> QED
      BY <1>2, <1>7, <2>1 DEF IsLastOf, R
  <1>9. ASSUME NEW arg, Own(arg) # {}
        PROVE  LastIn(own, arg) > 0
    <2>1. PICK r \in Own(arg) : TRUE
      BY <1>9
    <2>2. r \in Range(own) /\ r.config_hash = Hash(arg)
      BY <1>2, <2>1 DEF R
    <2>3. PICK n \in DOMAIN own : own[n] = r
      BY <2>2 DEF Range
    <2> QED
      BY <1>2, <1>6, <2>2, <2>3
  <1>10. ASSUME NEW arg \in DOMAIN pins
         PROVE  /\ Own(arg) # {} /\ (\A r \in Own(arg) : ~ClearsGate(r)) => arg \in Failed(own)
                /\ (\A r \in Own(arg) : ClearsGate(r)) => arg \notin Failed(own)
    <2>1. \A r \in Own(arg) : ClearsGate(r) <=> RecordQualityPass(r, reference)
      BY <1>5 DEF R
    <2> HIDE DEF Own
    <2> QED
      BY <1>8, <1>9, <2>1
  <1>11. ASSUME \A r \in R : \A arg \in DOMAIN pins : r.config_hash = Hash(arg) => r.branch = name
         PROVE  Failed(own) = Failed(records)
    <2> SUFFICES ASSUME NEW arg \in DOMAIN pins
                 PROVE  arg \in Failed(own) <=> arg \in Failed(records)
      OBVIOUS
    <2>1. \A r \in R : r.config_hash = Hash(arg) => r \in Own(arg)
      BY <1>11 DEF R
    <2>2. LastIn(own, arg) > 0 => LastIn(records, arg) > 0
      <3> SUFFICES ASSUME LastIn(own, arg) > 0 PROVE LastIn(records, arg) > 0
        OBVIOUS
      <3>1. PICK r \in R : r.config_hash = Hash(arg)
        BY <1>8 DEF R
      <3>2. PICK n \in DOMAIN records : records[n] = r
        BY <3>1 DEF R, Range
      <3> QED
        BY <1>1, <1>6, <3>1, <3>2
    <2>3. LastIn(records, arg) > 0 =>
            LastIn(own, arg) > 0 /\ own[LastIn(own, arg)] = records[LastIn(records, arg)]
      <3> SUFFICES ASSUME LastIn(records, arg) > 0
                   PROVE  LastIn(own, arg) > 0
                          /\ own[LastIn(own, arg)] = records[LastIn(records, arg)]
        OBVIOUS
      <3>1. IsLastOf(records, Hash(arg), LastIn(records, arg))
        BY <1>1, <1>6
      <3>2. records[LastIn(records, arg)] \in Own(arg)
        BY <1>1, <1>7, <2>1, <3>1 DEF IsLastOf, R
      <3>3. LastIn(own, arg) > 0
        BY <1>9, <3>2
      <3>4. IsLastOf(own, Hash(arg), LastIn(own, arg))
        BY <1>2, <1>6, <3>3
      <3>5. \A r \in Range(records) : r.config_hash = Hash(arg) => r.branch = name
        BY <1>11 DEF R
      <3>6. own[LastIn(own, arg)] = records[LastIn(records, arg)]
        <4> HIDE DEF records, name
        <4> QED
          BY <1>1, <3>1, <3>4, <3>5, LastOfOwn DEF own
      <3> QED
        BY <3>3, <3>6
    <2> QED
      BY <2>2, <2>3
  <1> QED
    BY <1>3, <1>4, <1>10, <1>11 DEF R, own, Hash

\* Each pin is judged by its own records of its own branch, and the generator
\* command, which reads those of every branch, judges it the same where no other
\* branch measured its configuration.
THEOREM PinsAreJudged == Spec => []PinsJudged
  <1>1. ASSUME ObjectiveInv PROVE PinsJudged
    <2> SUFFICES ASSUME NEW report \in Range(reports), EffectiveGate(request),
                        BranchNamed(request, report.branch).focused_grid # None
                 PROVE  LET branch == BranchNamed(request, report.branch)
                            Own(arg) == { r \in Range(request.records) :
                                            /\ r.branch = branch.name
                                            /\ r.config_hash = Assemble(branch,
                                                   Single(arg, branch.focused_grid.pins[arg])) }
                            apart == \A r \in Range(request.records) :
                                       \A arg \in DOMAIN branch.focused_grid.pins :
                                         r.config_hash = Assemble(branch,
                                             Single(arg, branch.focused_grid.pins[arg]))
                                           => r.branch = branch.name
                        IN /\ \A arg \in DOMAIN branch.focused_grid.pins :
                                /\ Own(arg) # {} /\ (\A r \in Own(arg) : ~ClearsGate(r))
                                     => arg \in report.bad_pins
                                /\ (\A r \in Own(arg) : ClearsGate(r)) => arg \notin report.bad_pins
                           /\ apart => report.bad_pins
                                         = Offenders(branch, request.records, request.gate)
      BY DEF PinsJudged
    <2> DEFINE branch == BranchNamed(request, report.branch)
    <2>1. /\ request \in Requests /\ report = Report(request, report.branch)
          /\ Known(request, report.branch)
      BY <1>1 DEF ObjectiveInv
    <2>2. branch.name = report.branch
      BY <2>1 DEF BranchNamed, Known
    <2>3. report.bad_pins = GateFailedPins(branch, OwnRecords(request.records, branch.name))
      <3>1. Report(request, report.branch).bad_pins =
              GateFailedPins(branch, Those(request.records, LAMBDA r : r.branch = report.branch))
        BY DEF Report
      <3> QED
        BY <2>1, <2>2, <3>1 DEF OwnRecords
    <2>4. Offenders(branch, request.records, request.gate)
            = GateFailedPins(branch, request.records)
      BY DEF Offenders, EffectiveGate
    <2> HIDE DEF branch
    <2>5. branch.focused_grid # None
      BY DEF branch
    <2> QED
      BY <2>1, <2>3, <2>4, <2>5, PinsOfOwn DEF branch
  <1> QED
    BY <1>1, ObjectiveInvariant, PTL

-----------------------------------------------------------------------------
(* The comparison table *)

\* What is indexed is a record of that configuration and concurrency.
LEMMA IndexedRecord ==
  ASSUME NEW R, NEW records \in Seq(R), NEW hash, NEW concurrency,
         Indexed(records, hash, concurrency) # None
  PROVE  LET r == Indexed(records, hash, concurrency)
         IN r \in Range(records) /\ r.config_hash = hash /\ r.workload[3] = concurrency
  <1> DEFINE N == Len(records)
             S == { i \in 1 .. N : /\ records[i].config_hash = hash
                                   /\ records[i].workload[3] = concurrency }
             last == SelectLastInSeq(records, LAMBDA r : /\ r.config_hash = hash
                                                         /\ r.workload[3] = concurrency)
  <1>1. N \in Nat /\ DOMAIN records = 1 .. N
    OBVIOUS
  <1>2. last = IF S # {} THEN Max(S) ELSE 0
    BY DEF SelectLastInSeq
  <1>3. Indexed(records, hash, concurrency) = IF last > 0 THEN records[last] ELSE None
    BY DEF Indexed
  <1> HIDE DEF last
  <1>4. last > 0
    BY <1>3
  <1>5. S # {} => Max(S) \in S
    <2>1. S \subseteq 1 .. N
      OBVIOUS
    <2> HIDE DEF S
    <2> QED
      BY <1>1, <2>1, GreatestPlace
  <1>6. last \in S
    BY <1>2, <1>4, <1>5
  <1>7. /\ last \in 1 .. N /\ records[last].config_hash = hash
        /\ records[last].workload[3] = concurrency
    BY <1>6
  <1> QED
    BY <1>1, <1>3, <1>4, <1>7 DEF Range

ThroughputOf(r, stat) == SelectMetric(r.metrics, THROUGHPUT_KEYS, stat)
PerTokenOf(r, stat) == SelectMetric(r.metrics, PER_TOKEN_KEYS, stat)

\* A row is of a record of its branch, configuration and concurrency, and so is
\* what a delta is taken to: of the baseline.
LEMMA RowsOf ==
  ASSUME NEW branch, DeclaresLists(branch), NEW R, NEW records \in Seq(R), NEW stat,
         NEW row \in Comparison(branch, records, stat)
  PROVE  LET own == OwnRecords(records, branch.name)
         IN \E r \in Range(own) :
              /\ r.config_hash = row.config_hash /\ r.workload[3] = row.concurrency
              /\ row.per_token_ms = PerTokenOf(r, stat)
              /\ row.delta # None =>
                   \E b \in Range(own) :
                     /\ b.config_hash = BaselinePoint(branch).hash
                     /\ b.workload[3] = row.concurrency
                     /\ row.delta = <<ThroughputOf(r, stat), ThroughputOf(b, stat)>>
                     /\ ThroughputOf(r, stat) # None /\ ThroughputOf(b, stat) # None
  <1> DEFINE own == OwnRecords(records, branch.name)
             H == BaselinePoint(branch).hash
             Throughput(r) == IF r = None THEN None ELSE ThroughputOf(r, stat)
             Row(hash, concurrency) ==
               LET r    == Indexed(own, hash, concurrency)
                   base == Throughput(Base(branch, own, concurrency))
               IN [config_hash |-> hash, concurrency |-> concurrency,
                   throughput |-> Throughput(r),
                   per_token_ms |-> PerTokenOf(r, stat),
                   delta |-> IF hash = H \/ base \in {None, 0} \/ Throughput(r) = None
                               THEN None ELSE <<Throughput(r), base>>]
             K == { p.hash : p \in Range(GenerateOfat(branch)) }
                    \X { r.workload[3] : r \in Range(own) }
  <1>1. own \in Seq(R)
    BY OwnRecordsOnly
  <1>2. Comparison(branch, records, stat) =
          { Row(at[1], at[2]) : at \in { k \in K : Indexed(own, k[1], k[2]) # None } }
    BY DEF Comparison, OwnRecords, ThroughputOf, PerTokenOf
  <1>3. GenerateOfat(branch)[1] = BaselinePoint(branch)
    BY OfatPoints
  <1> HIDE DEF own, H, K, Row
  <1>4. PICK at \in K : Indexed(own, at[1], at[2]) # None /\ row = Row(at[1], at[2])
    BY <1>2
  <1> DEFINE hash == at[1]
             concurrency == at[2]
             r == Indexed(own, hash, concurrency)
             b == Indexed(own, H, concurrency)
  <1>5. r \in Range(own) /\ r.config_hash = hash /\ r.workload[3] = concurrency
    BY <1>1, <1>4, IndexedRecord
  <1>6. Base(branch, own, concurrency) = b
    BY <1>3 DEF Base, H
  <1>7. b # None => b \in Range(own) /\ b.config_hash = H /\ b.workload[3] = concurrency
    BY <1>1, IndexedRecord
  <1>8. r # None /\ row = Row(hash, concurrency)
    BY <1>4
  <1> HIDE DEF hash, concurrency, r, b
  <1>9. /\ row.config_hash = hash /\ row.concurrency = concurrency
        /\ row.per_token_ms = PerTokenOf(r, stat)
        /\ row.delta # None => /\ Throughput(b) # None /\ Throughput(r) # None
                               /\ row.delta = <<Throughput(r), Throughput(b)>>
    BY <1>6, <1>8 DEF Row, r
  <1>10. /\ Throughput(r) = ThroughputOf(r, stat)
         /\ Throughput(b) # None => b # None /\ Throughput(b) = ThroughputOf(b, stat)
    BY <1>8
  <1> HIDE DEF Throughput
  <1> QED
    BY <1>5, <1>7, <1>9, <1>10 DEF own, H

\* Where one pair of lengths was measured at a concurrency, the workloads are one.
LEMMA OnePair ==
  ASSUME request \in Requests, NEW name, NEW concurrency,
         Cardinality(PairsAt(name, concurrency)) = 1,
         NEW r \in Range(request.records), r.branch = name, r.workload[3] = concurrency,
         NEW s \in Range(request.records), s.branch = name, s.workload[3] = concurrency
  PROVE  r.workload = s.workload
  <1> DEFINE records == request.records
             J == { n \in DOMAIN records : /\ records[n].branch = name
                                           /\ records[n].workload[3] = concurrency }
             f == [n \in J |-> SubSeq(records[n].workload, 1, 2)]
             pairs == PairsAt(name, concurrency)
  <1>1. records \in Seq(Range(records))
    BY RequestRecords
  <1>2. IsFiniteSet(J)
    <2> DEFINE N == Len(records)
    <2>1. N \in Nat /\ DOMAIN records = 1 .. N
      BY <1>1
    <2>2. J \in SUBSET (1 .. N)
      BY <2>1
    <2> HIDE DEF N, J
    <2>3. IsFiniteSet(1 .. N)
      BY <2>1, FS_Interval
    <2> QED
      BY <2>2, <2>3, FS_Subset
  <1>3. f \in Surjection(J, pairs)
    <2>1. \A n \in J : SubSeq(records[n].workload, 1, 2) \in pairs
      BY DEF PairsAt, Range
    <2>2. \A x \in pairs : \E n \in J : SubSeq(records[n].workload, 1, 2) = x
      BY DEF PairsAt, Range
    <2> HIDE DEF J, pairs
    <2> QED
      BY <2>1, <2>2 DEF Surjection
  <1>4. IsFiniteSet(pairs)
    BY <1>2, <1>3, FS_Surjection
  <1>5. PICK x : pairs = {x}
    BY <1>4, FS_Singleton
  <1>6. SubSeq(r.workload, 1, 2) \in pairs /\ SubSeq(s.workload, 1, 2) \in pairs
    BY DEF PairsAt
  <1>7. SubSeq(r.workload, 1, 2) = SubSeq(s.workload, 1, 2)
    BY <1>5, <1>6
  <1>8. /\ r.workload \in Seq(Int) /\ Len(r.workload) = 3
        /\ s.workload \in Seq(Int) /\ Len(s.workload) = 3
    BY RecordsMeant
  <1>9. ASSUME NEW v \in Seq(Int), Len(v) = 3
        PROVE  /\ SubSeq(v, 1, 2)[1] = v[1] /\ SubSeq(v, 1, 2)[2] = v[2]
               /\ v = [n \in 1 .. 3 |-> v[n]]
    BY <1>9
  <1>10. \A n \in 1 .. 3 : r.workload[n] = s.workload[n]
    <2>1. \A n \in 1 .. 3 : n = 1 \/ n = 2 \/ n = 3
      OBVIOUS
    <2>2. r.workload[1] = s.workload[1] /\ r.workload[2] = s.workload[2]
      BY <1>7, <1>8, <1>9
    <2> QED
      BY <2>1, <2>2
  <1> QED
    BY <1>8, <1>9, <1>10

\* The bound of a workload is a number.
LEMMA SLOBound ==
  ASSUME NEW workload
  PROVE  GatePerTokenMs(workload) \in Int
  <1> DEFINE O == Range(Overrides)
             p == [o \in O |-> o.isl = workload[1] /\ o.osl = workload[2]]
             matching == Those(Overrides, LAMBDA o : o.isl = workload[1] /\ o.osl = workload[2])
  <1>1. Overrides \in Seq(O) /\ p \in [O -> BOOLEAN]
    BY RecordsMeant DEF IsList
  <1>2. matching = In(Overrides, p)
    <2>1. \A n \in DOMAIN Overrides : Overrides[n] \in O
      BY DEF Range
    <2>2. [n \in DOMAIN Overrides |-> /\ Overrides[n].isl = workload[1]
                                      /\ Overrides[n].osl = workload[2]]
            = [n \in DOMAIN Overrides |-> p[Overrides[n]]]
      BY <2>1
    <2> QED
      BY <2>2 DEF Those, In
  <1>3. GatePerTokenMs(workload) =
          IF matching = << >> \/ matching[1].per_token_ms = None
            THEN PerTokenMs ELSE matching[1].per_token_ms
    BY DEF GatePerTokenMs
  <1> HIDE DEF matching, p
  <1>4. matching # << >> => \E n \in DOMAIN Overrides : matching[1] = Overrides[n]
    BY <1>1, <1>2, InFirst
  <1>5. matching # << >> => matching[1] \in O
    BY <1>4 DEF Range
  <1> QED
    BY <1>3, <1>5, RecordsMeant

\* A candidate that the table shows faster than the baseline, and no slower per
\* token, keeps the baseline off the frontier of that point.
THEOREM TableAgreesWithFrontier ==
  ASSUME \A req \in Requests : OneRecordPerPoint(req.records)
  PROVE  Spec => []CompareAgreesWithFrontier
  <1>1. ASSUME ObjectiveInv PROVE CompareAgreesWithFrontier
    <2> SUFFICES ASSUME ~EffectiveGate(request),
                        NEW report \in Range(reports), Known(request, report.branch),
                        NEW branch, branch = BranchNamed(request, report.branch),
                        NEW base \in Comparison(branch, request.records, request.stat),
                        base.config_hash = BaselinePoint(branch).hash,
                        Cardinality(PairsAt(branch.name, base.concurrency)) = 1,
                        NEW row \in Comparison(branch, request.records, request.stat),
                        row.concurrency = base.concurrency,
                        row.delta # None, row.delta[1] > row.delta[2],
                        {row.per_token_ms, base.per_token_ms} \subseteq Int,
                        row.per_token_ms <= base.per_token_ms,
                        NEW e \in Range(report.frontier),
                        e.config_hash = base.config_hash, e.workload[3] = base.concurrency
                 PROVE  FALSE
      BY DEF CompareAgreesWithFrontier
    <2> DEFINE records == request.records
               stat == request.stat
               name == branch.name
               own == OwnRecords(records, name)
               H == BaselinePoint(branch).hash
               c == base.concurrency
               E == EntriesOf(records, name, stat, FALSE)
    <2>1. request \in Requests /\ report = Report(request, report.branch)
      BY <1>1 DEF ObjectiveInv
    <2>2. branch \in Range(request.branches) /\ name = report.branch
      BY DEF BranchNamed, Known
    <2>3. DeclaresLists(branch)
      BY <2>1, <2>2, RecordsMeant
    <2>4. records \in Seq(Range(records)) /\ \A r \in Range(records) : Meant(r)
      BY <2>1, RequestRecords
    <2>5. Range(own) = { r \in Range(records) : r.branch = name }
      BY <2>4, OwnRecordsOnly
    <2>6. PICK r \in Range(own) :
            /\ r.workload[3] = c /\ row.per_token_ms = PerTokenOf(r, stat)
            /\ \E b \in Range(own) :
                 /\ b.config_hash = H /\ b.workload[3] = c
                 /\ row.delta = <<ThroughputOf(r, stat), ThroughputOf(b, stat)>>
                 /\ ThroughputOf(r, stat) # None /\ ThroughputOf(b, stat) # None
      BY <2>3, <2>4, RowsOf
    <2>7. PICK b \in Range(own) :
            /\ b.config_hash = H /\ b.workload[3] = c
            /\ row.delta = <<ThroughputOf(r, stat), ThroughputOf(b, stat)>>
            /\ ThroughputOf(r, stat) # None /\ ThroughputOf(b, stat) # None
      BY <2>6
    <2>8. PICK shown \in Range(own) :
            /\ shown.config_hash = H /\ shown.workload[3] = c
            /\ base.per_token_ms = PerTokenOf(shown, stat)
      BY <2>3, <2>4, RowsOf
    <2>9. /\ Range(report.frontier) = { x \in E : \A f \in E : ~Dominates(f, x) }
          /\ \A x \in E : Placeable(x)
      <3>1. EffectiveGate(request) = FALSE
        BY DEF EffectiveGate
      <3>2. LET it == Report(request, name)
            IN /\ Range(it.frontier) = { x \in E : \A f \in E : ~Dominates(f, x) }
               /\ \A x \in E : Placeable(x)
        BY <2>1, <3>1, ReportBuilt
      <3> HIDE DEF E
      <3> QED
        BY <2>1, <2>2, <3>2
    <2>10. PICK q \in Range(records) : Eligible(records, name, stat, FALSE, q)
                                       /\ e = ToEntry(q, stat)
      BY <2>9 DEF EntriesOf
    <2>11. /\ q.branch = name /\ q.config_hash = H /\ q.workload[3] = c
           /\ PassesSLO(q, stat) /\ HasEntry(q, stat)
           /\ e.throughput = ThroughputOf(q, stat) /\ e.per_token_ms = PerTokenOf(q, stat)
      BY <2>10 DEF Eligible, ToEntry, ThroughputOf, PerTokenOf
    <2>12. /\ r \in Range(records) /\ r.branch = name
           /\ b \in Range(records) /\ b.branch = name
           /\ shown \in Range(records) /\ shown.branch = name
      BY <2>5
    <2> HIDE DEF records, stat, name, own, H, c, E
    <2>13. r.workload = q.workload /\ b.workload = q.workload /\ shown.workload = q.workload
      BY <2>1, <2>6, <2>7, <2>8, <2>11, <2>12, OnePair DEF records, name, c
    <2>14. b = q /\ shown = q
      BY <2>1, <2>7, <2>8, <2>11, <2>12, <2>13 DEF OneRecordPerPoint, records
    <2>15. /\ ThroughputOf(r, stat) > ThroughputOf(q, stat)
           /\ PerTokenOf(r, stat) <= PerTokenOf(q, stat)
           /\ ThroughputOf(r, stat) # None /\ PerTokenOf(r, stat) \in Int
           /\ PerTokenOf(q, stat) \in Int
      BY <2>6, <2>7, <2>8, <2>14
    <2>16. PassesSLO(r, stat)
      <3>1. PerTokenOf(q, stat) <= GatePerTokenMs(q.workload)
        BY <2>11 DEF PassesSLO, PerTokenOf
      <3>2. GatePerTokenMs(q.workload) \in Int
        BY SLOBound
      <3>3. PerTokenOf(r, stat) <= GatePerTokenMs(r.workload)
        BY <2>13, <2>15, <3>1, <3>2
      <3> QED
        BY <2>15, <3>3, RecordsMeant DEF PassesSLO, PerTokenOf
    <2>17. HasEntry(r, stat)
      BY <2>15, RecordsMeant DEF HasEntry, ThroughputOf, PerTokenOf
    <2>18. Eligible(records, name, stat, FALSE, r)
      BY <2>12, <2>16, <2>17 DEF Eligible, PassesQualityGate
    <2> DEFINE f == ToEntry(r, stat)
    <2>19. f \in E
      BY <2>12, <2>18 DEF E, EntriesOf
    <2>20. f.throughput = ThroughputOf(r, stat) /\ f.per_token_ms = PerTokenOf(r, stat)
      BY DEF ToEntry, ThroughputOf, PerTokenOf
    <2> HIDE DEF f
    <2>21. e \in E /\ ~Dominates(f, e) /\ Placeable(e) /\ Placeable(f)
      BY <2>9, <2>19
    <2> QED
      BY <2>11, <2>15, <2>20, <2>21 DEF Dominates, Placeable
  <1> QED
    BY <1>1, ObjectiveInvariant, PTL

-----------------------------------------------------------------------------
(* Mean and median *)

LEMMA TotalLoop ==
  ASSUME NEW values \in Seq(Int)
  PROVE  \E h \in [0 .. Len(values) -> Int] :
           /\ h[0] = 0
           /\ \A n \in 1 .. Len(values) : h[n] = h[n - 1] + values[n]
           /\ Total(values) = h[Len(values)]
  <1> DEFINE N == Len(values)
             step == [n \in 1 .. N |-> [t \in Int |-> t + values[n]]]
             IsHistory(h) == h = [n \in 0 .. N |-> IF n = 0 THEN 0 ELSE h[n - 1] + values[n]]
  <1>1. N \in Nat /\ \A n \in 1 .. N : values[n] \in Int
    OBVIOUS
  <1> HIDE DEF N
  <1>2. step \in [1 .. N -> [Int -> Int]]
    BY <1>1
  <1>3. \A n \in 1 .. N : \A t \in Int : step[n][t] = t + values[n]
    OBVIOUS
  <1> HIDE DEF step
  <1>4. PICK h \in [0 .. N -> Int] : IsLoop(h, N, 0, step)
    <2> DEFINE S == Int
               zero == 0
    <2>1. zero \in S /\ step \in [1 .. N -> [S -> S]] /\ N \in Nat
      BY <1>1, <1>2
    <2> HIDE DEF S, zero
    <2>2. \E h \in [0 .. N -> S] : IsLoop(h, N, zero, step)
      BY <2>1, LoopExists
    <2> QED
      BY <2>2 DEF S, zero
  <1>5. \A n \in 1 .. N : n - 1 \in 0 .. N /\ h[n - 1] \in Int
    BY <1>1
  <1>6. h[0] = 0 /\ \A n \in 1 .. N : h[n] = h[n - 1] + values[n]
    BY <1>3, <1>4, <1>5 DEF IsLoop
  <1>7. IsHistory(h)
    BY <1>1, <1>6
  <1> DEFINE g == CHOOSE f : IsHistory(f)
  <1>8. IsHistory(g)
    <2> HIDE DEF IsHistory
    <2> QED
      BY <1>7
  <1>9. Total(values) = g[N]
    BY DEF Total, N
  <1>10. g[0] = 0 /\ \A n \in 1 .. N : g[n] = g[n - 1] + values[n]
    <2> HIDE DEF g
    <2>1. \A n \in 0 .. N : g[n] = IF n = 0 THEN 0 ELSE g[n - 1] + values[n]
      BY <1>8
    <2> QED
      BY <1>1, <2>1
  <1> HIDE DEF g
  <1>11. g[N] = h[N]
    <2>1. \A n \in 1 .. N : g[n - 1] = h[n - 1] => g[n] = h[n]
      BY <1>6, <1>10
    <2>2. g[0] = h[0]
      BY <1>6, <1>10
    <2> QED
      BY <1>1, <2>1, <2>2, SameLoopSame
  <1> QED
    BY <1>6, <1>9, <1>11 DEF N

\* A quotient by a positive number and the number times it.
LEMMA QuotientBounds ==
  ASSUME NEW total \in Int, NEW n \in Nat, n > 0, NEW lo \in Int, NEW hi \in Int,
         n * lo <= total, total <= n * hi
  PROVE  total \div n \in Int /\ lo <= total \div n /\ total \div n <= hi
  <1> DEFINE q == total \div n
  <1>1. q \in Int /\ n * q <= total /\ total < n * q + n
    BY SMTT(30)
  <1> HIDE DEF q
  <1>2. ASSUME NEW a \in Int, NEW b \in Int, a < b
        PROVE  n * a + n <= n * b
    <2>1. b - a - 1 \in Nat /\ n * (b - a - 1) = n * b - (n * a + n)
      BY <1>2
    <2>2. n * (b - a - 1) >= 0
      BY <2>1
    <2> QED
      BY <2>1, <2>2
  <1>3. ~(q < lo)
    BY <1>1, <1>2
  <1>4. ~(hi < q)
    BY <1>1, <1>2
  <1> QED
    BY <1>1, <1>3, <1>4 DEF q

\* The mean of numbers between two bounds, truncated, lies between them.
LEMMA MeanBetween ==
  ASSUME NEW values \in Seq(Int), values # << >>, NEW lo \in Int, NEW hi \in Int,
         \A n \in DOMAIN values : lo <= values[n] /\ values[n] <= hi
  PROVE  LET mean == Total(values) \div Len(values)
         IN mean \in Int /\ lo <= mean /\ mean <= hi
  <1> DEFINE N == Len(values)
  <1>1. N \in Nat /\ N > 0 /\ DOMAIN values = 1 .. N
    OBVIOUS
  <1>2. PICK h \in [0 .. N -> Int] :
          /\ h[0] = 0 /\ \A n \in 1 .. N : h[n] = h[n - 1] + values[n]
          /\ Total(values) = h[N]
    BY TotalLoop
  <1>9. \A n \in 1 .. N : values[n] \in Int /\ lo <= values[n] /\ values[n] <= hi
    BY <1>1
  <1> HIDE DEF N
  <1> DEFINE T == { n \in 0 .. N : n * lo <= h[n] /\ h[n] <= n * hi }
  <1>3. 0 \in T
    BY <1>1, <1>2
  <1>4. ASSUME NEW n \in 1 .. N, n - 1 \in T
        PROVE  n \in T
    <2>1. n \in Nat /\ h[n - 1] \in Int /\ h[n] = h[n - 1] + values[n]
          /\ (n - 1) * lo <= h[n - 1] /\ h[n - 1] <= (n - 1) * hi
      BY <1>1, <1>2, <1>4
    <2>2. (n - 1) * lo = n * lo - lo /\ (n - 1) * hi = n * hi - hi
      BY <2>1
    <2>3. n * lo \in Int /\ n * hi \in Int
      BY <2>1
    <2>4. n * lo <= h[n] /\ h[n] <= n * hi
      BY <1>9, <2>1, <2>2, <2>3
    <2>5. n \in 0 .. N
      BY <1>1
    <2> QED
      BY <2>4, <2>5
  <1> HIDE DEF T
  <1>5. 0 .. N \subseteq T
    BY <1>1, <1>3, <1>4, UpTo
  <1>6. N \in T
    BY <1>1, <1>5
  <1>7. N * lo <= h[N] /\ h[N] <= N * hi /\ h[N] \in Int
    BY <1>1, <1>2, <1>6 DEF T
  <1>8. h[N] \div N \in Int /\ lo <= h[N] \div N /\ h[N] \div N <= hi
    BY <1>1, <1>7, QuotientBounds
  <1> QED
    BY <1>2, <1>8 DEF N

\* The k-th value of a list is one of its values.
LEMMA NthValue ==
  ASSUME NEW values \in Seq(Int), NEW k \in 1 .. Len(values)
  PROVE  Nth(values, k) \in Range(values)
  <1> DEFINE N == Len(values)
             S == Range(values)
             Below(v) == { n \in 1 .. N : values[n] < v }
             UpToValue(v) == { n \in 1 .. N : values[n] <= v }
             IsNth(v) == Cardinality(Below(v)) < k /\ Cardinality(UpToValue(v)) >= k
             lo == Min(S)
  <1>1. N \in Nat /\ DOMAIN values = 1 .. N /\ k \in 1 .. N /\ k \in Nat
        /\ \A n \in 1 .. N : values[n] \in Int /\ values[n] \in S
    BY DEF Range
  <1>2. S \subseteq Int /\ \A v \in S : \E n \in 1 .. N : v = values[n]
    BY <1>1 DEF Range
  <1>3. /\ Min(S) \in S /\ \A v \in S : Min(S) <= v
        /\ Max(S) \in S /\ \A v \in S : Max(S) >= v
    <2>1. values # << >>
      BY <1>1
    <2> QED
      BY <2>1, NumberEnds
  <1>4. Nth(values, k) = CHOOSE v \in S : IsNth(v)
    BY <1>1 DEF Nth
  <1> HIDE DEF N, S
  <1>5. ASSUME NEW v
        PROVE  /\ IsFiniteSet(Below(v)) /\ IsFiniteSet(UpToValue(v))
               /\ Cardinality(Below(v)) \in Nat /\ Cardinality(UpToValue(v)) \in Nat
    <2>1. Below(v) \in SUBSET (1 .. N) /\ UpToValue(v) \in SUBSET (1 .. N)
      OBVIOUS
    <2>2. IsFiniteSet(1 .. N)
      BY <1>1, FS_Interval
    <2> HIDE DEF Below, UpToValue
    <2> QED
      BY <2>1, <2>2, FS_Subset, FS_CardinalityType
  <1>6. Cardinality(UpToValue(Max(S))) >= k
    <2>1. UpToValue(Max(S)) = 1 .. N
      BY <1>1, <1>2, <1>3
    <2>2. Cardinality(1 .. N) = N
      BY <1>1, FS_Interval
    <2>3. N >= k
      BY <1>1
    <2> HIDE DEF UpToValue
    <2> QED
      BY <2>1, <2>2, <2>3
  <1>7. PICK v \in S : /\ Cardinality(UpToValue(v)) >= k
                       /\ \A x \in S : Cardinality(UpToValue(x)) >= k => v <= x
    <2> DEFINE Enough(x) == Cardinality(UpToValue(x)) >= k
               D == { d \in Nat : \E x \in S : Enough(x) /\ d = x - lo }
    <2> HIDE DEF UpToValue
    <2>1. ASSUME NEW x \in S PROVE x - lo \in Nat
      <3>1. x \in Int /\ lo \in Int /\ lo <= x
        BY <1>2, <1>3
      <3> HIDE DEF lo
      <3> QED
        BY <3>1
    <2>2. D \in SUBSET Nat /\ D # {}
      BY <1>3, <1>6, <2>1
    <2>3. PICK d \in D : \A f \in D : d <= f
      BY <2>2, LeastNumber
    <2>4. PICK v \in S : Enough(v) /\ d = v - lo
      BY <2>3
    <2> HIDE DEF Enough
    <2>5. ASSUME NEW x \in S, Enough(x) PROVE v <= x
      <3>1. x - lo \in D
        BY <2>1, <2>5
      <3>2. v - lo <= x - lo
        BY <2>3, <2>4, <3>1
      <3>3. x \in Int /\ lo \in Int /\ v \in Int
        BY <1>2, <1>3
      <3> HIDE DEF lo
      <3> QED
        BY <3>2, <3>3
    <2> QED
      BY <2>4, <2>5 DEF Enough
  <1>8. Cardinality(Below(v)) < k
    <2>1. CASE Below(v) = {}
      <3>1. Cardinality(Below(v)) = 0
        BY <2>1, FS_EmptySet
      <3> QED
        BY <1>1, <3>1
    <2>2. CASE Below(v) # {}
      <3> DEFINE J == Below(v)
                 Smaller == { x \in S : x < v }
      <3>1. PICK u \in Smaller : \A x \in Smaller : x <= u
        <4> DEFINE E == { d \in Nat : \E x \in Smaller : d = v - x }
        <4>1. \A x \in Smaller : v - x \in Nat
          BY <1>2
        <4>2. E \in SUBSET Nat /\ E # {}
          <5>1. Smaller # {}
            BY <1>1, <2>2
          <5> QED
            BY <4>1, <5>1
        <4>3. PICK d \in E : \A f \in E : d <= f
          BY <4>2, LeastNumber
        <4>4. PICK u \in Smaller : d = v - u
          BY <4>3
        <4>5. ASSUME NEW x \in Smaller PROVE x <= u
          <5>1. v - x \in E
            BY <4>1
          <5>2. v - u <= v - x
            BY <4>3, <4>4, <5>1
          <5> QED
            BY <1>2, <5>2
        <4> QED
          BY <4>5
      <3>2. Below(v) = UpToValue(u)
        BY <1>1, <1>2, <3>1
      <3>3. u \in S /\ ~(v <= u)
        BY <1>2, <3>1
      <3> DEFINE c == Cardinality(UpToValue(u))
      <3>4. ~(c >= k) /\ Cardinality(Below(v)) = c
        BY <1>7, <3>2, <3>3
      <3>5. c \in Nat /\ k \in Nat
        BY <1>1, <1>5
      <3> HIDE DEF c, Below
      <3> QED
        BY <3>4, <3>5
    <2> QED
      BY <2>1, <2>2
  <1>9. \E x \in S : IsNth(x)
    BY <1>7, <1>8
  <1> HIDE DEF IsNth
  <1> QED
    BY <1>4, <1>9 DEF S

\* The median of numbers between two bounds, truncated, lies between them.
LEMMA MedianBetween ==
  ASSUME NEW values \in Seq(Int), values # << >>, NEW lo \in Int, NEW hi \in Int,
         \A n \in DOMAIN values : lo <= values[n] /\ values[n] <= hi
  PROVE  Median(values) \in Int /\ lo <= Median(values) /\ Median(values) <= hi
  <1> DEFINE N == Len(values)
  <1>1. N \in Nat /\ N > 0 /\ DOMAIN values = 1 .. N
    OBVIOUS
  <1>2. \A v \in Range(values) : v \in Int /\ lo <= v /\ v <= hi
    BY <1>1 DEF Range
  <1>3. ASSUME NEW k \in 1 .. N
        PROVE  Nth(values, k) \in Int /\ lo <= Nth(values, k) /\ Nth(values, k) <= hi
    <2>1. Nth(values, k) \in Range(values)
      BY NthValue
    <2> QED
      BY <1>2, <2>1
  <1>4. Median(values) = IF N % 2 = 1 THEN Nth(values, (N + 1) \div 2)
                         ELSE (Nth(values, N \div 2) + Nth(values, N \div 2 + 1)) \div 2
    BY DEF Median
  <1> HIDE DEF N
  <1>5. CASE N % 2 = 1
    <2>1. (N + 1) \div 2 \in 1 .. N
      BY <1>1, <1>5
    <2> QED
      BY <1>3, <1>4, <1>5, <2>1
  <1>6. CASE N % 2 # 1
    <2>1. N \div 2 \in 1 .. N /\ N \div 2 + 1 \in 1 .. N
      BY <1>1, <1>6
    <2> DEFINE a == Nth(values, N \div 2)
               b == Nth(values, N \div 2 + 1)
    <2>2. a \in Int /\ b \in Int /\ lo <= a /\ a <= hi /\ lo <= b /\ b <= hi
      BY <1>3, <2>1
    <2>3. Median(values) = (a + b) \div 2
      BY <1>4, <1>6
    <2> HIDE DEF a, b
    <2> QED
      BY <2>2, <2>3
  <1> QED
    BY <1>5, <1>6

-----------------------------------------------------------------------------
(* From the lines to the metrics *)

\* A metric is recorded where every pass has it, and under any statistic it lies
\* between what the passes have.
LEMMA Aggregated ==
  ASSUME NEW runs, NEW N \in Nat, N > 0, runs = [n \in 1 .. N |-> runs[n]],
         NEW key, NEW stat
  PROVE  LET metrics == Aggregate(runs)
             value   == MetricValue(metrics, key, stat)
             V       == { runs[n][key] : n \in 1 .. N }
         IN /\ (\E n \in 1 .. N : key \notin DOMAIN runs[n]) => value = None
            /\ (\A n \in 1 .. N : key \in DOMAIN runs[n] /\ runs[n][key] \in Int) =>
                 value \in Int /\ Within(value, V)
  <1> DEFINE common == { x \in DOMAIN runs[1] : \A n \in DOMAIN runs : x \in DOMAIN runs[n] }
             Of(x) == [n \in DOMAIN runs |-> runs[n][x]]
             metrics == Aggregate(runs)
             V == { runs[n][key] : n \in 1 .. N }
             values == Of(key)
  <1>1. DOMAIN runs = 1 .. N /\ 1 \in 1 .. N
    OBVIOUS
  <1>2. metrics = [x \in common |-> [mean |-> Total(Of(x)) \div Len(Of(x)),
                                     median |-> Median(Of(x))]]
    BY DEF Aggregate
  <1> HIDE DEF metrics
  <1>3. ASSUME \E n \in 1 .. N : key \notin DOMAIN runs[n]
        PROVE  MetricValue(metrics, key, stat) = None
    <2>1. key \notin DOMAIN metrics
      BY <1>1, <1>2, <1>3
    <2> QED
      BY <2>1 DEF MetricValue
  <1>4. ASSUME \A n \in 1 .. N : key \in DOMAIN runs[n] /\ runs[n][key] \in Int
        PROVE  MetricValue(metrics, key, stat) \in Int
               /\ Within(MetricValue(metrics, key, stat), V)
    <2> DEFINE mean == Total(values) \div Len(values)
               lo == Min(V)
               hi == Max(V)
    <2>1. key \in common
      BY <1>1, <1>4
    <2>2. metrics[key] = [mean |-> mean, median |-> Median(values)] /\ key \in DOMAIN metrics
      BY <1>2, <2>1
    <2>3. values \in [1 .. N -> Int] /\ \A n \in 1 .. N : values[n] = runs[n][key]
      BY <1>1, <1>4
    <2> HIDE DEF values
    <2>4. values \in Seq(Int) /\ Len(values) = N /\ DOMAIN values = 1 .. N
      BY <2>3, SequenceOf
    <2>5. values # << >>
      BY <2>4
    <2>6. Range(values) = V
      BY <2>3, <2>4 DEF Range
    <2> HIDE DEF V
    <2>7. /\ lo \in V /\ hi \in V /\ \A v \in V : lo <= v /\ hi >= v
      BY <2>4, <2>5, <2>6, NumberEnds
    <2>8. \A v \in V : v \in Int
      BY <2>3, <2>4, <2>6 DEF Range
    <2>9. lo \in Int /\ hi \in Int
      BY <2>7, <2>8
    <2>10. \A n \in DOMAIN values : lo <= values[n] /\ values[n] <= hi
      <3>1. \A n \in DOMAIN values : values[n] \in V
        BY <2>6 DEF Range
      <3> QED
        BY <2>7, <2>8, <2>9, <3>1
    <2> HIDE DEF lo, hi
    <2>11. mean \in Int /\ lo <= mean /\ mean <= hi
      BY <2>4, <2>5, <2>9, <2>10, MeanBetween
    <2>12. Median(values) \in Int /\ lo <= Median(values) /\ Median(values) <= hi
      BY <2>4, <2>5, <2>9, <2>10, MedianBetween
    <2> HIDE DEF mean
    <2>13. MetricValue(metrics, key, stat) \in {mean, Median(values)}
      BY <2>2 DEF MetricValue, Get
    <2> QED
      BY <2>11, <2>12, <2>13 DEF Within, lo, hi
  <1> QED
    BY <1>3, <1>4 DEF metrics

\* The first key that has a value.
LEMMA FirstKey ==
  ASSUME NEW metrics, NEW K, NEW keys \in Seq(K), NEW stat, NEW n \in DOMAIN keys,
         MetricValue(metrics, keys[n], stat) # None,
         \A k \in 1 .. n - 1 : MetricValue(metrics, keys[k], stat) = None
  PROVE  SelectMetric(metrics, keys, stat) = MetricValue(metrics, keys[n], stat)
  <1> DEFINE p == [k \in K |-> MetricValue(metrics, k, stat) # None]
             present == Those(keys, LAMBDA k : MetricValue(metrics, k, stat) # None)
             N == Len(keys)
  <1>1. p \in [K -> BOOLEAN] /\ N \in Nat /\ DOMAIN keys = 1 .. N
    OBVIOUS
  <1>2. \A i \in 1 .. N : keys[i] \in K
    BY <1>1
  <1>3. present = In(keys, p)
    <2>1. [i \in DOMAIN keys |-> MetricValue(metrics, keys[i], stat) # None]
            = [i \in DOMAIN keys |-> p[keys[i]]]
      BY <1>1, <1>2
    <2> QED
      BY <2>1 DEF Those, In
  <1>4. SelectMetric(metrics, keys, stat) =
          IF present = << >> THEN None ELSE MetricValue(metrics, present[1], stat)
    BY DEF SelectMetric
  <1>5. \A i \in 1 .. N : p[keys[i]] <=> MetricValue(metrics, keys[i], stat) # None
    BY <1>2
  <1> HIDE DEF present, p, N
  <1>6. /\ present = << >> <=> \A i \in 1 .. N : ~p[keys[i]]
        /\ present # << >> =>
             \E i \in 1 .. N : /\ p[keys[i]] /\ present[1] = keys[i]
                               /\ \A k \in 1 .. i - 1 : ~p[keys[k]]
    BY <1>1, <1>3, InFirst
  <1>7. present # << >>
    BY <1>1, <1>5, <1>6
  <1>8. PICK i \in 1 .. N : /\ p[keys[i]] /\ present[1] = keys[i]
                            /\ \A k \in 1 .. i - 1 : ~p[keys[k]]
    BY <1>6, <1>7
  <1>9. i = n
    <2>1. ~(i < n) /\ ~(n < i)
      BY <1>1, <1>5, <1>8
    <2> QED
      BY <1>1, <1>8, <2>1
  <1> QED
    BY <1>4, <1>7, <1>8, <1>9

\* Where the point has a line the last of them is the one used.
LEMMA LineOfPoint ==
  ASSUME NEW L, NEW lines \in Seq(L), NEW point,
         \E k \in DOMAIN lines : MatchesPoint(lines[k], point)
  PROVE  LET fits == { k \in DOMAIN lines : MatchesPoint(lines[k], point) }
         IN /\ Max(fits) \in DOMAIN lines /\ MatchesPoint(lines[Max(fits)], point)
            /\ ResultLine(lines, point) = lines[Max(fits)]
  <1> DEFINE N == Len(lines)
             fits == { k \in 1 .. N : MatchesPoint(lines[k], point) }
             last == SelectLastInSeq(lines, LAMBDA l : MatchesPoint(l, point))
  <1>1. N \in Nat /\ DOMAIN lines = 1 .. N
    OBVIOUS
  <1>2. last = IF fits # {} THEN Max(fits) ELSE 0
    BY DEF SelectLastInSeq
  <1>3. ResultLine(lines, point) = IF last > 0 THEN lines[last] ELSE Last(lines)
    BY DEF ResultLine
  <1>4. fits \subseteq 1 .. N /\ fits # {}
    BY <1>1
  <1>5. Max(fits) \in fits
    <2> HIDE DEF fits
    <2> QED
      BY <1>1, <1>4, GreatestPlace
  <1>6. ResultLine(lines, point) = lines[Max(fits)]
    <2> HIDE DEF last
    <2> QED
      BY <1>1, <1>2, <1>3, <1>4, <1>5
  <1> QED
    BY <1>1, <1>5, <1>6

LEMMA PresentValue ==
  ASSUME NEW values, NEW key \in DOMAIN values
  PROVE  /\ key \in DOMAIN Present(values) <=> values[key] # None
         /\ values[key] # None => Present(values)[key] = values[key]
  BY DEF Present

LEMMA QuotientInt ==
  ASSUME NEW a \in Int, NEW b \in Int, b > 0
  PROVE  a \div b \in Int
  OBVIOUS

IsPoint(point) == point \in Seq(Int) /\ Len(point) = 3

NumericLine(line) == \A key \in DOMAIN line : line[key] \in Int

LEMMA PointConcurrency ==
  ASSUME NEW point, IsPoint(point)
  PROVE  point[3] \in Int
  <1>1. 3 \in 1 .. Len(point)
    BY DEF IsPoint
  <1> QED
    BY <1>1, ElementOfSeq DEF IsPoint

\* What bench_serving reports: the latencies of its last line, and the rate that
\* follows from the median one.
LEMMA ServingMetrics ==
  ASSUME NEW L, NEW lines \in Seq(L), lines # << >>, NEW point, IsPoint(point),
         \A k \in DOMAIN lines : NumericLine(lines[k]),
         Positive(lines[Len(lines)], "median_itl_ms")
  PROVE  LET l == lines[Len(lines)]
             m == Parse("bench_serving", lines, point)
             rate == (1000 * point[3]) \div l["median_itl_ms"]
         IN /\ rate \in Int
            /\ "decode_throughput_tok_s" \in DOMAIN m /\ m["decode_throughput_tok_s"] = rate
            /\ l["median_itl_ms"] \in Int
            /\ "per_token_ms" \in DOMAIN m /\ m["per_token_ms"] = l["median_itl_ms"]
            /\ "per_token_p95_ms" \in DOMAIN m <=> "p95_itl_ms" \in DOMAIN l
            /\ "p95_itl_ms" \in DOMAIN l =>
                 l["p95_itl_ms"] \in Int /\ m["per_token_p95_ms"] = l["p95_itl_ms"]
  <1> DEFINE l == lines[Len(lines)]
             m == Parse("bench_serving", lines, point)
             rate == (1000 * point[3]) \div l["median_itl_ms"]
             itl == Positive(l, "median_itl_ms")
             values == [per_token_ms            |-> When(itl, l.median_itl_ms),
                        decode_throughput_tok_s |-> When(itl, (1000 * point[3]) \div l.median_itl_ms),
                        per_token_p95_ms        |-> Get(l, "p95_itl_ms"),
                        ttft_ms                 |-> Get(l, "median_ttft_ms"),
                        output_throughput_tok_s |-> Get(l, "output_throughput")]
  <1>1. Len(lines) \in DOMAIN lines
    OBVIOUS
  <1>2. Last(lines) = l
    BY DEF Last
  <1>3. NumericLine(l) /\ itl
    BY <1>1
  <1>4. /\ l["median_itl_ms"] \in Int /\ l["median_itl_ms"] > 0
        /\ "p95_itl_ms" \in DOMAIN l => l["p95_itl_ms"] \in Int
    BY <1>3 DEF Positive, NumericLine
  <1>5. m = Present(values)
    BY <1>2 DEF Parse, ParseServing
  <1> HIDE DEF l, m
  <1>6. rate \in Int
    <2>1. point[3] \in Int
      BY PointConcurrency
    <2> QED
      BY <1>4, <2>1, QuotientInt
  <1>7. None \notin Int
    BY RecordsMeant
  <1>8. /\ values["per_token_ms"] = l["median_itl_ms"]
        /\ values["decode_throughput_tok_s"] = rate
        /\ values["per_token_p95_ms"] = Get(l, "p95_itl_ms")
        /\ {"per_token_ms", "decode_throughput_tok_s", "per_token_p95_ms"} \subseteq DOMAIN values
    BY <1>3 DEF When
  <1>9. /\ "p95_itl_ms" \in DOMAIN l => Get(l, "p95_itl_ms") = l["p95_itl_ms"]
        /\ "p95_itl_ms" \notin DOMAIN l => Get(l, "p95_itl_ms") = None
    BY DEF Get
  <1> HIDE DEF rate, values
  <1>10. /\ "decode_throughput_tok_s" \in DOMAIN m /\ m["decode_throughput_tok_s"] = rate
         /\ "per_token_ms" \in DOMAIN m /\ m["per_token_ms"] = l["median_itl_ms"]
    BY <1>4, <1>5, <1>6, <1>7, <1>8, PresentValue
  <1>11. /\ "per_token_p95_ms" \in DOMAIN m <=> "p95_itl_ms" \in DOMAIN l
         /\ "p95_itl_ms" \in DOMAIN l => m["per_token_p95_ms"] = l["p95_itl_ms"]
    BY <1>4, <1>5, <1>7, <1>8, <1>9, PresentValue
  <1> QED
    BY <1>4, <1>6, <1>10, <1>11 DEF l, m, rate

\* What bench_one_batch_server reports of a point that has a line with its
\* decode rate: that rate and the latency that goes with it.
LEMMA BatchMetrics ==
  ASSUME NEW lines, NEW point, NEW tool, tool # "bench_serving", IsPoint(point), point[3] > 0,
         NEW l, ResultLine(lines, point) = l, MatchesPoint(l, point), NumericLine(l),
         Positive(l, "last_gen_throughput")
  PROVE  LET m == Parse(tool, lines, point)
             latency == (1000 * point[3]) \div l["last_gen_throughput"]
         IN /\ l["last_gen_throughput"] \in Int /\ latency \in Int
            /\ "decode_throughput_tok_s" \in DOMAIN m
            /\ m["decode_throughput_tok_s"] = l["last_gen_throughput"]
            /\ "per_token_ms" \in DOMAIN m /\ m["per_token_ms"] = latency
            /\ "per_token_p95_ms" \notin DOMAIN m
  <1> DEFINE m == Parse(tool, lines, point)
             latency == (1000 * point[3]) \div l["last_gen_throughput"]
             tail == Positive(l, "last_gen_throughput")
             batch  == IF Get(l, "batch_size") \in {None, 0} THEN 1 ELSE l.batch_size
             rated  == tail \/ Positive(l, "output_throughput")
             decode == IF tail THEN l.last_gen_throughput ELSE l.output_throughput
             values == [decode_throughput_tok_s  |-> When(tail, decode),
                        per_token_ms             |-> When(rated, (1000 * batch) \div decode),
                        ttft_ms                  |-> When("last_ttft" \in DOMAIN l, 1000 * l.last_ttft),
                        output_throughput_tok_s  |-> Get(l, "output_throughput"),
                        overall_throughput_tok_s |-> Get(l, "overall_throughput"),
                        input_throughput_tok_s   |-> Get(l, "input_throughput"),
                        e2e_latency_s            |-> Get(l, "latency")]
  <1>1. m = Present(values)
    BY DEF Parse, RecordToMetrics
  <1>2. point[3] \in Int
    BY PointConcurrency
  <1>3. None \notin Int
    BY RecordsMeant
  <1>4. batch = point[3]
    <2>1. "batch_size" \in DOMAIN l /\ l["batch_size"] = point[3]
      BY DEF MatchesPoint
    <2>2. Get(l, "batch_size") = point[3]
      BY <2>1 DEF Get
    <2> QED
      BY <1>2, <1>3, <2>1, <2>2
  <1>5. l["last_gen_throughput"] \in Int /\ l["last_gen_throughput"] > 0 /\ tail
    BY DEF NumericLine, Positive
  <1>6. latency \in Int
    <2>1. 1000 * point[3] \in Int
      BY <1>2
    <2> QED
      BY <1>5, <2>1, QuotientInt
  <1>7. /\ values["decode_throughput_tok_s"] = When(tail, decode)
        /\ values["per_token_ms"] = When(rated, (1000 * batch) \div decode)
        /\ {"per_token_ms", "decode_throughput_tok_s"} \subseteq DOMAIN values
        /\ "per_token_p95_ms" \notin DOMAIN values
    <2> HIDE DEF tail, rated, batch, decode
    <2> QED
      OBVIOUS
  <1>8. When(tail, decode) = l["last_gen_throughput"]
         /\ When(rated, (1000 * batch) \div decode) = latency
    <2>1. decode = l["last_gen_throughput"] /\ rated
      BY <1>5
    <2> HIDE DEF tail, rated, batch, decode
    <2> QED
      BY <1>4, <1>5, <2>1 DEF When
  <1> HIDE DEF m, values, latency, tail, rated, batch, decode
  <1>9. /\ "decode_throughput_tok_s" \in DOMAIN m
         /\ m["decode_throughput_tok_s"] = l["last_gen_throughput"]
         /\ "per_token_ms" \in DOMAIN m /\ m["per_token_ms"] = latency
    <2>1. /\ values["decode_throughput_tok_s"] = l["last_gen_throughput"]
          /\ values["per_token_ms"] = latency
      BY <1>7, <1>8
    <2>2. /\ values["decode_throughput_tok_s"] # None
          /\ values["per_token_ms"] # None
      BY <1>3, <1>5, <1>6, <2>1
    <2>3. "decode_throughput_tok_s" \in DOMAIN values /\ "per_token_ms" \in DOMAIN values
      BY <1>7
    <2> QED
      BY <1>1, <2>1, <2>2, <2>3, PresentValue
  <1>10. "per_token_p95_ms" \notin DOMAIN m
    BY <1>1, <1>7 DEF Present
  <1> QED
    BY <1>5, <1>6, <1>9, <1>10 DEF m, latency

\* The order the keys are tried in.
LEMMA KeyOrder ==
  ASSUME NEW metrics, NEW stat
  PROVE  LET Value(key) == MetricValue(metrics, key, stat)
             throughput == SelectMetric(metrics, THROUGHPUT_KEYS, stat)
             perToken   == SelectMetric(metrics, PER_TOKEN_KEYS, stat)
         IN /\ Value("decode_throughput_tok_s") # None =>
                 throughput = Value("decode_throughput_tok_s")
            /\ Value("decode_throughput_tok_s") = None /\ Value("output_throughput_tok_s") # None =>
                 throughput = Value("output_throughput_tok_s")
            /\ Value("per_token_p95_ms") # None => perToken = Value("per_token_p95_ms")
            /\ Value("per_token_p95_ms") = None /\ Value("per_token_ms") # None =>
                 perToken = Value("per_token_ms")
  <1>1. /\ DOMAIN THROUGHPUT_KEYS = 1 .. 3 /\ DOMAIN PER_TOKEN_KEYS = 1 .. 2
        /\ THROUGHPUT_KEYS[1] = "decode_throughput_tok_s"
        /\ THROUGHPUT_KEYS[2] = "output_throughput_tok_s"
        /\ PER_TOKEN_KEYS[1] = "per_token_p95_ms" /\ PER_TOKEN_KEYS[2] = "per_token_ms"
    BY DEF THROUGHPUT_KEYS, PER_TOKEN_KEYS
  <1>2. /\ 1 \in 1 .. 3 /\ 2 \in 1 .. 3 /\ 1 \in 1 .. 2 /\ 2 \in 1 .. 2
        /\ \A k \in 1 .. 1 - 1 : FALSE
        /\ \A k \in 1 .. 2 - 1 : k = 1
    OBVIOUS
  <1>3. ASSUME NEW keys \in {THROUGHPUT_KEYS, PER_TOKEN_KEYS}
        PROVE  /\ MetricValue(metrics, keys[1], stat) # None =>
                    SelectMetric(metrics, keys, stat) = MetricValue(metrics, keys[1], stat)
               /\ MetricValue(metrics, keys[1], stat) = None
                  /\ MetricValue(metrics, keys[2], stat) # None =>
                    SelectMetric(metrics, keys, stat) = MetricValue(metrics, keys[2], stat)
    <2>1. keys \in Seq(MetricKeys) /\ 1 \in DOMAIN keys /\ 2 \in DOMAIN keys
      BY <1>1, <1>2, KeyLists
    <2>2. ASSUME MetricValue(metrics, keys[1], stat) # None
          PROVE  SelectMetric(metrics, keys, stat) = MetricValue(metrics, keys[1], stat)
      <3>1. \A k \in 1 .. 1 - 1 : MetricValue(metrics, keys[k], stat) = None
        BY <1>2
      <3> QED
        BY <2>1, <2>2, <3>1, FirstKey
    <2>3. ASSUME MetricValue(metrics, keys[1], stat) = None,
                 MetricValue(metrics, keys[2], stat) # None
          PROVE  SelectMetric(metrics, keys, stat) = MetricValue(metrics, keys[2], stat)
      <3>1. \A k \in 1 .. 2 - 1 : MetricValue(metrics, keys[k], stat) = None
        BY <1>2, <2>3
      <3> QED
        BY <2>1, <2>3, <3>1, FirstKey
    <2> QED
      BY <2>2, <2>3
  <1> QED
    BY <1>1, <1>3

\* A metric of a measured record, from what its passes have.
LEMMA MetricOfPasses ==
  ASSUME NEW r, MeasuredHere(r), NEW stat, NEW key
  PROVE  LET Pass(n) == Parse(r.tool, r.passes[n], r.workload)
             value   == MetricValue(r.metrics, key, stat)
         IN /\ (\E n \in DOMAIN r.passes : key \notin DOMAIN Pass(n)) => value = None
            /\ (\A n \in DOMAIN r.passes : key \in DOMAIN Pass(n) /\ Pass(n)[key] \in Int) =>
                 value \in Int /\ Within(value, { Pass(n)[key] : n \in DOMAIN r.passes })
  <1> DEFINE N == Len(r.passes)
             runs == [n \in DOMAIN r.passes |-> Parse(r.tool, r.passes[n], r.workload)]
  <1>1. N \in Nat /\ N > 0 /\ DOMAIN r.passes = 1 .. N
    BY DEF MeasuredHere, IsList
  <1>2. r.metrics = Aggregate(runs)
    BY DEF MeasuredHere, MeasuredMetrics
  <1> HIDE DEF N
  <1>3. runs = [n \in 1 .. N |-> runs[n]]
    BY <1>1
  <1>4. \A n \in 1 .. N : runs[n] = Parse(r.tool, r.passes[n], r.workload)
    BY <1>1
  <1> DEFINE Value == MetricValue(Aggregate(runs), key, stat)
             V == { runs[n][key] : n \in 1 .. N }
             Lacking == \E n \in 1 .. N : key \notin DOMAIN runs[n]
             Common == \A n \in 1 .. N : key \in DOMAIN runs[n] /\ runs[n][key] \in Int
  <1> HIDE DEF runs
  <1>5. (Lacking => Value = None) /\ (Common => Value \in Int /\ Within(Value, V))
    BY <1>1, <1>3, Aggregated
  <1>6. V = { Parse(r.tool, r.passes[n], r.workload)[key] : n \in DOMAIN r.passes }
    BY <1>1, <1>4
  <1>7. Value = MetricValue(r.metrics, key, stat)
    BY <1>2
  <1> HIDE DEF Value, V
  <1> QED
    BY <1>1, <1>4, <1>5, <1>6, <1>7

LEMMA PassLines ==
  ASSUME NEW r, MeasuredHere(r), NEW n \in DOMAIN r.passes
  PROVE  LET lines == r.passes[n]
         IN /\ lines \in Seq(Range(lines)) /\ lines # << >>
            /\ \A k \in DOMAIN lines : NumericLine(lines[k])
  <1> DEFINE lines == r.passes[n]
  <1>1. lines \in Range(r.passes)
    BY DEF Range
  <1>2. /\ lines \in Seq(Range(lines)) /\ lines # << >>
        /\ \A line \in Range(lines) : NumericLine(line)
    BY <1>1 DEF MeasuredHere, IsList, NumericLine
  <1>3. \A k \in DOMAIN lines : lines[k] \in Range(lines)
    BY DEF Range
  <1> HIDE DEF lines
  <1> QED
    BY <1>2, <1>3 DEF lines

\* A metric that every pass has, under values f gives of the lines used.
LEMMA MetricOfLines ==
  ASSUME NEW r, MeasuredHere(r), NEW stat, NEW key,
         NEW f, DOMAIN f = DOMAIN r.passes,
         \A n \in DOMAIN r.passes :
           /\ key \in DOMAIN Parse(r.tool, r.passes[n], r.workload)
           /\ Parse(r.tool, r.passes[n], r.workload)[key] \in Int
           /\ Parse(r.tool, r.passes[n], r.workload)[key] = f[n]
  PROVE  /\ MetricValue(r.metrics, key, stat) \in Int
         /\ MetricValue(r.metrics, key, stat) # None
         /\ Within(MetricValue(r.metrics, key, stat), Range(f))
  <1> DEFINE Pass(n) == Parse(r.tool, r.passes[n], r.workload)
             V == { Pass(n)[key] : n \in DOMAIN r.passes }
             value == MetricValue(r.metrics, key, stat)
  <1>1. \A n \in DOMAIN r.passes : key \in DOMAIN Pass(n) /\ Pass(n)[key] \in Int
                                   /\ Pass(n)[key] = f[n]
    OBVIOUS
  <1>2. value \in Int /\ Within(value, V)
    BY <1>1, MetricOfPasses
  <1>3. V = Range(f)
    BY <1>1 DEF Range
  <1>4. None \notin Int
    BY RecordsMeant
  <1> HIDE DEF V, value
  <1> QED
    BY <1>2, <1>3, <1>4 DEF value

LEMMA RecordBracketed ==
  ASSUME NEW r, MeasuredHere(r), IsPoint(r.workload), PointMeasured(r), NEW stat
  PROVE  Bracketed(r, SelectMetric(r.metrics, THROUGHPUT_KEYS, stat),
                      SelectMetric(r.metrics, PER_TOKEN_KEYS, stat))
  <1> DEFINE D == DOMAIN r.passes
             used == { LineOf(r, n) : n \in DOMAIN r.passes }
             L(n) == LineOf(r, n)
             Pass(n) == Parse(r.tool, r.passes[n], r.workload)
             Value(key) == MetricValue(r.metrics, key, stat)
             throughput == SelectMetric(r.metrics, THROUGHPUT_KEYS, stat)
             perToken == SelectMetric(r.metrics, PER_TOKEN_KEYS, stat)
  <1>1. used = { L(n) : n \in D } /\ \A n \in D : L(n) \in used
    OBVIOUS
  <1>2. 1 \in D
    BY DEF MeasuredHere, IsList
  <1>3. /\ Value("decode_throughput_tok_s") # None =>
             throughput = Value("decode_throughput_tok_s")
        /\ Value("decode_throughput_tok_s") = None /\ Value("output_throughput_tok_s") # None =>
             throughput = Value("output_throughput_tok_s")
        /\ Value("per_token_p95_ms") # None => perToken = Value("per_token_p95_ms")
        /\ Value("per_token_p95_ms") = None /\ Value("per_token_ms") # None =>
             perToken = Value("per_token_ms")
    BY KeyOrder
  <1>4. ASSUME NEW key, \E n \in D : key \notin DOMAIN Pass(n)
        PROVE  Value(key) = None
    BY <1>4, MetricOfPasses
  <1> HIDE DEF throughput, perToken, used, D
  <1>5. CASE r.tool = "bench_serving"
    <2> DEFINE Rate(l) == (1000 * r.workload[3]) \div l["median_itl_ms"]
    <2>1. ASSUME NEW n \in D
          PROVE  LET m == Pass(n)
                     l == L(n)
                 IN /\ Rate(l) \in Int
                    /\ "decode_throughput_tok_s" \in DOMAIN m
                    /\ m["decode_throughput_tok_s"] = Rate(l)
                    /\ l["median_itl_ms"] \in Int
                    /\ "per_token_ms" \in DOMAIN m /\ m["per_token_ms"] = l["median_itl_ms"]
                    /\ "per_token_p95_ms" \in DOMAIN m <=> "p95_itl_ms" \in DOMAIN l
                    /\ "p95_itl_ms" \in DOMAIN l =>
                         l["p95_itl_ms"] \in Int /\ m["per_token_p95_ms"] = l["p95_itl_ms"]
      <3> DEFINE lines == r.passes[n]
      <3>1. /\ lines \in Seq(Range(lines)) /\ lines # << >>
            /\ \A k \in DOMAIN lines : NumericLine(lines[k])
        BY PassLines DEF D
      <3>2. L(n) = lines[Len(lines)] /\ Positive(lines[Len(lines)], "median_itl_ms")
        BY <1>5 DEF LineOf, PointMeasured, D
      <3>3. Pass(n) = Parse("bench_serving", lines, r.workload)
        BY <1>5
      <3> HIDE DEF lines, L, Pass
      <3> QED
        BY <3>1, <3>2, <3>3, ServingMetrics
    <2> HIDE DEF Rate, Pass, L
    <2>2. Value("decode_throughput_tok_s") # None
          /\ Within(Value("decode_throughput_tok_s"), { Rate(l) : l \in used })
      <3> DEFINE f == [n \in D |-> Rate(L(n))]
      <3>1. \A n \in D : /\ "decode_throughput_tok_s" \in DOMAIN Pass(n)
                         /\ Pass(n)["decode_throughput_tok_s"] \in Int
                         /\ Pass(n)["decode_throughput_tok_s"] = f[n]
        BY <2>1
      <3>2. Range(f) = { Rate(l) : l \in used } /\ DOMAIN f = D
        BY <1>1 DEF Range
      <3> HIDE DEF f
      <3>3. Value("decode_throughput_tok_s") # None
            /\ Within(Value("decode_throughput_tok_s"), Range(f))
        BY <3>1, <3>2, MetricOfLines DEF Pass, D
      <3> QED
        BY <3>2, <3>3
    <2>3. ASSUME \A l \in used : "p95_itl_ms" \in DOMAIN l
          PROVE  /\ Value("per_token_p95_ms") # None
                 /\ Within(Value("per_token_p95_ms"), { l["p95_itl_ms"] : l \in used })
      <3> DEFINE f == [n \in D |-> L(n)["p95_itl_ms"]]
      <3>1. \A n \in D : /\ "per_token_p95_ms" \in DOMAIN Pass(n)
                         /\ Pass(n)["per_token_p95_ms"] \in Int
                         /\ Pass(n)["per_token_p95_ms"] = f[n]
        BY <1>1, <2>1, <2>3
      <3>2. Range(f) = { l["p95_itl_ms"] : l \in used } /\ DOMAIN f = D
        BY <1>1 DEF Range
      <3> HIDE DEF f
      <3>3. Value("per_token_p95_ms") # None
            /\ Within(Value("per_token_p95_ms"), Range(f))
        BY <3>1, <3>2, MetricOfLines DEF Pass, D
      <3> QED
        BY <3>2, <3>3
    <2>4. ASSUME NEW l \in used, "p95_itl_ms" \notin DOMAIN l
          PROVE  Value("per_token_p95_ms") = None
      <3>1. \E n \in D : "per_token_p95_ms" \notin DOMAIN Pass(n)
        BY <1>1, <2>1, <2>4
      <3> QED
        BY <1>4, <3>1 DEF Pass
    <2>5. Value("per_token_ms") # None
          /\ Within(Value("per_token_ms"), { l["median_itl_ms"] : l \in used })
      <3> DEFINE f == [n \in D |-> L(n)["median_itl_ms"]]
      <3>1. \A n \in D : /\ "per_token_ms" \in DOMAIN Pass(n)
                         /\ Pass(n)["per_token_ms"] \in Int
                         /\ Pass(n)["per_token_ms"] = f[n]
        BY <2>1
      <3>2. Range(f) = { l["median_itl_ms"] : l \in used } /\ DOMAIN f = D
        BY <1>1 DEF Range
      <3> HIDE DEF f
      <3>3. Value("per_token_ms") # None /\ Within(Value("per_token_ms"), Range(f))
        BY <3>1, <3>2, MetricOfLines DEF Pass, D
      <3> QED
        BY <3>2, <3>3
    <2> HIDE DEF Value
    <2>6. Within(throughput, { Rate(l) : l \in used })
      BY <1>3, <2>2
    <2>7. Within(perToken, IF \A l \in used : "p95_itl_ms" \in DOMAIN l
                             THEN { l["p95_itl_ms"] : l \in used }
                             ELSE { l["median_itl_ms"] : l \in used })
      <3>1. CASE \A l \in used : "p95_itl_ms" \in DOMAIN l
        BY <1>3, <2>3, <3>1
      <3>2. CASE ~\A l \in used : "p95_itl_ms" \in DOMAIN l
        BY <1>3, <2>4, <2>5, <3>2
      <3> QED
        BY <3>1, <3>2
    <2> QED
      BY <1>5, <2>6, <2>7 DEF Bracketed, Rate, throughput, perToken, used
  <1>6. CASE r.tool # "bench_serving"
    <2> DEFINE Latency(l) == (1000 * r.workload[3]) \div l["last_gen_throughput"]
    <2>1. ASSUME NEW n \in D
          PROVE  LET m == Pass(n)
                     l == L(n)
                 IN /\ l["last_gen_throughput"] \in Int /\ Latency(l) \in Int
                    /\ "decode_throughput_tok_s" \in DOMAIN m
                    /\ m["decode_throughput_tok_s"] = l["last_gen_throughput"]
                    /\ "per_token_ms" \in DOMAIN m /\ m["per_token_ms"] = Latency(l)
                    /\ "per_token_p95_ms" \notin DOMAIN m
      <3> DEFINE lines == r.passes[n]
                 fits == { k \in DOMAIN lines : MatchesPoint(lines[k], r.workload) }
      <3>1. /\ lines \in Seq(Range(lines))
            /\ \A k \in DOMAIN lines : NumericLine(lines[k])
        BY PassLines DEF D
      <3>2. /\ fits # {} /\ L(n) = lines[Max(fits)]
            /\ Positive(L(n), "last_gen_throughput")
        BY <1>6 DEF LineOf, OfPoint, PointMeasured, D
      <3>3. r.workload[3] > 0
        BY DEF MeasuredHere
      <3>4. Pass(n) = Parse(r.tool, lines, r.workload)
        OBVIOUS
      <3>5. \E k \in DOMAIN lines : MatchesPoint(lines[k], r.workload)
        BY <3>2
      <3>6. /\ Max(fits) \in DOMAIN lines
            /\ MatchesPoint(lines[Max(fits)], r.workload)
            /\ ResultLine(lines, r.workload) = lines[Max(fits)]
        <4> HIDE DEF lines
        <4> QED
          BY <3>1, <3>5, LineOfPoint
      <3> DEFINE m == Parse(r.tool, lines, r.workload)
                 l == L(n)
      <3> HIDE DEF lines, fits, L, Pass
      <3>7. /\ ResultLine(lines, r.workload) = l /\ MatchesPoint(l, r.workload)
            /\ NumericLine(l) /\ Positive(l, "last_gen_throughput")
        BY <3>1, <3>2, <3>6
      <3>8. /\ l["last_gen_throughput"] \in Int
            /\ (1000 * r.workload[3]) \div l["last_gen_throughput"] \in Int
            /\ "decode_throughput_tok_s" \in DOMAIN m
            /\ m["decode_throughput_tok_s"] = l["last_gen_throughput"]
            /\ "per_token_ms" \in DOMAIN m
            /\ m["per_token_ms"] = (1000 * r.workload[3]) \div l["last_gen_throughput"]
            /\ "per_token_p95_ms" \notin DOMAIN m
        <4> HIDE DEF l
        <4>1. IsPoint(r.workload) /\ r.workload[3] > 0 /\ r.tool # "bench_serving"
          BY <1>6, <3>3
        <4> DEFINE latency == (1000 * r.workload[3]) \div l["last_gen_throughput"]
        <4>2. /\ l["last_gen_throughput"] \in Int
              /\ "decode_throughput_tok_s" \in DOMAIN m
              /\ m["decode_throughput_tok_s"] = l["last_gen_throughput"]
          BY <3>7, <4>1, BatchMetrics
        <4>3. latency \in Int /\ m["per_token_ms"] = latency
          BY <3>7, <4>1, BatchMetrics
        <4>4. "per_token_ms" \in DOMAIN m /\ "per_token_p95_ms" \notin DOMAIN m
          BY <3>7, <4>1, BatchMetrics
        <4> HIDE DEF m, latency
        <4> QED
          BY <4>2, <4>3, <4>4 DEF latency
      <3> HIDE DEF m
      <3> QED
        BY <3>4, <3>8 DEF m
    <2> HIDE DEF Latency, Pass, L
    <2>2. Value("decode_throughput_tok_s") # None
          /\ Within(Value("decode_throughput_tok_s"), { l["last_gen_throughput"] : l \in used })
      <3> DEFINE f == [n \in D |-> L(n)["last_gen_throughput"]]
      <3>1. \A n \in D : /\ "decode_throughput_tok_s" \in DOMAIN Pass(n)
                         /\ Pass(n)["decode_throughput_tok_s"] \in Int
                         /\ Pass(n)["decode_throughput_tok_s"] = f[n]
        BY <2>1
      <3>2. Range(f) = { l["last_gen_throughput"] : l \in used } /\ DOMAIN f = D
        BY <1>1 DEF Range
      <3> HIDE DEF f
      <3>3. Value("decode_throughput_tok_s") # None
            /\ Within(Value("decode_throughput_tok_s"), Range(f))
        BY <3>1, <3>2, MetricOfLines DEF Pass, D
      <3> QED
        BY <3>2, <3>3
    <2>3. Value("per_token_ms") # None
          /\ Within(Value("per_token_ms"), { Latency(l) : l \in used })
      <3> DEFINE f == [n \in D |-> Latency(L(n))]
      <3>1. \A n \in D : /\ "per_token_ms" \in DOMAIN Pass(n)
                         /\ Pass(n)["per_token_ms"] \in Int
                         /\ Pass(n)["per_token_ms"] = f[n]
        BY <2>1
      <3>2. Range(f) = { Latency(l) : l \in used } /\ DOMAIN f = D
        BY <1>1 DEF Range
      <3> HIDE DEF f
      <3>3. Value("per_token_ms") # None /\ Within(Value("per_token_ms"), Range(f))
        BY <3>1, <3>2, MetricOfLines DEF Pass, D
      <3> QED
        BY <3>2, <3>3
    <2>4. Value("per_token_p95_ms") = None
      <3>1. \E n \in D : "per_token_p95_ms" \notin DOMAIN Pass(n)
        BY <1>2, <2>1 DEF D
      <3> QED
        BY <1>4, <3>1 DEF Pass
    <2> HIDE DEF Value
    <2>5. /\ Within(throughput, { l["last_gen_throughput"] : l \in used })
          /\ Within(perToken, { Latency(l) : l \in used })
      BY <1>3, <2>2, <2>3, <2>4
    <2> QED
      BY <1>6, <2>5 DEF Bracketed, Latency, throughput, perToken, used
  <1> QED
    BY <1>5, <1>6

\* Of a result set with one record per configuration and workload: where every
\* pass of a record reported its own workload point, what places its entry lies
\* between what the passes reported of that point.
THEOREM MetricsAreBracketed ==
  ASSUME \A req \in Requests : OneRecordPerPoint(req.records)
  PROVE  Spec => []MetricsBracketed
  <1>1. ASSUME ObjectiveInv PROVE MetricsBracketed
    <2> SUFFICES ASSUME NEW report \in Range(reports), NEW e \in Range(report.entries),
                        NEW r \in Range(request.records),
                        <<r.branch, r.config_hash, r.workload>>
                          = <<e.branch, e.config_hash, e.workload>>,
                        r.passes # None, PointMeasured(r)
                 PROVE  Bracketed(r, e.throughput, e.per_token_ms)
      BY DEF MetricsBracketed
    <2> DEFINE name == report.branch
               stat == request.stat
               E == EntriesOf(request.records, name, stat, EffectiveGate(request))
    <2>1. report = Report(request, name) /\ request \in Requests
      BY <1>1 DEF ObjectiveInv
    <2>2. Range(report.entries) = E
      <3>1. Range(Report(request, name).entries) = E
        BY <2>1, ReportBuilt
      <3> QED
        BY <2>1, <3>1
    <2>3. PICK q \in Range(request.records) : e = ToEntry(q, stat)
      BY <2>2 DEF EntriesOf
    <2>4. q.branch = r.branch /\ q.config_hash = r.config_hash /\ q.workload = r.workload
      BY <2>3 DEF ToEntry
    <2>5. q = r
      BY <2>1, <2>4 DEF OneRecordPerPoint
    <2>6. /\ e.throughput = SelectMetric(r.metrics, THROUGHPUT_KEYS, stat)
          /\ e.per_token_ms = SelectMetric(r.metrics, PER_TOKEN_KEYS, stat)
      BY <2>3, <2>5 DEF ToEntry
    <2>7. MeasuredHere(r) /\ IsPoint(r.workload)
      BY <2>1, PassesMeant, RecordsMeant DEF MeasuredHere, IsPoint
    <2> QED
      BY <2>6, <2>7, RecordBracketed
  <1> QED
    BY <1>1, ObjectiveInvariant, PTL
=============================================================================
