------------------------- MODULE SequenceFoldsProofs -------------------------
(***************************************************************************)
(* Sums and selections of sequences of any length, from the fact that a    *)
(* set of naturals that is not empty has a least element.                  *)
(***************************************************************************)
EXTENDS SequenceFolds, SequenceTheorems, WellFoundedInduction, TLAPS

-----------------------------------------------------------------------------
(* Induction over sets, and functions defined along an interval.           *)

LEMMA LeastExists ==
    ASSUME NEW I \in SUBSET Nat, I # {}
    PROVE  \E i \in I : \A j \in I : i <= j
<1> DEFINE Below == OpToRel(<, Nat)
<1>1. IsWellFoundedOn(Below, Nat)
  BY NatLessThanWellFounded
<1>2. \A i, j \in Nat : i < j => <<i, j>> \in Below
  BY DEF OpToRel
<1> HIDE DEF Below
<1>3. PICK i \in I : \A j \in I : <<j, i>> \notin Below
  BY <1>1, WFMin
<1>4. ASSUME NEW j \in I
      PROVE  i <= j
  <2>1. i \in Nat /\ j \in Nat
    OBVIOUS
  <2>2. ~(j < i)
    BY <1>2, <1>3, <2>1, Zenon
  <2> QED
    BY <2>1, <2>2
<1> QED
  BY <1>4

LEMMA GreatestExists ==
    ASSUME NEW n \in Nat, NEW I \in SUBSET (1 .. n), I # {}
    PROVE  \E i \in I : \A j \in I : i >= j
<1> DEFINE FromEnd == {k \in Nat : n - k \in I}
<1>1. PICK k \in FromEnd : \A m \in FromEnd : k <= m
  <2>1. PICK i \in I : TRUE
    OBVIOUS
  <2>2. n - i \in Nat /\ n - (n - i) = i
    OBVIOUS
  <2>3. n - i \in FromEnd
    BY <2>1, <2>2
  <2>4. FromEnd \in SUBSET Nat /\ FromEnd # {}
    BY <2>3
  <2> HIDE DEF FromEnd
  <2> QED
    BY <2>4, LeastExists
<1>2. \A j \in I : n - k >= j
  <2> SUFFICES ASSUME NEW j \in I PROVE n - k >= j
    OBVIOUS
  <2>1. n - j \in Nat /\ n - (n - j) = j
    OBVIOUS
  <2>2. n - j \in FromEnd
    BY <2>1
  <2>3. k <= n - j
    BY <1>1, <2>2
  <2> QED
    BY <2>3
<1>3. n - k \in I
  BY <1>1
<1> QED
  BY <1>2, <1>3

\* A set of indices that has 0 and, with each one, the next one, has them all.
LEMMA Induction ==
    ASSUME NEW N \in Nat, NEW S, 0 \in S, \A n \in 1 .. N : n - 1 \in S => n \in S
    PROVE  0 .. N \subseteq S
<1> DEFINE Others == (0 .. N) \ S
<1>1. CASE Others = {}
  BY <1>1
<1>2. CASE Others # {}
  <2>1. Others \in SUBSET Nat
    OBVIOUS
  <2>2. PICK n \in Others : \A k \in Others : n <= k
    BY <1>2, <2>1, LeastExists
  <2>3. n \in 1 .. N /\ n - 1 \in 0 .. N
    BY <2>2
  <2>4. n - 1 \in S
    BY <2>2, <2>3
  <2> QED
    BY <2>2, <2>3, <2>4
<1> QED
  BY <1>1, <1>2

\* A run of N steps from a base: step n takes one value to the next.
Steps(N, V) == [1 .. N -> [V -> V]]
IsRun(f, N, V, base, next) ==
    /\ f \in [0 .. N -> V]
    /\ f[0] = base
    /\ \A n \in 1 .. N : f[n] = next[n][f[n - 1]]

\* Every sequence of steps has a run.
LEMMA Recursion ==
    ASSUME NEW N \in Nat, NEW V, NEW base \in V, NEW next \in Steps(N, V)
    PROVE  \E f : IsRun(f, N, V, base, next)
<1> USE DEF Steps
<1> DEFINE RunsTo(f, m) == f[0] = base /\ \A n \in 1 .. m : f[n] = next[n][f[n - 1]]
           Reached == {m \in 0 .. N : \E f \in [0 .. N -> V] : RunsTo(f, m)}
<1>1. 0 \in Reached
  <2> DEFINE g == [n \in 0 .. N |-> base]
  <2>1. g \in [0 .. N -> V] /\ RunsTo(g, 0)
    OBVIOUS
  <2> HIDE DEF g, RunsTo
  <2>2. 0 \in 0 .. N
    OBVIOUS
  <2> QED
    BY <2>1, <2>2
<1>2. ASSUME NEW m \in 1 .. N, m - 1 \in Reached
      PROVE  m \in Reached
  <2>1. PICK f \in [0 .. N -> V] : RunsTo(f, m - 1)
    BY <1>2
  <2> DEFINE g == [f EXCEPT ![m] = next[m][f[m - 1]]]
  <2>2. next[m][f[m - 1]] \in V
    OBVIOUS
  <2>3. g \in [0 .. N -> V] /\ g[m] = next[m][f[m - 1]] /\ \A n \in 0 .. m - 1 : g[n] = f[n]
    BY <2>2
  <2> HIDE DEF g
  <2>4. g[0] = base /\ g[m] = next[m][g[m - 1]]
    BY <2>1, <2>3
  <2>5. \A n \in 1 .. m - 1 : g[n] = next[n][g[n - 1]]
    BY <2>1, <2>3
  <2>6. RunsTo(g, m)
    <3>1. \A n \in 1 .. m : n = m \/ n \in 1 .. m - 1
      OBVIOUS
    <3> QED
      BY <2>4, <2>5, <3>1
  <2> HIDE DEF RunsTo
  <2> QED
    BY <2>3, <2>6
<1> HIDE DEF RunsTo
<1>3. 0 .. N \subseteq Reached
  <2> HIDE DEF Reached
  <2> QED
    BY <1>1, <1>2, Induction
<1>4. PICK f \in [0 .. N -> V] : RunsTo(f, N)
  BY <1>3
<1> QED
  BY <1>4 DEF RunsTo, IsRun

\* What holds of the start and of each step holds all along.
LEMMA RunType ==
    ASSUME NEW N \in Nat, NEW V, NEW f, f = [n \in 0 .. N |-> f[n]], f[0] \in V,
           \A n \in 1 .. N : f[n - 1] \in V => f[n] \in V
    PROVE  f \in [0 .. N -> V]
<1> DEFINE S == {n \in 0 .. N : f[n] \in V}
<1>1. 0 \in S /\ \A n \in 1 .. N : n - 1 \in S => n \in S
  OBVIOUS
<1>2. 0 .. N \subseteq S
  <2> HIDE DEF S
  <2> QED
    BY <1>1, Induction
<1> QED
  BY <1>2

-----------------------------------------------------------------------------
(* Sums.                                                                   *)

\* The sum of a sequence is reached one number at a time.
LEMMA TotalsRun ==
    ASSUME NEW q \in Seq(Int)
    PROVE  /\ Totals(q) \in [0 .. Len(q) -> Int]
           /\ Totals(q)[0] = 0
           /\ \A n \in 1 .. Len(q) : Totals(q)[n] = Totals(q)[n - 1] + q[n]
<1> DEFINE N == Len(q)
           Numbers == Int
           zero == 0
           next == [n \in 1 .. N |-> [t \in Numbers |-> t + q[n]]]
           Unrolled(t) == [n \in 0 .. N |-> IF n = 0 THEN zero ELSE t[n - 1] + q[n]]
<1>1. N \in Nat /\ \A n \in 1 .. N : q[n] \in Int
  OBVIOUS
<1>2. Totals(q) = CHOOSE t : t = Unrolled(t)
  BY DEF Totals
<1> HIDE DEF N
<1>3. next \in Steps(N, Numbers) /\ zero \in Numbers
  BY <1>1 DEF Steps
<1>4. PICK f : IsRun(f, N, Numbers, zero, next)
  <2> HIDE DEF next, Numbers, zero
  <2> QED
    BY <1>1, <1>3, Recursion
<1>5. ASSUME NEW n \in 1 .. N
      PROVE  f[n] = f[n - 1] + q[n]
  <2>1. next[n][f[n - 1]] = f[n - 1] + q[n]
    BY <1>1, <1>4 DEF IsRun
  <2> QED
    BY <1>4, <2>1 DEF IsRun
<1>6. f = Unrolled(f)
  BY <1>1, <1>4, <1>5 DEF IsRun
<1> DEFINE t == Totals(q)
<1>7. t = Unrolled(t)
  <2> HIDE DEF Unrolled
  <2> QED
    BY <1>2, <1>6
<1> HIDE DEF t
<1>8. t[0] = 0 /\ \A n \in 1 .. N : t[n] = t[n - 1] + q[n]
  BY <1>1, <1>7
<1>9. t = [n \in 0 .. N |-> t[n]]
  BY <1>1, <1>7
<1>10. t \in [0 .. N -> Numbers]
  <2>1. t[0] \in Numbers
    BY <1>8
  <2>2. ASSUME NEW n \in 1 .. N, t[n - 1] \in Numbers
        PROVE  t[n] \in Numbers
    <3>1. t[n] = t[n - 1] + q[n] /\ q[n] \in Int
      BY <1>1, <1>8
    <3> QED
      BY <2>2, <3>1
  <2> HIDE DEF Numbers
  <2> QED
    BY <1>1, <1>9, <2>1, <2>2, RunType
<1> QED
  BY <1>8, <1>10 DEF t, N

LEMMA TotalsAt ==
    ASSUME NEW q \in Seq(Int), NEW n \in 1 .. Len(q)
    PROVE  /\ Totals(q)[n] = Totals(q)[n - 1] + q[n]
           /\ Totals(q)[n - 1] \in Int
           /\ q[n] \in Int
<1>1. n - 1 \in 0 .. Len(q) /\ q[n] \in Int
  OBVIOUS
<1> QED
  BY <1>1, TotalsRun

LEMMA TotalType ==
    ASSUME NEW q \in Seq(Int)
    PROVE  Total(q) \in Int
<1>1. Len(q) \in 0 .. Len(q)
  OBVIOUS
<1> QED
  BY <1>1, TotalsRun DEF Total

LEMMA TotalOfNone == Total(<<>>) = 0
<1>1. <<>> \in Seq(Int) /\ Len(<<>>) = 0
  OBVIOUS
<1> QED
  BY <1>1, TotalsRun DEF Total

\* The sums of a beginning depend on nothing that comes after it.
LEMMA TotalsOfPrefix ==
    ASSUME NEW p \in Seq(Int), NEW q \in Seq(Int), NEW m \in Nat,
           m <= Len(p), m <= Len(q), \A i \in 1 .. m : p[i] = q[i]
    PROVE  Totals(p)[m] = Totals(q)[m]
<1> DEFINE S == {n \in 0 .. m : Totals(p)[n] = Totals(q)[n]}
<1>1. 0 \in S
  BY TotalsRun
<1>2. ASSUME NEW n \in 1 .. m, n - 1 \in S
      PROVE  n \in S
  <2>1. n \in 1 .. Len(p) /\ n \in 1 .. Len(q)
    OBVIOUS
  <2>2. /\ Totals(p)[n] = Totals(p)[n - 1] + p[n]
        /\ Totals(q)[n] = Totals(q)[n - 1] + q[n]
    BY <2>1, TotalsRun
  <2> QED
    BY <1>2, <2>2
<1>3. 0 .. m \subseteq S
  <2> HIDE DEF S
  <2> QED
    BY <1>1, <1>2, Induction
<1> QED
  BY <1>3

LEMMA TotalOfAppend ==
    ASSUME NEW q \in Seq(Int), NEW x \in Int
    PROVE  Total(Append(q, x)) = Total(q) + x
<1> DEFINE r == Append(q, x)
<1>1. /\ r \in Seq(Int) /\ Len(r) = Len(q) + 1 /\ r[Len(q) + 1] = x
      /\ \A i \in 1 .. Len(q) : r[i] = q[i]
      /\ Len(q) \in Nat
  OBVIOUS
<1> HIDE DEF r
<1>2. Totals(r)[Len(q)] = Totals(q)[Len(q)]
  <2>1. Len(q) <= Len(q) /\ Len(q) <= Len(r)
    BY <1>1
  <2> QED
    BY <1>1, <2>1, TotalsOfPrefix
<1>3. Totals(r)[Len(r)] = Totals(r)[Len(r) - 1] + r[Len(r)]
  <2>1. Len(r) \in 1 .. Len(r)
    BY <1>1
  <2> QED
    BY <1>1, <2>1, TotalsRun
<1>4. Len(r) - 1 = Len(q)
  BY <1>1
<1> QED
  BY <1>1, <1>2, <1>3, <1>4 DEF Total, r

\* A weighted sum of two sequences, number by number.
IsCombined(r, b, p, c, q) ==
    /\ p \in Seq(Int) /\ q \in Seq(Int) /\ r \in Seq(Int) /\ b \in Int /\ c \in Int
    /\ Len(p) = Len(r) /\ Len(q) = Len(r)
    /\ \A i \in 1 .. Len(r) : r[i] = b * p[i] + c * q[i]

LEMMA TotalOfCombined ==
    ASSUME NEW r, NEW b, NEW p, NEW c, NEW q, IsCombined(r, b, p, c, q)
    PROVE  Total(r) = b * Total(p) + c * Total(q)
<1> USE DEF IsCombined
<1> DEFINE S == {n \in 0 .. Len(r) : Totals(r)[n] = b * Totals(p)[n] + c * Totals(q)[n]}
<1>1. 0 \in S
  <2>1. Totals(r)[0] = 0 /\ Totals(p)[0] = 0 /\ Totals(q)[0] = 0
    BY TotalsRun
  <2> QED
    BY <2>1
<1>2. ASSUME NEW n \in 1 .. Len(r), n - 1 \in S
      PROVE  n \in S
  <2> DEFINE x == Totals(p)[n - 1]
             y == Totals(q)[n - 1]
             u == p[n]
             v == q[n]
  <2>1. n \in 1 .. Len(p) /\ n \in 1 .. Len(q)
    OBVIOUS
  <2>2. /\ Totals(p)[n] = x + u /\ x \in Int /\ u \in Int
        /\ Totals(q)[n] = y + v /\ y \in Int /\ v \in Int
        /\ Totals(r)[n] = Totals(r)[n - 1] + r[n]
    BY <2>1, TotalsAt
  <2>3. Totals(r)[n - 1] = b * x + c * y /\ r[n] = b * u + c * v
    BY <1>2
  <2> HIDE DEF x, y, u, v
  <2>4. (b * x + c * y) + (b * u + c * v) = b * (x + u) + c * (y + v)
    BY <2>2
  <2>5. Totals(r)[n] = b * Totals(p)[n] + c * Totals(q)[n]
    BY <2>2, <2>3, <2>4, Zenon
  <2> QED
    BY <2>5
<1>3. 0 .. Len(r) \subseteq S
  <2>1. Len(r) \in Nat
    OBVIOUS
  <2> HIDE DEF S
  <2> QED
    BY <1>1, <1>2, <2>1, Induction
<1>4. Len(r) \in S
  <2>1. Len(r) \in 0 .. Len(r)
    OBVIOUS
  <2> HIDE DEF S
  <2> QED
    BY <1>3, <2>1
<1> QED
  BY <1>4 DEF Total

LEMMA TotalOfSame ==
    ASSUME NEW p \in Seq(Int), NEW q \in Seq(Int), Len(p) = Len(q),
           \A i \in 1 .. Len(q) : p[i] = q[i]
    PROVE  Total(p) = Total(q)
<1>1. Len(q) \in Nat
  OBVIOUS
<1> QED
  BY <1>1, TotalsOfPrefix DEF Total

\* One number is another one.
LEMMA TotalOfChanged ==
    ASSUME NEW p \in Seq(Int), NEW q \in Seq(Int), NEW k \in 1 .. Len(q),
           Len(p) = Len(q), \A i \in 1 .. Len(q) : i # k => p[i] = q[i]
    PROVE  Total(p) = Total(q) + p[k] - q[k]
<1> DEFINE T == {n \in 0 .. Len(q) :
                   Totals(p)[n] = Totals(q)[n] + (IF n < k THEN 0 ELSE p[k] - q[k])}
<1>1. 0 \in T
  BY TotalsRun
<1>2. ASSUME NEW n \in 1 .. Len(q), n - 1 \in T
      PROVE  n \in T
  <2> DEFINE x == Totals(p)[n - 1]
             y == Totals(q)[n - 1]
  <2>1. n \in 1 .. Len(p) /\ k \in 1 .. Len(p)
    OBVIOUS
  <2>2. /\ Totals(p)[n] = x + p[n] /\ x \in Int /\ p[n] \in Int
        /\ Totals(q)[n] = y + q[n] /\ y \in Int /\ q[n] \in Int
        /\ p[k] \in Int /\ q[k] \in Int
    BY <2>1, TotalsAt
  <2>3. x = y + (IF n - 1 < k THEN 0 ELSE p[k] - q[k])
    BY <1>2
  <2> HIDE DEF x, y
  <2>4. Totals(p)[n] = Totals(q)[n] + (IF n < k THEN 0 ELSE p[k] - q[k])
    <3>1. CASE n = k
      BY <2>2, <2>3, <3>1
    <3>2. CASE n # k
      BY <2>2, <2>3, <3>2
    <3> QED
      BY <3>1, <3>2
  <2> QED
    BY <2>4
<1>3. 0 .. Len(q) \subseteq T
  <2>1. Len(q) \in Nat
    OBVIOUS
  <2> HIDE DEF T
  <2> QED
    BY <1>1, <1>2, <2>1, Induction
<1>4. Len(q) \in T
  BY <1>3
<1>5. Total(q) \in Int /\ p[k] \in Int /\ q[k] \in Int
  BY TotalType
<1>6. Total(p) = Total(q) + (p[k] - q[k])
  BY <1>4 DEF Total
<1> QED
  BY <1>5, <1>6

\* What the elements of t are worth.
Values(t, value) == [i \in DOMAIN t |-> value[t[i]]]

LEMMA ValuesType ==
    ASSUME NEW S, NEW t \in Seq(S), NEW value \in [S -> Int]
    PROVE  Values(t, value) \in Seq(Int) /\ Len(Values(t, value)) = Len(t)
<1>1. Len(t) \in Nat /\ DOMAIN t = 1 .. Len(t) /\ \A i \in 1 .. Len(t) : t[i] \in S
  OBVIOUS
<1>2. Values(t, value) \in [1 .. Len(t) -> Int]
  BY <1>1 DEF Values
<1> QED
  BY <1>1, <1>2

LEMMA ValuesOfAppend ==
    ASSUME NEW S, NEW t \in Seq(S), NEW x \in S, NEW value \in [S -> Int]
    PROVE  Values(Append(t, x), value) = Append(Values(t, value), value[x])
<1> DEFINE new == Values(Append(t, x), value)
           old == Append(Values(t, value), value[x])
<1>1. Append(t, x) \in Seq(S) /\ Len(Append(t, x)) = Len(t) + 1 /\ value[x] \in Int
  OBVIOUS
<1>2. new \in Seq(Int) /\ Len(new) = Len(t) + 1
  BY <1>1, ValuesType
<1>3. old \in Seq(Int) /\ Len(old) = Len(t) + 1
  BY <1>1, ValuesType
<1>4. \A i \in 1 .. Len(t) + 1 : new[i] = old[i]
  <2>1. /\ DOMAIN Append(t, x) = 1 .. Len(t) + 1 /\ DOMAIN t = 1 .. Len(t)
        /\ Len(t) \in Nat
        /\ \A i \in 1 .. Len(t) : Append(t, x)[i] = t[i]
        /\ Append(t, x)[Len(t) + 1] = x
    OBVIOUS
  <2>2. \A i \in 1 .. Len(t) + 1 : new[i] = value[Append(t, x)[i]]
    BY <2>1 DEF Values
  <2>3. \A i \in 1 .. Len(t) + 1 :
            old[i] = IF i = Len(t) + 1 THEN value[x] ELSE Values(t, value)[i]
    BY ValuesType
  <2>4. \A i \in 1 .. Len(t) : Values(t, value)[i] = value[t[i]]
    BY <2>1 DEF Values
  <2> HIDE DEF new, old
  <2> QED
    BY <2>1, <2>2, <2>3, <2>4
<1> HIDE DEF new, old
<1> QED
  BY <1>2, <1>3, <1>4, SeqEqual DEF new, old

LEMMA WorthOfAppend ==
    ASSUME NEW S, NEW t \in Seq(S), NEW x \in S, NEW value \in [S -> Int]
    PROVE  Total(Values(Append(t, x), value)) = Total(Values(t, value)) + value[x]
<1>1. Values(t, value) \in Seq(Int) /\ value[x] \in Int
  BY ValuesType
<1>2. Values(Append(t, x), value) = Append(Values(t, value), value[x])
  BY ValuesOfAppend
<1> QED
  BY <1>1, <1>2, TotalOfAppend

LEMMA WorthOfNone ==
    ASSUME NEW value
    PROVE  Total(Values(<<>>, value)) = 0
<1>1. Values(<<>>, value) = <<>>
  BY DEF Values
<1> QED
  BY <1>1, TotalOfNone

-----------------------------------------------------------------------------
(* Sequences put together from parts.                                      *)

\* FlattenSeq() takes one part at a time.
LEMMA FlattenRun ==
    ASSUME NEW S, NEW parts \in Seq(Seq(S))
    PROVE  \E f \in [0 .. Len(parts) -> Seq(S)] :
              /\ f[0] = <<>>
              /\ \A n \in 1 .. Len(parts) : f[n] = f[n - 1] \o parts[n]
              /\ FlattenSeq(parts) = f[Len(parts)]
<1> DEFINE N == Len(parts)
           Rows == Seq(S)
           none == <<>>
           next == [n \in 1 .. N |-> [t \in Rows |-> t \o parts[n]]]
           Unrolled(t) == [n \in 1 .. N |-> IF n = 1 THEN parts[n] ELSE t[n - 1] \o parts[n]]
           flat == CHOOSE t : t = Unrolled(t)
<1>1. N \in Nat /\ \A n \in 1 .. N : parts[n] \in Rows
  OBVIOUS
<1>2. N # 0 => FlattenSeq(parts) = flat[N]
  BY DEF FlattenSeq
<1>3. N = 0 => FlattenSeq(parts) = <<>>
  BY DEF FlattenSeq
<1> HIDE DEF N
<1>4. next \in Steps(N, Rows) /\ none \in Rows
  BY <1>1 DEF Steps
<1>5. PICK f : IsRun(f, N, Rows, none, next)
  <2> HIDE DEF next, Rows, none
  <2> QED
    BY <1>1, <1>4, Recursion
<1>6. f \in [0 .. N -> Rows] /\ f[0] = <<>>
  BY <1>5 DEF IsRun
<1>7. ASSUME NEW n \in 1 .. N
      PROVE  f[n] = f[n - 1] \o parts[n]
  <2>1. next[n][f[n - 1]] = f[n - 1] \o parts[n]
    <3>1. f[n - 1] \in Rows
      <4> HIDE DEF Rows
      <4> QED
        BY <1>1, <1>6
    <3> HIDE DEF Rows
    <3> QED
      BY <3>1
  <2> QED
    BY <1>5, <2>1 DEF IsRun
<1>8. CASE N = 0
  BY <1>3, <1>6, <1>7, <1>8 DEF N
<1>9. CASE N # 0
  <2>1. 1 \in 1 .. N
    BY <1>1, <1>9
  <2>2. f[1] = parts[1]
    <3>1. f[1] = f[1 - 1] \o parts[1]
      BY <1>7, <2>1
    <3>2. f[1 - 1] = <<>> /\ parts[1] \in Seq(S)
      BY <1>1, <1>6, <2>1
    <3> QED
      BY <3>1, <3>2
  <2> DEFINE g == [n \in 1 .. N |-> f[n]]
  <2>3. g = Unrolled(g)
    <3>1. ASSUME NEW n \in 1 .. N, n # 1
          PROVE  g[n] = g[n - 1] \o parts[n]
      <4>1. n - 1 \in 1 .. N
        BY <1>1, <3>1
      <4> QED
        BY <1>7, <4>1
    <3> QED
      BY <2>2, <3>1
  <2>4. flat = Unrolled(flat)
    <3> HIDE DEF g, Unrolled
    <3> QED
      BY <2>3
  <2> HIDE DEF flat
  <2>5. \A n \in 1 .. N : flat[n] = IF n = 1 THEN parts[n] ELSE flat[n - 1] \o parts[n]
    BY <2>4
  <2> DEFINE T == {n \in 0 .. N : n = 0 \/ flat[n] = f[n]}
  <2>6. 0 \in T
    BY <1>1
  <2>7. ASSUME NEW n \in 1 .. N, n - 1 \in T
        PROVE  n \in T
    <3>1. CASE n = 1
      BY <2>2, <2>5, <3>1
    <3>2. CASE n # 1
      <4>1. flat[n - 1] = f[n - 1]
        BY <2>7, <3>2
      <4>2. flat[n] = flat[n - 1] \o parts[n]
        BY <2>5, <3>2
      <4>3. f[n] = f[n - 1] \o parts[n]
        BY <1>7
      <4>4. flat[n] = f[n]
        BY <4>1, <4>2, <4>3
      <4> QED
        BY <4>4
    <3> QED
      BY <3>1, <3>2
  <2>8. 0 .. N \subseteq T
    <3> HIDE DEF T
    <3> QED
      BY <1>1, <2>6, <2>7, Induction
  <2>9. flat[N] = f[N]
    BY <1>1, <1>9, <2>8
  <2> QED
    BY <1>2, <1>6, <1>7, <1>9, <2>9 DEF N
<1> QED
  BY <1>8, <1>9

LEMMA FlattenType ==
    ASSUME NEW S, NEW parts \in Seq(Seq(S))
    PROVE  FlattenSeq(parts) \in Seq(S)
<1> DEFINE Rows == Seq(S)
<1>1. PICK f \in [0 .. Len(parts) -> Rows] : FlattenSeq(parts) = f[Len(parts)]
  BY FlattenRun
<1>2. Len(parts) \in 0 .. Len(parts)
  OBVIOUS
<1> HIDE DEF Rows
<1>3. f[Len(parts)] \in Rows
  BY <1>2
<1> QED
  BY <1>1, <1>3 DEF Rows

\* A part of one element or of none is appended or passed over.
LEMMA ShortPart ==
    ASSUME NEW S, NEW t \in Seq(S), NEW part \in Seq(S), Len(part) <= 1
    PROVE  /\ Len(part) = 0 => t \o part = t
           /\ Len(part) = 1 => part[1] \in S /\ t \o part = Append(t, part[1])
           /\ Len(part) \in {0, 1}
<1> DEFINE n == Len(part)
<1>1. Len(part) \in {0, 1}
  <2>1. n \in Nat /\ n <= 1
    BY LenProperties
  <2> HIDE DEF n
  <2>2. n = 0 \/ n = 1
    BY <2>1
  <2> QED
    BY <2>2 DEF n
<1>2. CASE Len(part) = 0
  <2>1. part = <<>>
    BY <1>2
  <2> QED
    BY <1>2, <2>1, ConcatEmptySeq
<1>3. CASE Len(part) = 1
  <2>1. part[1] \in S
    <3>1. 1 \in 1 .. Len(part)
      BY <1>3
    <3> QED
      BY <3>1, ElementOfSeq
  <2> DEFINE x == part[1]
             single == <<x>>
  <2>2. /\ single \in Seq(S)
        /\ Len(single) = Len(part)
        /\ \A i \in 1 .. Len(part) : part[i] = single[i]
    BY <1>3, <2>1
  <2> HIDE DEF single
  <2>3. part = single
    BY <2>2, SeqEqual
  <2> HIDE DEF x
  <2>4. t \o part = Append(t, x)
    BY <2>1, <2>3, AppendIsConcat DEF single, x
  <2> QED
    BY <1>3, <2>1, <2>4 DEF x
<1> QED
  BY <1>1, <1>2, <1>3

\* h says from which of the first n parts each element came: from all those
\* that are not empty, in their order.
Places(h, flat, parts, n) ==
    /\ h \in [DOMAIN flat -> 1 .. n]
    /\ \A i \in DOMAIN flat : Len(parts[h[i]]) = 1 /\ flat[i] = parts[h[i]][1]
    /\ \A i, j \in DOMAIN flat : i < j => h[i] < h[j]
    /\ \A m \in 1 .. n : Len(parts[m]) = 1 => \E i \in DOMAIN flat : h[i] = m

LEMMA PlacesStep ==
    ASSUME NEW S, NEW parts \in Seq(Seq(S)), NEW n \in 1 .. Len(parts),
           Len(parts[n]) <= 1, NEW flat \in Seq(S), NEW h, Places(h, flat, parts, n - 1)
    PROVE  \E g : Places(g, flat \o parts[n], parts, n)
<1>1. parts[n] \in Seq(S) /\ n \in Nat
  OBVIOUS
<1>2. CASE Len(parts[n]) = 0
  <2>1. flat \o parts[n] = flat
    BY <1>1, <1>2, ShortPart
  <2>2. \A m \in 1 .. n : m \in 1 .. n - 1 \/ m = n
    OBVIOUS
  <2>3. 1 .. n - 1 \subseteq 1 .. n
    OBVIOUS
  <2>4. Places(h, flat, parts, n)
    <3>1. h \in [DOMAIN flat -> 1 .. n]
      BY <2>3 DEF Places
    <3>2. ASSUME NEW m \in 1 .. n, Len(parts[m]) = 1
          PROVE  \E i \in DOMAIN flat : h[i] = m
      <4>1. m \in 1 .. n - 1
        <5>1. Len(parts[n]) # Len(parts[m])
          BY <1>2, <3>2
        <5>2. m # n
          BY <5>1
        <5> QED
          BY <2>2, <5>2
      <4> QED
        BY <3>2, <4>1 DEF Places
    <3> QED
      BY <3>1, <3>2 DEF Places
  <2> QED
    BY <2>1, <2>4
<1>3. CASE Len(parts[n]) = 1
  <2> DEFINE x == parts[n][1]
             new == Append(flat, x)
             g == [i \in DOMAIN new |-> IF i \in DOMAIN flat THEN h[i] ELSE n]
  <2>1. flat \o parts[n] = new /\ x \in S
    BY <1>1, <1>3, ShortPart
  <2>2. /\ DOMAIN new = DOMAIN flat \cup {Len(flat) + 1}
        /\ \A i \in DOMAIN flat : new[i] = flat[i] /\ i \in Nat /\ i < Len(flat) + 1
        /\ new[Len(flat) + 1] = x
        /\ Len(flat) + 1 \notin DOMAIN flat
        /\ Len(flat) \in Nat
    BY <2>1
  <2> HIDE DEF new
  <2>3. /\ \A i \in DOMAIN flat : g[i] = h[i] /\ h[i] \in 1 .. n - 1
        /\ g[Len(flat) + 1] = n
    BY <2>2 DEF Places
  <2>4. g \in [DOMAIN new -> 1 .. n]
    BY <1>1, <2>2, <2>3
  <2> HIDE DEF g, x
  <2>5. ASSUME NEW i \in DOMAIN new
        PROVE  Len(parts[g[i]]) = 1 /\ new[i] = parts[g[i]][1]
    BY <1>3, <2>2, <2>3 DEF Places, x
  <2>6. ASSUME NEW i \in DOMAIN new, NEW j \in DOMAIN new, i < j
        PROVE  g[i] < g[j]
    <3>1. i \in DOMAIN flat
      BY <2>2, <2>6
    <3>2. CASE j \in DOMAIN flat
      BY <2>3, <2>6, <3>1, <3>2 DEF Places
    <3>3. CASE j \notin DOMAIN flat
      <4>1. g[j] = n /\ g[i] \in 1 .. n - 1
        BY <2>2, <2>3, <3>1, <3>3
      <4> QED
        BY <1>1, <4>1
    <3> QED
      BY <3>2, <3>3
  <2>7. ASSUME NEW m \in 1 .. n, Len(parts[m]) = 1
        PROVE  \E i \in DOMAIN new : g[i] = m
    <3>1. CASE m = n
      BY <2>2, <2>3, <3>1
    <3>2. CASE m # n
      <4>1. m \in 1 .. n - 1
        BY <3>2
      <4>2. PICK i \in DOMAIN flat : h[i] = m
        BY <2>7, <4>1 DEF Places
      <4> QED
        BY <2>2, <2>3, <4>2
    <3> QED
      BY <3>1, <3>2
  <2>8. Places(g, new, parts, n)
    BY <2>4, <2>5, <2>6, <2>7 DEF Places
  <2> QED
    BY <2>1, <2>8
<1> QED
  BY <1>1, <1>2, <1>3, ShortPart

LEMMA FlattenPlaces ==
    ASSUME NEW S, NEW parts \in Seq(Seq(S)), \A n \in 1 .. Len(parts) : Len(parts[n]) <= 1
    PROVE  \E h : Places(h, FlattenSeq(parts), parts, Len(parts))
<1> DEFINE N == Len(parts)
           Rows == Seq(S)
<1>1. N \in Nat
  OBVIOUS
<1>2. PICK f \in [0 .. N -> Rows] :
          /\ f[0] = <<>>
          /\ \A n \in 1 .. N : f[n] = f[n - 1] \o parts[n]
          /\ FlattenSeq(parts) = f[N]
  BY FlattenRun
<1> DEFINE T == {n \in 0 .. N : \E h : Places(h, f[n], parts, n)}
<1>3. 0 \in T
  <2>1. DOMAIN f[0] = {} /\ 1 .. 0 = {}
    BY <1>2
  <2>2. Places([i \in {} |-> 0], f[0], parts, 0)
    BY <2>1 DEF Places
  <2> QED
    BY <1>1, <2>2
<1> HIDE DEF N
<1>4. ASSUME NEW n \in 1 .. N, n - 1 \in T
      PROVE  n \in T
  <2>1. f[n - 1] \in Rows
    <3>1. n - 1 \in 0 .. N
      BY <1>1
    <3> HIDE DEF Rows
    <3> QED
      BY <3>1
  <2>2. PICK h : Places(h, f[n - 1], parts, n - 1)
    BY <1>4
  <2>3. PICK g : Places(g, f[n - 1] \o parts[n], parts, n)
    BY <2>1, <2>2, PlacesStep DEF N
  <2>4. f[n] = f[n - 1] \o parts[n]
    BY <1>2
  <2>5. Places(g, f[n], parts, n)
    BY <2>3, <2>4
  <2> QED
    BY <1>1, <2>5
<1>5. 0 .. N \subseteq T
  <2> HIDE DEF T
  <2> QED
    BY <1>1, <1>3, <1>4, Induction
<1> QED
  BY <1>1, <1>2, <1>5 DEF N

\* Sums over short parts are sums over what they make.
LEMMA TotalOfFlattened ==
    ASSUME NEW S, NEW parts \in Seq(Seq(S)), \A n \in 1 .. Len(parts) : Len(parts[n]) <= 1,
           NEW value \in [S -> Int]
    PROVE  Total(Values(FlattenSeq(parts), value))
             = Total([n \in DOMAIN parts |->
                         IF Len(parts[n]) = 1 THEN value[parts[n][1]] ELSE 0])
<1> DEFINE N == Len(parts)
           Rows == Seq(S)
           each == [n \in DOMAIN parts |-> IF Len(parts[n]) = 1 THEN value[parts[n][1]] ELSE 0]
<1>1. N \in Nat /\ DOMAIN parts = 1 .. N
  OBVIOUS
<1>2. PICK f \in [0 .. N -> Rows] :
          /\ f[0] = <<>>
          /\ \A n \in 1 .. N : f[n] = f[n - 1] \o parts[n]
          /\ FlattenSeq(parts) = f[N]
  BY FlattenRun
<1>3. \A n \in 1 .. N : parts[n] \in Seq(S) /\ Len(parts[n]) <= 1
  OBVIOUS
<1> HIDE DEF N
<1>4. ASSUME NEW n \in 1 .. N, Len(parts[n]) = 1
      PROVE  parts[n][1] \in S /\ value[parts[n][1]] \in Int
  BY <1>3, <1>4, EmptySeq, ShortPart
<1>5. each \in Seq(Int) /\ Len(each) = N
  <2>1. each \in [1 .. N -> Int]
    BY <1>1, <1>4
  <2> HIDE DEF each
  <2> QED
    BY <1>1, <2>1
<1> HIDE DEF each
<1> DEFINE T == {n \in 0 .. N : Total(Values(f[n], value)) = Totals(each)[n]}
<1>6. 0 \in T
  <2>1. Total(Values(<<>>, value)) = 0
    BY WorthOfNone
  <2>2. Totals(each)[0] = 0
    BY <1>5, TotalsRun
  <2> QED
    BY <1>1, <1>2, <2>1, <2>2
<1>7. ASSUME NEW n \in 1 .. N, n - 1 \in T
      PROVE  n \in T
  <2> DEFINE t == f[n - 1]
  <2>1. t \in Rows
    <3>1. n - 1 \in 0 .. N
      BY <1>1
    <3> HIDE DEF Rows
    <3> QED
      BY <1>2, <3>1
  <2>2. Total(Values(t, value)) = Totals(each)[n - 1] /\ f[n] = t \o parts[n]
    BY <1>2, <1>7
  <2> HIDE DEF t
  <2>3. Totals(each)[n] = Totals(each)[n - 1] + each[n] /\ Totals(each)[n - 1] \in Int
    BY <1>5, TotalsAt
  <2>4. CASE Len(parts[n]) = 0
    <3>1. f[n] = t
      BY <1>3, <2>1, <2>2, <2>4, ShortPart
    <3>2. each[n] = 0
      BY <1>1, <2>4 DEF each
    <3> QED
      BY <2>2, <2>3, <3>1, <3>2
  <2>5. CASE Len(parts[n]) = 1
    <3> DEFINE x == parts[n][1]
    <3>1. f[n] = Append(t, x) /\ x \in S
      BY <1>3, <2>1, <2>2, <2>5, ShortPart
    <3>2. each[n] = value[x] /\ value[x] \in Int
      BY <1>1, <1>4, <2>5 DEF each
    <3> HIDE DEF x
    <3>3. Total(Values(f[n], value)) = Total(Values(t, value)) + value[x]
      BY <2>1, <3>1, WorthOfAppend
    <3>4. Total(Values(f[n], value)) = Totals(each)[n]
      BY <2>2, <2>3, <3>2, <3>3
    <3> QED
      BY <3>4
  <2> QED
    BY <1>3, <2>1, <2>4, <2>5, ShortPart
<1>8. 0 .. N \subseteq T
  <2> HIDE DEF T
  <2> QED
    BY <1>1, <1>6, <1>7, Induction
<1>9. Total(Values(FlattenSeq(parts), value)) = Total(each)
  BY <1>1, <1>2, <1>5, <1>8 DEF Total
<1> QED
  BY <1>9 DEF each

-----------------------------------------------------------------------------
(* Selections.                                                             *)

\* A selection is the flattening of parts of one row or none.
Parts(rows, I) == [n \in DOMAIN rows |-> IF n \in I THEN <<rows[n]>> ELSE <<>>]

LEMMA PartsType ==
    ASSUME NEW S, NEW rows \in Seq(S), NEW I
    PROVE  /\ Parts(rows, I) \in Seq(Seq(S))
           /\ Len(Parts(rows, I)) = Len(rows)
           /\ \A n \in 1 .. Len(rows) :
                 /\ Len(Parts(rows, I)[n]) <= 1
                 /\ Len(Parts(rows, I)[n]) = 1 <=> n \in I
                 /\ n \in I => Parts(rows, I)[n] = <<rows[n]>> /\ rows[n] \in S
                 /\ n \notin I => Parts(rows, I)[n] = <<>>
           /\ Kept(rows, I) = FlattenSeq(Parts(rows, I))
<1> DEFINE N == Len(rows)
           Rows == Seq(S)
<1>1. N \in Nat /\ DOMAIN rows = 1 .. N /\ \A n \in 1 .. N : rows[n] \in S
  OBVIOUS
<1> HIDE DEF N
<1>2. \A n \in 1 .. N : <<rows[n]>> \in Rows /\ <<>> \in Rows
  BY <1>1
<1> HIDE DEF Rows
<1>3. Parts(rows, I) \in [1 .. N -> Rows]
  BY <1>1, <1>2 DEF Parts
<1>4. Parts(rows, I) \in Seq(Rows) /\ Len(Parts(rows, I)) = N
  BY <1>1, <1>3
<1>5. \A x : Len(<<x>>) = 1
  OBVIOUS
<1>6. \A n \in 1 .. N : Parts(rows, I)[n] = IF n \in I THEN <<rows[n]>> ELSE <<>>
  BY <1>1 DEF Parts
<1>7. ASSUME NEW n \in 1 .. N
      PROVE  /\ Len(Parts(rows, I)[n]) <= 1
             /\ Len(Parts(rows, I)[n]) = 1 <=> n \in I
             /\ n \in I => Parts(rows, I)[n] = <<rows[n]>> /\ rows[n] \in S
             /\ n \notin I => Parts(rows, I)[n] = <<>>
  <2>1. CASE n \in I
    <3>1. Parts(rows, I)[n] = <<rows[n]>> /\ rows[n] \in S
      BY <1>1, <1>6, <2>1
    <3>2. Len(Parts(rows, I)[n]) = 1
      BY <1>5, <3>1
    <3> QED
      BY <2>1, <3>1, <3>2
  <2>2. CASE n \notin I
    <3>1. Parts(rows, I)[n] = <<>> /\ Len(<<>>) = 0
      BY <1>6, <2>2
    <3>2. Len(Parts(rows, I)[n]) = 0
      BY <3>1
    <3> QED
      BY <2>2, <3>1, <3>2
  <2> QED
    BY <2>1, <2>2
<1>8. Kept(rows, I) = FlattenSeq(Parts(rows, I))
  BY DEF Kept, Parts
<1> QED
  BY <1>4, <1>7, <1>8 DEF N, Rows

LEMMA KeptType ==
    ASSUME NEW S, NEW rows \in Seq(S), NEW I
    PROVE  Kept(rows, I) \in Seq(S)
BY PartsType, FlattenType

\* A selection grows row by row.
IsKeptRun(f, S, rows, I) ==
    /\ f \in [0 .. Len(rows) -> Seq(S)]
    /\ f[0] = <<>>
    /\ \A n \in 1 .. Len(rows) :
          f[n] = IF n \in I THEN Append(f[n - 1], rows[n]) ELSE f[n - 1]
    /\ Kept(rows, I) = f[Len(rows)]

LEMMA KeptRun ==
    ASSUME NEW S, NEW rows \in Seq(S), NEW I
    PROVE  \E f : IsKeptRun(f, S, rows, I)
<1> DEFINE parts == Parts(rows, I)
           N == Len(rows)
           Rows == Seq(S)
<1>1. /\ parts \in Seq(Seq(S)) /\ Len(parts) = N /\ Kept(rows, I) = FlattenSeq(parts)
      /\ \A n \in 1 .. N : /\ n \in I => parts[n] = <<rows[n]>> /\ rows[n] \in S
                           /\ n \notin I => parts[n] = <<>>
  BY PartsType
<1>2. N \in Nat
  OBVIOUS
<1> HIDE DEF parts, N
<1>3. PICK f \in [0 .. N -> Rows] :
          /\ f[0] = <<>>
          /\ \A n \in 1 .. N : f[n] = f[n - 1] \o parts[n]
          /\ FlattenSeq(parts) = f[N]
  <2>1. \E f \in [0 .. Len(parts) -> Seq(S)] :
           /\ f[0] = <<>>
           /\ \A n \in 1 .. Len(parts) : f[n] = f[n - 1] \o parts[n]
           /\ FlattenSeq(parts) = f[Len(parts)]
    BY <1>1, FlattenRun
  <2> QED
    BY <1>1, <2>1, Zenon
<1>4. ASSUME NEW n \in 1 .. N
      PROVE  f[n] = IF n \in I THEN Append(f[n - 1], rows[n]) ELSE f[n - 1]
  <2>1. f[n - 1] \in Rows
    <3>1. n - 1 \in 0 .. N
      BY <1>2
    <3> HIDE DEF Rows
    <3> QED
      BY <1>3, <3>1
  <2>2. f[n] = f[n - 1] \o parts[n]
    BY <1>3
  <2>3. CASE n \in I
    <3>1. f[n - 1] \o <<rows[n]>> = Append(f[n - 1], rows[n])
      BY <1>1, <2>1, <2>3, AppendIsConcat
    <3> QED
      BY <1>1, <2>2, <2>3, <3>1
  <2>4. CASE n \notin I
    <3>1. f[n - 1] \o <<>> = f[n - 1]
      BY <2>1, ConcatEmptySeq
    <3> QED
      BY <1>1, <2>2, <2>4, <3>1
  <2> QED
    BY <2>3, <2>4
<1> QED
  BY <1>1, <1>3, <1>4 DEF N, IsKeptRun

\* h says which row each one kept is: all those of I, in their order.
KeptAt(h, kept, rows, I) ==
    /\ h \in [DOMAIN kept -> DOMAIN rows \cap I]
    /\ \A i \in DOMAIN kept : kept[i] = rows[h[i]]
    /\ \A i, j \in DOMAIN kept : i < j => h[i] < h[j]
    /\ \A n \in DOMAIN rows \cap I : \E i \in DOMAIN kept : h[i] = n

LEMMA KeptPlaces ==
    ASSUME NEW S, NEW rows \in Seq(S), NEW I
    PROVE  \E h : KeptAt(h, Kept(rows, I), rows, I)
<1> DEFINE parts == Parts(rows, I)
           N == Len(rows)
<1>1. /\ parts \in Seq(Seq(S)) /\ Len(parts) = N /\ Kept(rows, I) = FlattenSeq(parts)
      /\ \A n \in 1 .. N : /\ Len(parts[n]) <= 1
                           /\ Len(parts[n]) = 1 <=> n \in I
                           /\ n \in I => parts[n] = <<rows[n]>> /\ rows[n] \in S
  BY PartsType
<1>2. DOMAIN rows = 1 .. N
  OBVIOUS
<1> HIDE DEF parts
<1>3. PICK h : Places(h, Kept(rows, I), parts, N)
  BY <1>1, FlattenPlaces
<1> HIDE DEF N
<1>4. \A x : <<x>>[1] = x
  OBVIOUS
<1>5. KeptAt(h, Kept(rows, I), rows, I)
  <2> DEFINE kept == Kept(rows, I)
  <2>1. ASSUME NEW i \in DOMAIN kept
        PROVE  h[i] \in DOMAIN rows \cap I /\ kept[i] = rows[h[i]]
    <3>1. h[i] \in 1 .. N /\ Len(parts[h[i]]) = 1 /\ kept[i] = parts[h[i]][1]
      BY <1>3 DEF Places
    <3> HIDE DEF kept
    <3> QED
      BY <1>1, <1>2, <1>4, <3>1
  <2>2. h \in [DOMAIN kept -> DOMAIN rows \cap I]
    BY <1>3, <2>1 DEF Places
  <2>3. \A n \in DOMAIN rows \cap I : \E i \in DOMAIN kept : h[i] = n
    BY <1>1, <1>2, <1>3 DEF Places
  <2> QED
    BY <1>3, <2>1, <2>2, <2>3 DEF KeptAt, Places
<1> QED
  BY <1>5

LEMMA KeptOfNone ==
    ASSUME NEW S, NEW rows \in Seq(S), NEW I, DOMAIN rows \cap I = {}
    PROVE  Kept(rows, I) = <<>>
<1>1. Kept(rows, I) \in Seq(S)
  BY KeptType
<1>2. PICK h : KeptAt(h, Kept(rows, I), rows, I)
  BY KeptPlaces
<1>3. DOMAIN Kept(rows, I) = {}
  BY <1>2 DEF KeptAt
<1> QED
  BY <1>1, <1>3

LEMMA KeptOfOne ==
    ASSUME NEW S, NEW rows \in Seq(S), NEW I, NEW k, DOMAIN rows \cap I = {k}
    PROVE  Kept(rows, I) = <<rows[k]>> /\ rows[k] \in S
<1> DEFINE kept == Kept(rows, I)
<1>1. kept \in Seq(S)
  BY KeptType
<1>2. PICK h : KeptAt(h, kept, rows, I)
  BY KeptPlaces
<1>3. k \in DOMAIN rows /\ rows[k] \in S
  BY ElementOfSeq
<1> HIDE DEF kept
<1>4. PICK i \in DOMAIN kept : h[i] = k
  BY <1>2 DEF KeptAt
<1>5. DOMAIN kept = 1 .. Len(kept) /\ Len(kept) \in Nat
  BY <1>1
<1>6. ASSUME Len(kept) > 1
      PROVE  FALSE
  <2>1. 1 \in DOMAIN kept /\ 2 \in DOMAIN kept
    BY <1>5, <1>6
  <2>2. h[1] < h[2] /\ h[1] = k /\ h[2] = k
    BY <1>2, <2>1 DEF KeptAt
  <2>3. k \in Nat
    BY <1>3
  <2> QED
    BY <2>2, <2>3
<1>7. Len(kept) = 1
  BY <1>4, <1>5, <1>6
<1>8. kept[1] = rows[k]
  BY <1>2, <1>5, <1>7 DEF KeptAt
<1> DEFINE x == rows[k]
           single == <<x>>
<1>9. single \in Seq(S) /\ Len(single) = 1 /\ single[1] = x
  BY <1>3
<1> HIDE DEF single
<1>10. kept = single
  BY <1>1, <1>7, <1>8, <1>9, SeqEqual
<1> QED
  BY <1>3, <1>10 DEF kept, single
=============================================================================
