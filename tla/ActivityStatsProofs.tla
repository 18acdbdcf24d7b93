------------------------- MODULE ActivityStatsProofs -------------------------
(***************************************************************************)
(* Theorems about ActivityStats, for any hours and clock resolution, any   *)
(* threshold, any tasks and any number of events.                          *)
(*                                                                         *)
(* Idle minutes are sums over events and what they are compared with is a  *)
(* number of ticks, so the first part of the module is about sums: the sum *)
(* of the sizes of disjoint sets is the size of their union.               *)
(***************************************************************************)
EXTENDS ActivityStats, FiniteSetTheorems, TLAPS

-----------------------------------------------------------------------------
(* Sums.  The induction theorems of the library take a predicate; a set of *)
(* counterexamples, with a smallest member, does the same.                 *)

\* Among subsets of a finite set there is one such that no proper subset is there.
LEMMA SmallestSet ==
  ASSUME NEW S, IsFiniteSet(S), NEW Q \in SUBSET SUBSET S, Q # {}
  PROVE  \E T \in Q : \A U \in SUBSET T : U # T => U \notin Q
<1> DEFINE R == StrictSubsetOrdering(S)
<1>1. IsWellFoundedOn(R, SUBSET S)
  BY FS_StrictSubsetOrderingWellFounded, FS_FiniteSubsetsOfFinite
<1>2. PICK T \in Q : \A U \in Q : <<U, T>> \notin R
  <2> HIDE DEF R
  <2> QED BY <1>1, WFMin
<1>3. \A U \in Q : ~ (U \subseteq T /\ U # T)
  BY <1>2 DEF StrictSubsetOrdering
<1> QED BY <1>3

\* The sums over the subsets of S, as SumFunctionOnSet works them out.
Sums(f, S, g) ==
  g = [s \in SUBSET S |-> IF s = {} THEN 0
                          ELSE LET x == CHOOSE x \in s : TRUE IN f[x] + g[s \ {x}]]

TheSums(f, S) == CHOOSE g : Sums(f, S, g)

\* A sum is the last of these.
LEMMA SumFromSums ==
  ASSUME NEW f, NEW S
  PROVE  SumFunctionOnSet(f, S) = TheSums(f, S)[S]
BY DEF SumFunctionOnSet, FoldFunctionOnSet, MapThenFoldSet, Sums, TheSums

\* The equation has one solution: two agree where both are defined, ...
LEMMA SumsAgree ==
  ASSUME NEW f, NEW S, IsFiniteSet(S), NEW T \in SUBSET S, NEW g, NEW h,
         Sums(f, S, g), Sums(f, T, h)
  PROVE  \A s \in SUBSET T : g[s] = h[s]
<1> DEFINE Q == {s \in SUBSET T : g[s] # h[s]}
<1>1. SUFFICES ASSUME Q # {} PROVE FALSE
  OBVIOUS
<1>2. IsFiniteSet(T)
  BY FS_Subset
<1>3. PICK s \in Q : \A u \in SUBSET s : u # s => u \notin Q
  <2> HIDE DEF Q
  <2>1. Q \in SUBSET SUBSET T
    BY DEF Q
  <2> QED BY <1>1, <1>2, <2>1, SmallestSet
<1>4. s \in SUBSET T /\ s \in SUBSET S
  OBVIOUS
<1>5. s # {}
  BY <1>4 DEF Sums
<1> DEFINE x == CHOOSE x \in s : TRUE
<1>6. x \in s
  BY <1>5
<1>7. g[s] = f[x] + g[s \ {x}] /\ h[s] = f[x] + h[s \ {x}]
  BY <1>4, <1>5 DEF Sums
<1>8. s \ {x} \in SUBSET T /\ s \ {x} \notin Q
  BY <1>3, <1>4, <1>6
<1> QED BY <1>3, <1>7, <1>8

\* ... and there is one: where there is one for each smaller set, put together.
LEMMA SumsExist ==
  ASSUME NEW f, NEW S, IsFiniteSet(S)
  PROVE  Sums(f, S, TheSums(f, S))
<1> DEFINE Q == {T \in SUBSET S : ~ \E g : Sums(f, T, g)}
<1>1. SUFFICES ASSUME Q # {} PROVE FALSE
  BY DEF Q, TheSums
<1>2. PICK T \in Q : \A U \in SUBSET T : U # T => U \notin Q
  <2> HIDE DEF Q
  <2>1. Q \in SUBSET SUBSET S
    BY DEF Q
  <2> QED BY <1>1, <2>1, SmallestSet
<1> DEFINE p(s) == TheSums(f, s)
           v(s) == IF s = {} THEN 0
                   ELSE LET x == CHOOSE x \in s : TRUE IN f[x] + p(s \ {x})[s \ {x}]
           G == [s \in SUBSET T |-> v(s)]
<1>3. \A U \in SUBSET T : U # T => Sums(f, U, p(U))
  BY <1>2 DEF TheSums
<1>4. \A s \in SUBSET T : s # T => G[s] = p(s)[s]
  <2> TAKE s \in SUBSET T
  <2> HAVE s # T
  <2>1. G[s] = v(s)
    OBVIOUS
  <2>2. Sums(f, s, p(s))
    BY <1>3
  <2>3. CASE s = {}
    <3> HIDE DEF G, p
    <3> QED BY <2>1, <2>2, <2>3 DEF Sums
  <2>4. CASE s # {}
    <3> DEFINE x == CHOOSE x \in s : TRUE
    <3>1. x \in s /\ s \ {x} \in SUBSET s /\ s \ {x} \in SUBSET T /\ s \ {x} # T
      BY <2>4
    <3>2. Sums(f, s \ {x}, p(s \ {x}))
      BY <1>3, <3>1
    <3>3. IsFiniteSet(s)
      BY FS_Subset
    <3>4. p(s)[s \ {x}] = p(s \ {x})[s \ {x}]
      <4> HIDE DEF p, x
      <4> QED BY <2>2, <3>1, <3>2, <3>3, SumsAgree
    <3>5. p(s)[s] = f[x] + p(s)[s \ {x}]
      <4> HIDE DEF p
      <4> QED BY <2>2, <2>4 DEF Sums
    <3>6. G[s] = f[x] + p(s \ {x})[s \ {x}]
      BY <2>1, <2>4
    <3> QED BY <3>4, <3>5, <3>6
  <2> QED BY <2>3, <2>4
<1>5. Sums(f, T, G)
  <2>1. ASSUME NEW s \in SUBSET T
        PROVE  G[s] = IF s = {} THEN 0
                      ELSE LET x == CHOOSE x \in s : TRUE IN f[x] + G[s \ {x}]
    <3>1. G[s] = v(s)
      OBVIOUS
    <3>2. CASE s = {}
      BY <3>1, <3>2
    <3>3. CASE s # {}
      <4> DEFINE x == CHOOSE x \in s : TRUE
      <4>1. x \in s /\ s \ {x} \in SUBSET T /\ s \ {x} # T
        BY <3>3
      <4>2. G[s \ {x}] = p(s \ {x})[s \ {x}]
        <5> HIDE DEF G, p, x
        <5> QED BY <1>4, <4>1
      <4>3. v(s) = f[x] + p(s \ {x})[s \ {x}]
        BY <3>3
      <4> HIDE DEF G, p, v
      <4> QED BY <3>1, <3>3, <4>2, <4>3
    <3> QED BY <3>2, <3>3
  <2>2. G = [s \in SUBSET T |-> G[s]]
    OBVIOUS
  <2> HIDE DEF G
  <2> QED BY <2>1, <2>2 DEF Sums
<1> QED BY <1>5

\* The sum over a set is that over all but one of its members, and his share.
LEMMA SumUnfolds ==
  ASSUME NEW f, NEW S, IsFiniteSet(S)
  PROVE  /\ S = {} => SumFunctionOnSet(f, S) = 0
         /\ S # {} => \E x \in S :
              SumFunctionOnSet(f, S) = f[x] + SumFunctionOnSet(f, S \ {x})
<1>1. Sums(f, S, TheSums(f, S)) /\ SumFunctionOnSet(f, S) = TheSums(f, S)[S]
  BY SumsExist, SumFromSums
<1>2. CASE S = {}
  BY <1>1, <1>2 DEF Sums
<1>3. CASE S # {}
  <2> DEFINE x == CHOOSE x \in S : TRUE
           r == S \ {x}
  <2>1. x \in S /\ r \in SUBSET S
    BY <1>3
  <2>2. TheSums(f, S)[S] = f[x] + TheSums(f, S)[r]
    BY <1>1, <1>3 DEF Sums
  <2>3. IsFiniteSet(r)
    BY <2>1, FS_Subset
  <2>4. Sums(f, r, TheSums(f, r)) /\ SumFunctionOnSet(f, r) = TheSums(f, r)[r]
    BY <2>3, SumsExist, SumFromSums
  <2>5. TheSums(f, S)[r] = TheSums(f, r)[r]
    <3> HIDE DEF r
    <3> QED BY <1>1, <2>1, <2>4, SumsAgree
  <2> HIDE DEF x
  <2> QED BY <1>1, <1>3, <2>1, <2>2, <2>4, <2>5
<1> QED BY <1>2, <1>3

\* The union of a family of sets.
UnionOf(A, S) == UNION {A[x] : x \in S}

\* One part of several that are disjoint.
LEMMA PartAndRest ==
  ASSUME NEW A, NEW S, NEW x \in S,
         \A y \in S \ {x} : A[x] \cap A[y] = {},
         IsFiniteSet(A[x]), IsFiniteSet(UnionOf(A, S \ {x}))
  PROVE  /\ IsFiniteSet(UnionOf(A, S))
         /\ Cardinality(UnionOf(A, S)) = Cardinality(A[x]) + Cardinality(UnionOf(A, S \ {x}))
         /\ Cardinality(A[x]) \in Nat /\ Cardinality(UnionOf(A, S \ {x})) \in Nat
<1> DEFINE U == UnionOf(A, S \ {x})
<1>1. UnionOf(A, S) = A[x] \cup U
  BY DEF UnionOf
<1>2. A[x] \cap U = {}
  BY DEF UnionOf
<1> HIDE DEF U
<1>3. /\ IsFiniteSet(A[x] \cup U)
      /\ Cardinality(A[x] \cup U) = Cardinality(A[x]) + Cardinality(U) - Cardinality(A[x] \cap U)
  BY FS_Union DEF U
<1>4. Cardinality(A[x]) \in Nat /\ Cardinality(U) \in Nat /\ Cardinality(A[x] \cap U) = 0
  BY <1>2, FS_CardinalityType, FS_EmptySet DEF U
<1> QED BY <1>1, <1>3, <1>4 DEF U

\* The sum of the sizes of disjoint sets is the size of their union.
LEMMA SumOfParts ==
  ASSUME NEW S, IsFiniteSet(S), NEW f, NEW A,
         \A x \in S : IsFiniteSet(A[x]) /\ f[x] = Cardinality(A[x]),
         \A x, y \in S : x # y => A[x] \cap A[y] = {}
  PROVE  /\ IsFiniteSet(UnionOf(A, S))
         /\ SumFunctionOnSet(f, S) = Cardinality(UnionOf(A, S))
<1> DEFINE Good(T) == /\ IsFiniteSet(UnionOf(A, T))
                      /\ SumFunctionOnSet(f, T) = Cardinality(UnionOf(A, T))
           Q == {T \in SUBSET S : ~ Good(T)}
<1>1. SUFFICES ASSUME Q # {} PROVE FALSE
  OBVIOUS
<1>2. PICK T \in Q : \A U \in SUBSET T : U # T => U \notin Q
  <2> HIDE DEF Q
  <2>1. Q \in SUBSET SUBSET S
    BY DEF Q
  <2> QED BY <1>1, <2>1, SmallestSet
<1>3. T \in SUBSET S /\ IsFiniteSet(T) /\ ~ Good(T)
  BY FS_Subset
<1>4. T # {}
  <2> SUFFICES ASSUME T = {} PROVE Good(T)
    BY <1>3
  <2>1. UnionOf(A, T) = {}
    BY DEF UnionOf
  <2> QED BY <1>3, <2>1, SumUnfolds, FS_EmptySet
<1>5. PICK x \in T : SumFunctionOnSet(f, T) = f[x] + SumFunctionOnSet(f, T \ {x})
  BY <1>3, <1>4, SumUnfolds
<1>6. Good(T \ {x})
  <2> HIDE DEF Good
  <2> QED BY <1>2, <1>3, <1>5
<1>7. /\ IsFiniteSet(UnionOf(A, T))
      /\ Cardinality(UnionOf(A, T)) = Cardinality(A[x]) + Cardinality(UnionOf(A, T \ {x}))
  BY <1>3, <1>5, <1>6, PartAndRest
<1> QED BY <1>3, <1>5, <1>6, <1>7

\* And if m times each number exceeds the size of its set by half of m at most, m
\* times the sum exceeds the size of the union by that much for each.
LEMMA SumOfRoundedParts ==
  ASSUME NEW S, IsFiniteSet(S), NEW f, NEW A, NEW m \in Nat,
         \A x \in S : /\ IsFiniteSet(A[x]) /\ f[x] \in Int
                      /\ 2 * (m * f[x] - Cardinality(A[x])) <= m,
         \A x, y \in S : x # y => A[x] \cap A[y] = {}
  PROVE  /\ IsFiniteSet(UnionOf(A, S)) /\ SumFunctionOnSet(f, S) \in Int
         /\ 2 * (m * SumFunctionOnSet(f, S) - Cardinality(UnionOf(A, S))) <= m * Cardinality(S)
<1> DEFINE Good(T) ==
             /\ IsFiniteSet(UnionOf(A, T)) /\ SumFunctionOnSet(f, T) \in Int
             /\ 2 * (m * SumFunctionOnSet(f, T) - Cardinality(UnionOf(A, T))) <= m * Cardinality(T)
           Q == {T \in SUBSET S : ~ Good(T)}
<1>1. SUFFICES ASSUME Q # {} PROVE FALSE
  OBVIOUS
<1>2. PICK T \in Q : \A U \in SUBSET T : U # T => U \notin Q
  <2> HIDE DEF Q
  <2>1. Q \in SUBSET SUBSET S
    BY DEF Q
  <2> QED BY <1>1, <2>1, SmallestSet
<1>3. T \in SUBSET S /\ IsFiniteSet(T) /\ ~ Good(T)
  BY FS_Subset
<1>4. T # {}
  <2> SUFFICES ASSUME T = {} PROVE Good(T)
    BY <1>3
  <2>1. UnionOf(A, T) = {}
    BY DEF UnionOf
  <2>2. /\ IsFiniteSet(UnionOf(A, T)) /\ Cardinality(UnionOf(A, T)) = 0
        /\ Cardinality(T) = 0 /\ SumFunctionOnSet(f, T) = 0
    BY <1>3, <2>1, SumUnfolds, FS_EmptySet
  <2>3. m * 0 = 0
    OBVIOUS
  <2> QED BY <2>1, <2>2, <2>3
<1>5. PICK x \in T : SumFunctionOnSet(f, T) = f[x] + SumFunctionOnSet(f, T \ {x})
  BY <1>3, <1>4, SumUnfolds
<1>6. Good(T \ {x})
  <2> HIDE DEF Good
  <2> QED BY <1>2, <1>3, <1>5
<1> DEFINE s == SumFunctionOnSet(f, T \ {x})
           c == Cardinality(A[x])
           u == Cardinality(UnionOf(A, T \ {x}))
           n == Cardinality(T \ {x})
<1>7. /\ IsFiniteSet(UnionOf(A, T))
      /\ Cardinality(UnionOf(A, T)) = c + u /\ c \in Nat /\ u \in Nat
  BY <1>3, <1>5, <1>6, PartAndRest
<1>8. Cardinality(T) = n + 1 /\ n \in Nat
  <2>1. /\ IsFiniteSet(T \ {x}) /\ Cardinality(T \ {x}) = Cardinality(T) - 1
        /\ Cardinality(T) \in Nat /\ Cardinality(T \ {x}) \in Nat
    BY <1>3, <1>5, FS_RemoveElement, FS_CardinalityType
  <2> QED BY <2>1
<1>9. /\ s \in Int /\ 2 * (m * s - u) <= m * n
      /\ f[x] \in Int /\ 2 * (m * f[x] - c) <= m
  BY <1>3, <1>5, <1>6
<1> HIDE DEF s, c, u, n
<1>10. m * (f[x] + s) = m * f[x] + m * s /\ m * (n + 1) = m * n + m
       /\ m * f[x] \in Int /\ m * s \in Int /\ m * n \in Int
  BY <1>8, <1>9
<1>11. 2 * (m * (f[x] + s) - (c + u)) <= m * (n + 1)
  BY <1>7, <1>8, <1>9, <1>10
<1> QED BY <1>3, <1>5, <1>7, <1>8, <1>9, <1>11 DEF s

-----------------------------------------------------------------------------
(* Numbers: the largest and the smallest, minutes, hours.                  *)

\* A finite set of numbers has a largest and a smallest member.
LEMMA Extremes ==
  ASSUME NEW S \in SUBSET Int, IsFiniteSet(S), S # {}
  PROVE  /\ Max(S) \in S /\ \A t \in S : t <= Max(S)
         /\ Min(S) \in S /\ \A t \in S : Min(S) <= t
<1> DEFINE Good(T) == /\ \E t \in T : \A s \in T : t >= s
                      /\ \E t \in T : \A s \in T : t =< s
           Q == {T \in SUBSET S : T # {} /\ ~ Good(T)}
<1>1. Q = {}
  <2> SUFFICES ASSUME Q # {} PROVE FALSE
    OBVIOUS
  <2>1. PICK T \in Q : \A U \in SUBSET T : U # T => U \notin Q
    <3> HIDE DEF Q
    <3>1. Q \in SUBSET SUBSET S
      BY DEF Q
    <3> QED BY <3>1, SmallestSet
  <2>2. T \in SUBSET S /\ T # {} /\ ~ Good(T)
    OBVIOUS
  <2>3. PICK x \in T : TRUE
    BY <2>2
  <2>4. T \ {x} # {} => Good(T \ {x})
    <3> HIDE DEF Good
    <3> QED BY <2>1, <2>2, <2>3
  <2>5. CASE T \ {x} = {}
    <3>1. T = {x} /\ x \in Int
      BY <2>2, <2>3, <2>5
    <3> QED BY <2>2, <3>1
  <2>6. CASE T \ {x} # {}
    <3>1. PICK a \in T \ {x}, b \in T \ {x} : \A s \in T \ {x} : a >= s /\ b =< s
      BY <2>4, <2>6
    <3>2. x \in Int /\ a \in Int /\ b \in Int /\ \A s \in T : s \in Int
      BY <2>2, <2>3, <3>1
    <3>3. \E t \in T : \A s \in T : t >= s
      <4>1. CASE x >= a
        <5>1. \A s \in T : x >= s
          BY <3>1, <3>2, <4>1
        <5> QED BY <2>3, <5>1
      <4>2. CASE a >= x
        <5>1. \A s \in T : a >= s
          BY <3>1, <3>2, <4>2
        <5> QED BY <3>1, <5>1
      <4> QED BY <3>2, <4>1, <4>2
    <3>4. \E t \in T : \A s \in T : t =< s
      <4>1. CASE x =< b
        <5>1. \A s \in T : x =< s
          BY <3>1, <3>2, <4>1
        <5> QED BY <2>3, <5>1
      <4>2. CASE b =< x
        <5>1. \A s \in T : b =< s
          BY <3>1, <3>2, <4>2
        <5> QED BY <3>1, <5>1
      <4> QED BY <3>2, <4>1, <4>2
    <3> QED BY <2>2, <3>3, <3>4
  <2> QED BY <2>5, <2>6
<1>2. (\E t \in S : \A s \in S : t >= s) /\ (\E t \in S : \A s \in S : t =< s)
  BY <1>1
<1>3. Max(S) \in S /\ \A s \in S : Max(S) >= s
  BY <1>2 DEF Max
<1>4. Min(S) \in S /\ \A s \in S : Min(S) =< s
  BY <1>2 DEF Min
<1> QED BY <1>3, <1>4

\* Rounding to minutes is off by at most half a minute, and keeps the order.
LEMMA RoundBounds ==
  ASSUME NEW d \in Nat
  PROVE  /\ RoundMinutes(d) \in Nat
         /\ 2 * (TicksPerMinute * RoundMinutes(d)) <= 2 * d + TicksPerMinute
         /\ 2 * d + TicksPerMinute < 2 * (TicksPerMinute * RoundMinutes(d)) + 2 * TicksPerMinute
         /\ TicksPerMinute * RoundMinutes(d) \in Nat
<1> DEFINE n == 2 * d + TicksPerMinute
           m == 2 * TicksPerMinute
           q == n \div m
<1>1. TicksPerMinute \in Nat /\ n \in Nat /\ m \in Nat /\ m > 0
  BY TicksAssumption
<1>2. q \in Nat /\ m * q <= n /\ n < m * q + m
  <2> HIDE DEF n, m
  <2> QED BY <1>1
<1>3. RoundMinutes(d) = q
  BY DEF RoundMinutes
<1> HIDE DEF q
<1>4. m * q = 2 * (TicksPerMinute * q) /\ TicksPerMinute * q \in Nat
  BY <1>1, <1>2
<1> QED BY <1>1, <1>2, <1>3, <1>4

LEMMA RoundOrder ==
  ASSUME NEW d \in Nat, NEW e \in Nat, d <= e
  PROVE  RoundMinutes(d) <= RoundMinutes(e)
<1> DEFINE p == RoundMinutes(d)
           q == RoundMinutes(e)
<1>1. /\ p \in Nat /\ 2 * (TicksPerMinute * p) <= 2 * d + TicksPerMinute
      /\ q \in Nat /\ 2 * e + TicksPerMinute < 2 * (TicksPerMinute * q) + 2 * TicksPerMinute
      /\ TicksPerMinute * p \in Nat /\ TicksPerMinute * q \in Nat
      /\ TicksPerMinute \in Nat /\ TicksPerMinute > 0
  BY RoundBounds, TicksAssumption
<1> HIDE DEF p, q
<1>2. TicksPerMinute * p < TicksPerMinute * (q + 1)
  <2>1. TicksPerMinute * (q + 1) = TicksPerMinute * q + TicksPerMinute
    BY <1>1
  <2> QED BY <1>1, <2>1
<1>3. SUFFICES ASSUME p >= q + 1 PROVE FALSE
  BY <1>1 DEF p, q
<1>4. \E k \in Nat : p = (q + 1) + k
  <2>1. p - (q + 1) \in Nat /\ p = (q + 1) + (p - (q + 1))
    BY <1>1, <1>3
  <2> QED BY <2>1
<1>5. PICK k \in Nat : p = (q + 1) + k
  BY <1>4
<1>6. TicksPerMinute * p = TicksPerMinute * (q + 1) + TicksPerMinute * k /\ TicksPerMinute * k \in Nat
      /\ TicksPerMinute * (q + 1) \in Nat
  BY <1>1, <1>5
<1> QED BY <1>1, <1>2, <1>6

\* An hour is the ticks from its start to its end.
LEMMA HourBounds ==
  ASSUME NEW t \in Nat, NEW h \in Nat
  PROVE  /\ HourOf(t) = h <=> StartOf(h) <= t /\ t < EndOf(h)
         /\ StartOf(h) \in Nat /\ EndOf(h) = StartOf(h) + HourTicks /\ HourOf(t) \in Nat
<1> DEFINE q == t \div HourTicks
<1>1. HourTicks \in Nat /\ HourTicks > 0
  BY ClockAssumption
<1>2. q \in Nat /\ HourTicks * q <= t /\ t < HourTicks * q + HourTicks
  BY <1>1
<1> HIDE DEF q
<1>3. /\ h * HourTicks \in Nat /\ (h + 1) * HourTicks = h * HourTicks + HourTicks
      /\ HourTicks * q \in Nat /\ HourTicks * q = q * HourTicks
      /\ \A k \in Nat : k * HourTicks \in Nat
  BY <1>1, <1>2
<1>4. \A i, j \in Nat : i < j => i * HourTicks + HourTicks <= j * HourTicks
  <2> SUFFICES ASSUME NEW i \in Nat, NEW j \in Nat, i < j
               PROVE  i * HourTicks + HourTicks <= j * HourTicks
    OBVIOUS
  <2>1. PICK k \in Nat : j = i + 1 + k
    <3>1. j - i - 1 \in Nat /\ j = i + 1 + (j - i - 1)
      OBVIOUS
    <3> QED BY <3>1
  <2>2. (i + 1 + k) * HourTicks = i * HourTicks + HourTicks + k * HourTicks
    BY <1>1, <2>1
  <2>3. i * HourTicks \in Nat /\ k * HourTicks \in Nat
    BY <1>1
  <2> QED BY <1>1, <2>1, <2>2, <2>3
<1>5. h * HourTicks <= t /\ t < h * HourTicks + HourTicks => q = h
  <2>1. q < h => q * HourTicks + HourTicks <= h * HourTicks
    BY <1>2, <1>4
  <2>2. h < q => h * HourTicks + HourTicks <= q * HourTicks
    BY <1>2, <1>4
  <2> QED BY <1>1, <1>2, <1>3, <2>1, <2>2
<1>6. q = h => h * HourTicks <= t /\ t < h * HourTicks + HourTicks
  BY <1>2, <1>3
<1> QED BY <1>2, <1>3, <1>5, <1>6 DEF HourOf, StartOf, EndOf, q

-----------------------------------------------------------------------------
(* Idle time: after each event the ticks from the threshold to the next    *)
(* event, and these are the idle ticks.                                    *)

LEMMA ThresholdType == EffectiveIdleThreshold \in Nat
BY ThresholdAssumption DEF EffectiveIdleThreshold

\* Times of events, up to an end.
TimesUpTo(T, end) ==
  /\ T \in SUBSET Nat /\ IsFiniteSet(T)
  /\ end \in Nat /\ \A t \in T : t <= end

\* NextAfter is the next time in T, or the end if there is none.
LEMMA NextIsNext ==
  ASSUME NEW T, NEW end, TimesUpTo(T, end), NEW t \in T
  PROVE  /\ NextAfter(t, T, end) \in Nat
         /\ t <= NextAfter(t, T, end) /\ NextAfter(t, T, end) <= end
         /\ \A s \in T : t < s => NextAfter(t, T, end) <= s
         /\ \/ NextAfter(t, T, end) = end
            \/ NextAfter(t, T, end) \in T /\ t < NextAfter(t, T, end)
<1> DEFINE after == {s \in T : s > t}
<1>1. T \in SUBSET Nat /\ end \in Nat /\ t \in Nat /\ t <= end /\ \A s \in T : s <= end
  BY DEF TimesUpTo
<1>2. CASE after = {}
  <2>1. NextAfter(t, T, end) = end
    BY <1>2 DEF NextAfter
  <2>2. \A s \in T : ~ (t < s)
    BY <1>1, <1>2
  <2> QED BY <1>1, <2>1, <2>2
<1>3. CASE after # {}
  <2>1. NextAfter(t, T, end) = Min(after)
    BY <1>3 DEF NextAfter
  <2>2. IsFiniteSet(after) /\ after \in SUBSET Int
    <3>1. IsFiniteSet(T) /\ after \in SUBSET T
      BY DEF TimesUpTo
    <3> HIDE DEF after
    <3>2. \A s \in after : s \in Int
      BY <1>1, <3>1
    <3>3. IsFiniteSet(after)
      BY <3>1, FS_Subset
    <3> QED BY <3>2, <3>3
  <2>3. Min(after) \in after /\ \A s \in after : Min(after) <= s
    <3> HIDE DEF after
    <3> QED BY <1>3, <2>2, Extremes
  <2> DEFINE n == Min(after)
  <2>4. n \in T /\ t < n /\ n \in Nat /\ n <= end
    BY <1>1, <2>3
  <2>5. \A s \in T : t < s => n <= s
    <3> TAKE s \in T
    <3> HAVE t < s
    <3>1. s \in after
      BY <1>1
    <3> HIDE DEF after
    <3> QED BY <2>3, <3>1
  <2> HIDE DEF n
  <2> QED BY <1>1, <2>1, <2>4, <2>5 DEF n
<1> QED BY <1>2, <1>3

\* What follows an event at t of es, between lo and hi.
Part(es, end, lo, hi) ==
  [t \in Times(es) |-> {s \in lo .. hi - 1 : /\ t + EffectiveIdleThreshold <= s
                                             /\ s < NextAfter(t, Times(es), end)}]

IdleTicks(es, end, lo, hi) == {s \in lo .. hi - 1 : s < end /\ IdleTick(es, s)}

\* A tick is idle when it lies in a part, and it lies in one part only.
LEMMA PartsAreIdle ==
  ASSUME NEW es, NEW end, TimesUpTo(Times(es), end), NEW lo \in Nat, NEW hi \in Nat
  PROVE  LET A == Part(es, end, lo, hi)
         IN  /\ \A t \in Times(es) : IsFiniteSet(A[t])
             /\ \A t, u \in Times(es) : t # u => A[t] \cap A[u] = {}
             /\ UnionOf(A, Times(es)) = IdleTicks(es, end, lo, hi)
<1> DEFINE T == Times(es)
           A == Part(es, end, lo, hi)
           n(t) == NextAfter(t, T, end)
           thr == EffectiveIdleThreshold
<1>1. T \in SUBSET Nat /\ IsFiniteSet(T) /\ end \in Nat /\ thr \in Nat
  BY ThresholdType DEF TimesUpTo
<1>2. \A t \in T : A[t] = {s \in lo .. hi - 1 : t + thr <= s /\ s < n(t)}
  BY DEF Part
<1>3. \A t \in T : /\ n(t) \in Nat /\ t <= n(t) /\ n(t) <= end
                   /\ \A s \in T : t < s => n(t) <= s
                   /\ (n(t) = end \/ (n(t) \in T /\ t < n(t)))
  BY NextIsNext
<1>4. \A t \in T : IsFiniteSet(A[t])
  <2> TAKE t \in T
  <2>1. A[t] \in SUBSET (lo .. hi - 1)
    BY <1>2
  <2>2. IsFiniteSet(lo .. hi - 1)
    BY FS_Interval
  <2> HIDE DEF A
  <2> QED BY <2>1, <2>2, FS_Subset
<1> HIDE DEF A, n, thr
<1>5. \A t, u \in T : t < u => A[t] \cap A[u] = {}
  <2> SUFFICES ASSUME NEW t \in T, NEW u \in T, t < u, NEW s \in A[t], s \in A[u] PROVE FALSE
    OBVIOUS
  <2>1. s \in Int /\ s < n(t) /\ u + thr <= s
    BY <1>2
  <2>2. n(t) \in Nat /\ n(t) <= u /\ u \in Nat /\ t \in Nat
    BY <1>1, <1>3
  <2> QED BY <1>1, <2>1, <2>2
<1>6. \A t, u \in T : t # u => A[t] \cap A[u] = {}
  <2> SUFFICES ASSUME NEW t \in T, NEW u \in T, t # u PROVE A[t] \cap A[u] = {}
    OBVIOUS
  <2>1. t < u \/ u < t
    BY <1>1
  <2> QED BY <1>5, <2>1
<1>7. ASSUME NEW t \in T, NEW s \in A[t]
      PROVE  s \in IdleTicks(es, end, lo, hi)
  <2>1. s \in lo .. hi - 1 /\ s \in Int /\ t + thr <= s /\ s < n(t) /\ t \in Nat
    BY <1>1, <1>2, <1>7
  <2> DEFINE before == {r \in T : r <= s}
  <2>2. t \in before /\ \A r \in before : r <= t
    <3>1. t <= s
      BY <1>1, <2>1
    <3>2. ASSUME NEW r \in T, r <= s, t < r PROVE FALSE
      <4>1. n(t) <= r /\ n(t) \in Nat /\ r \in Nat
        BY <1>1, <1>3, <3>2
      <4> QED BY <2>1, <3>2, <4>1
    <3>3. \A r \in before : r <= t
      BY <1>1, <2>1, <3>2
    <3> QED BY <3>1, <3>3
  <2>3. IsFiniteSet(before) /\ before \in SUBSET Int /\ before # {}
    BY <1>1, <2>2, FS_Subset
  <2>4. Max(before) \in before /\ \A r \in before : r <= Max(before)
    <3> HIDE DEF before
    <3> QED BY <2>3, Extremes
  <2>5. Max(before) = t
    <3>1. Max(before) <= t /\ t <= Max(before) /\ Max(before) \in Int
      <4> HIDE DEF before
      <4> QED BY <2>2, <2>3, <2>4
    <3> HIDE DEF before
    <3> QED BY <2>1, <3>1
  <2>6. s - Max(before) >= thr
    <3> HIDE DEF before
    <3> QED BY <1>1, <2>1, <2>5
  <2>7. s < end
    BY <1>1, <1>3, <2>1
  <2> QED BY <2>1, <2>3, <2>6, <2>7 DEF IdleTicks, IdleTick, thr
<1>8. ASSUME NEW s \in IdleTicks(es, end, lo, hi)
      PROVE  \E t \in T : s \in A[t]
  <2> DEFINE before == {r \in T : r <= s}
  <2>1. s \in lo .. hi - 1 /\ s \in Int /\ s < end /\ before # {} /\ s - Max(before) >= thr
    BY <1>8 DEF IdleTicks, IdleTick, thr
  <2>2. IsFiniteSet(before) /\ before \in SUBSET Int
    BY <1>1, FS_Subset
  <2>3. Max(before) \in before /\ \A r \in before : r <= Max(before)
    <3> HIDE DEF before
    <3> QED BY <2>1, <2>2, Extremes
  <2> DEFINE t == Max(before)
  <2>4. t \in T /\ t <= s /\ t \in Nat
    BY <1>1, <2>3
  <2>5. s < n(t)
    <3>1. CASE n(t) = end
      BY <2>1, <3>1
    <3>2. CASE n(t) \in T /\ t < n(t)
      <4>1. n(t) \notin before
        <5> HIDE DEF before
        <5>1. n(t) \in Nat
          BY <1>1, <3>2
        <5> QED BY <2>3, <2>4, <3>2, <5>1
      <4> HIDE DEF t
      <4> QED BY <1>1, <2>1, <3>2, <4>1
    <3> HIDE DEF t
    <3> QED BY <1>3, <2>4, <3>1, <3>2
  <2>6. t + thr <= s
    <3> HIDE DEF before
    <3> QED BY <1>1, <2>1, <2>4
  <2> HIDE DEF t
  <2>7. s \in A[t]
    BY <1>2, <2>1, <2>4, <2>5, <2>6
  <2> QED BY <2>4, <2>7
<1>9. UnionOf(A, T) = IdleTicks(es, end, lo, hi)
  BY <1>7, <1>8 DEF UnionOf
<1> QED BY <1>4, <1>6, <1>9 DEF A

\* So the sum of the lengths of the parts is the number of idle ticks.
LEMMA IdleSum ==
  ASSUME NEW es, NEW end, TimesUpTo(Times(es), end), NEW lo \in Nat, NEW hi \in Nat, NEW f,
         \A t \in Times(es) : f[t] = Cardinality(Part(es, end, lo, hi)[t])
  PROVE  /\ IsFiniteSet(IdleTicks(es, end, lo, hi))
         /\ SumFunctionOnSet(f, Times(es)) = Cardinality(IdleTicks(es, end, lo, hi))
<1> DEFINE A == Part(es, end, lo, hi)
<1>1. /\ \A t \in Times(es) : IsFiniteSet(A[t]) /\ f[t] = Cardinality(A[t])
      /\ \A t, u \in Times(es) : t # u => A[t] \cap A[u] = {}
      /\ UnionOf(A, Times(es)) = IdleTicks(es, end, lo, hi)
      /\ IsFiniteSet(Times(es))
  BY PartsAreIdle DEF TimesUpTo
<1> HIDE DEF A
<1> QED BY <1>1, SumOfParts

-----------------------------------------------------------------------------
(* The inductive invariant.                                                *)

EventsOK ==
  /\ IsFiniteSet(held) /\ IsFiniteSet(stored)
  /\ \A e \in held \cup stored : e.at <= now

\* What the job of an hour has read, and what of it is not written yet.
JobsOK ==
  /\ \A h \in aggregated : EndOf(h) <= now
  /\ \A h \in Hour : job[h].left # {} => h \in aggregated
  /\ \A h \in Hour : IsFiniteSet(job[h].events)
  /\ \A h \in Hour : \A e \in job[h].events : StartOf(h) <= e.at /\ e.at < EndOf(h)
  /\ \A h \in Hour \ late : job[h].left # {} =>
       /\ job[h].events = EventsOf(h)
       /\ job[h].left \subseteq {e.task : e \in EventsOf(h)}

Group(h, task) == {e \in EventsOf(h) : e.task = task}

\* A row is within its hour, and is about the events of its task unless some of
\* the hour's were stored later.
RowsOK ==
  \A k \in DOMAIN rows :
    /\ k[1] \in aggregated
    /\ rows[k].idle <= RoundMinutes(HourTicks)
    /\ k[1] \notin late =>
         /\ Group(k[1], k[2]) # {}
         /\ rows[k].count = Cardinality(Group(k[1], k[2]))
         /\ rows[k].idle = IdleOfGroup(Group(k[1], k[2]), EndOf(k[1]))

\* Where nothing failed or came late, every task has its row, or will.
NoneMissing ==
  \A h \in aggregated \ (late \cup broken) : \A e \in EventsOf(h) :
    <<h, e.task>> \in DOMAIN rows \/ e.task \in job[h].left

IInv == TypeOK /\ EventsOK /\ JobsOK /\ RowsOK /\ NoneMissing

-----------------------------------------------------------------------------
(* What the code adds up.                                                  *)

\* Math.max and Math.min of two.
LEMMA LargerAndSmaller ==
  ASSUME NEW a \in Int, NEW b \in Int
  PROVE  /\ Max({a, b}) \in {a, b} /\ a <= Max({a, b}) /\ b <= Max({a, b})
         /\ Min({a, b}) \in {a, b} /\ Min({a, b}) <= a /\ Min({a, b}) <= b
<1> DEFINE S == {a, b}
<1>1. IsFiniteSet({a}) /\ S = {a} \cup {b} /\ S # {}
  BY FS_Singleton
<1>2. IsFiniteSet(S)
  BY <1>1, FS_AddElement
<1>3. S \in SUBSET Int /\ a \in S /\ b \in S
  OBVIOUS
<1>4. /\ Max(S) \in S /\ \A t \in S : t <= Max(S)
      /\ Min(S) \in S /\ \A t \in S : Min(S) <= t
  <2> HIDE DEF S
  <2> QED BY <1>1, <1>2, <1>3, Extremes
<1> QED BY <1>3, <1>4

\* The length of an interval of ticks.
LEMMA TicksBetween ==
  ASSUME NEW a \in Int, NEW b \in Int
  PROVE  /\ IsFiniteSet(a .. b - 1)
         /\ Cardinality(a .. b - 1) = IF a < b THEN b - a ELSE 0
<1>1. /\ IsFiniteSet(a .. b - 1)
      /\ Cardinality(a .. b - 1) = IF a > b - 1 THEN 0 ELSE b - 1 - a + 1
  BY FS_Interval
<1>2. (a > b - 1) <=> ~ (a < b)
  OBVIOUS
<1>3. b - 1 - a + 1 = b - a
  OBVIOUS
<1> QED BY <1>1, <1>2, <1>3

\* Events that happened up to an end.
LEMMA TimesOfEvents ==
  ASSUME NEW es, NEW end \in Nat, \A e \in es : e.at \in Nat /\ e.at <= end
  PROVE  TimesUpTo(Times(es), end)
<1>1. Times(es) \in SUBSET (0 .. end)
  BY DEF Times
<1>2. IsFiniteSet(0 .. end)
  BY FS_Interval
<1>3. IsFiniteSet(Times(es))
  BY <1>1, <1>2, FS_Subset
<1> QED BY <1>1, <1>3 DEF TimesUpTo

\* An hourly row: the idle ticks of the hour, by the events of one task.
LEMMA IdleOfGroupIs ==
  ASSUME NEW h \in Nat, NEW es,
         \A e \in es : e.at \in Nat /\ StartOf(h) <= e.at /\ e.at < EndOf(h)
  PROVE  LET ticks == IdleTicks(es, EndOf(h), StartOf(h), EndOf(h))
         IN  /\ IsFiniteSet(ticks)
             /\ IdleOfGroup(es, EndOf(h)) =
                  IF Cardinality(es) > 1 THEN RoundMinutes(Cardinality(ticks)) ELSE 0
<1> DEFINE T == Times(es)
           lo == StartOf(h)
           hi == EndOf(h)
           f == [t \in T |-> Excess(NextAfter(t, T, hi) - t)]
           ticks == IdleTicks(es, hi, lo, hi)
<1>1. lo \in Nat /\ hi \in Nat /\ hi = lo + HourTicks
  BY HourBounds, ClockAssumption
<1>2. TimesUpTo(T, hi)
  <2>1. \A e \in es : e.at \in Nat /\ e.at <= hi
    BY <1>1
  <2> QED BY <1>1, <2>1, TimesOfEvents
<1>3. ASSUME NEW t \in T
      PROVE  f[t] = Cardinality(Part(es, hi, lo, hi)[t])
  <2> DEFINE n == NextAfter(t, T, hi)
             a == t + EffectiveIdleThreshold
  <2>1. n \in Nat /\ t <= n /\ n <= hi
    BY <1>2, <1>3, NextIsNext
  <2>2. t \in Nat /\ lo <= t
    BY <1>3 DEF Times
  <2>3. a \in Nat /\ t <= a
    BY <2>2, ThresholdType
  <2>4. Part(es, hi, lo, hi)[t] = {s \in lo .. hi - 1 : a <= s /\ s < n}
    BY <1>3 DEF Part
  <2> HIDE DEF lo, hi, n
  <2>5. {s \in lo .. hi - 1 : a <= s /\ s < n} = a .. n - 1
    <3> HIDE DEF a
    <3> QED BY <1>1, <2>1, <2>2, <2>3
  <2>6. Cardinality(a .. n - 1) = IF a < n THEN n - a ELSE 0
    <3> HIDE DEF a
    <3> QED BY <2>1, <2>3, TicksBetween
  <2>7. f[t] = IF n - t >= EffectiveIdleThreshold THEN n - t - EffectiveIdleThreshold ELSE 0
    BY <1>3 DEF Excess, n, hi
  <2>8. f[t] = IF a < n THEN n - a ELSE 0
    BY <2>1, <2>2, <2>7, ThresholdType
  <2> QED BY <2>4, <2>5, <2>6, <2>8
<1>4. IsFiniteSet(ticks) /\ SumFunctionOnSet(f, T) = Cardinality(ticks)
  <2> HIDE DEF lo, hi, f
  <2> QED BY <1>1, <1>2, <1>3, IdleSum
<1>5. SumFunction(f) = SumFunctionOnSet(f, T)
  BY DEF SumFunction
<1>6. IdleOfGroup(es, hi) = IF Cardinality(es) > 1 THEN RoundMinutes(SumFunction(f)) ELSE 0
  BY DEF IdleOfGroup
<1> HIDE DEF f, ticks
<1> QED BY <1>4, <1>5, <1>6 DEF ticks

\* It is no more than an hour.
LEMMA RowWithinHour ==
  ASSUME NEW h \in Nat, NEW es,
         \A e \in es : e.at \in Nat /\ StartOf(h) <= e.at /\ e.at < EndOf(h)
  PROVE  /\ IdleOfGroup(es, EndOf(h)) \in Nat
         /\ IdleOfGroup(es, EndOf(h)) <= RoundMinutes(HourTicks)
<1> DEFINE ticks == IdleTicks(es, EndOf(h), StartOf(h), EndOf(h))
           hour == StartOf(h) .. EndOf(h) - 1
<1>1. StartOf(h) \in Nat /\ EndOf(h) = StartOf(h) + HourTicks /\ HourTicks \in Nat /\ HourTicks > 0
  BY HourBounds, ClockAssumption
<1>2. IsFiniteSet(hour) /\ Cardinality(hour) = HourTicks
  <2> DEFINE lo == StartOf(h)
             hi == EndOf(h)
  <2> SUFFICES IsFiniteSet(lo .. hi - 1) /\ Cardinality(lo .. hi - 1) = HourTicks
    OBVIOUS
  <2>1. lo \in Int /\ hi \in Int /\ lo < hi /\ hi - lo = HourTicks
    BY <1>1
  <2> HIDE DEF lo, hi
  <2> QED BY <2>1, TicksBetween
<1>3. ticks \in SUBSET hour
  BY DEF IdleTicks
<1>4. Cardinality(ticks) \in Nat /\ Cardinality(ticks) <= HourTicks
  <2> HIDE DEF ticks, hour
  <2> QED BY <1>2, <1>3, FS_Subset, FS_CardinalityType
<1>5. IdleOfGroup(es, EndOf(h)) = IF Cardinality(es) > 1 THEN RoundMinutes(Cardinality(ticks)) ELSE 0
  BY IdleOfGroupIs
<1> HIDE DEF ticks
<1>6. /\ RoundMinutes(Cardinality(ticks)) \in Nat /\ RoundMinutes(HourTicks) \in Nat
      /\ RoundMinutes(Cardinality(ticks)) <= RoundMinutes(HourTicks)
  BY <1>1, <1>4, RoundBounds, RoundOrder
<1> QED BY <1>5, <1>6

\* The dashboard: the idle ticks of the hour up to now, by all events it sees.
LEMMA LiveIdleIs ==
  ASSUME NEW h \in Nat, NEW es, now \in Nat, \A e \in es : e.at \in Nat /\ e.at <= now
  PROVE  LET ticks == IdleTicks(es, now, StartOf(h), EndOf(h))
         IN  IsFiniteSet(ticks) /\ LiveIdle(es, h) = RoundMinutes(Cardinality(ticks))
<1> DEFINE T == Times(es)
           lo == StartOf(h)
           hi == EndOf(h)
           f == [t \in T |-> IdleInHour(t, NextAfter(t, T, now), h)]
           ticks == IdleTicks(es, now, lo, hi)
<1>1. lo \in Nat /\ hi \in Nat
  BY HourBounds, ClockAssumption
<1>2. TimesUpTo(T, now)
  BY TimesOfEvents
<1>3. ASSUME NEW t \in T
      PROVE  f[t] = Cardinality(Part(es, now, lo, hi)[t])
  <2> DEFINE n == NextAfter(t, T, now)
             a == t + EffectiveIdleThreshold
             from == Max({a, lo})
             to == Min({n, hi})
  <2>1. n \in Nat
    BY <1>2, <1>3, NextIsNext
  <2>2. t \in Nat /\ a \in Nat
    BY <1>3, ThresholdType DEF Times
  <2>3. f[t] = IF from < to THEN to - from ELSE 0
    BY <1>3 DEF IdleInHour
  <2>4. Part(es, now, lo, hi)[t] = {s \in lo .. hi - 1 : a <= s /\ s < n}
    BY <1>3 DEF Part
  <2>5. from \in {a, lo} /\ a <= from /\ lo <= from
    <3> HIDE DEF a, lo
    <3> QED BY <1>1, <2>2, LargerAndSmaller
  <2>6. to \in {n, hi} /\ to <= n /\ to <= hi
    <3>1. n \in Int /\ hi \in Int
      BY <1>1, <2>1
    <3> HIDE DEF n, hi
    <3>2. /\ Min({n, hi}) \in {n, hi}
          /\ Min({n, hi}) <= n /\ Min({n, hi}) <= hi
      BY <3>1, LargerAndSmaller
    <3> QED BY <3>2
  <2> HIDE DEF lo, hi, n, a, from, to
  <2>7. from \in Nat /\ to \in Nat
    BY <1>1, <2>1, <2>2, <2>5, <2>6
  <2>8. {s \in lo .. hi - 1 : a <= s /\ s < n} = from .. to - 1
    BY <1>1, <2>1, <2>2, <2>5, <2>6, <2>7
  <2>9. Cardinality(from .. to - 1) = IF from < to THEN to - from ELSE 0
    BY <2>7, TicksBetween
  <2> QED BY <2>3, <2>4, <2>8, <2>9
<1>4. IsFiniteSet(ticks) /\ SumFunctionOnSet(f, T) = Cardinality(ticks)
  <2> HIDE DEF lo, hi, f
  <2> QED BY <1>1, <1>2, <1>3, IdleSum
<1>5. SumFunction(f) = SumFunctionOnSet(f, T)
  BY DEF SumFunction
<1>6. LiveIdle(es, h) = RoundMinutes(SumFunction(f))
  BY DEF LiveIdle
<1> HIDE DEF f, ticks
<1> QED BY <1>4, <1>5, <1>6 DEF ticks

-----------------------------------------------------------------------------
(* The properties follow from the invariant.                               *)

\* Clock readings are natural numbers.
LEMMA ClockTypes ==
  ASSUME TypeOK
  PROVE  /\ now \in Nat /\ DayEnd \in Nat /\ HourTicks \in Nat /\ Hours \in Nat
         /\ \A h \in Hour : h \in Nat
         /\ \A e \in Event : e.at \in Nat /\ e.task \in Tasks
<1>1. DayEnd \in Nat /\ HourTicks \in Nat /\ Hours \in Nat
  BY ClockAssumption DEF DayEnd
<1>2. now \in Nat
  BY <1>1 DEF TypeOK
<1> QED BY <1>1, <1>2 DEF Hour, Event

\* What a dashboard sees is finite and in the past.
LEMMA SeenEvents ==
  ASSUME IInv, NEW es \in TodayEvents
  PROVE  IsFiniteSet(es) /\ \A e \in es : e.at \in Nat /\ e.at <= now /\ e.task \in Tasks
<1>1. es \in SUBSET (held \cup stored) /\ held \cup stored \in SUBSET Event
  BY DEF TodayEvents, IInv, TypeOK
<1>2. IsFiniteSet(held \cup stored)
  BY FS_Union DEF IInv, EventsOK
<1>3. IsFiniteSet(es)
  BY <1>1, <1>2, FS_Subset
<1>4. \A e \in es : e.at \in Nat /\ e.task \in Tasks
  BY <1>1, ClockTypes DEF IInv
<1> QED BY <1>1, <1>3, <1>4 DEF IInv, EventsOK

\* Idle time comes after the first event, so of a day it is at most the time
\* tracked; and each hour is rounded by half a minute at most.
LEMMA TotalWithinTracked ==
  ASSUME IInv, NEW es \in TodayEvents,
         NEW idle, idle = [h \in Hour |-> LiveIdle(es, h)]
  PROVE  2 * (TotalIdle(idle) - TrackedMinutes(es)) <= Hours + 1
<1> DEFINE A == [h \in Hour |-> IdleTicks(es, now, StartOf(h), EndOf(h))]
           T == Times(es)
           sum == SumFunctionOnSet(idle, Hour)
           all == UnionOf(A, Hour)
<1>1. /\ now \in Nat /\ Hours \in Nat /\ \A h \in Hour : h \in Nat
      /\ TicksPerMinute \in Nat /\ TicksPerMinute > 0
  BY ClockTypes, TicksAssumption DEF IInv
<1>2. IsFiniteSet(Hour) /\ Cardinality(Hour) = Hours
  <2>1. IsFiniteSet(0 .. Hours - 1) /\ Cardinality(0 .. Hours - 1) = Hours
    BY <1>1, TicksBetween, ClockAssumption
  <2> QED BY <2>1 DEF Hour
<1>3. \A e \in es : e.at \in Nat /\ e.at <= now
  BY SeenEvents
<1>4. ASSUME NEW h \in Hour
      PROVE  /\ IsFiniteSet(A[h]) /\ idle[h] \in Int
             /\ 2 * (TicksPerMinute * idle[h] - Cardinality(A[h])) <= TicksPerMinute
  <2>1. IsFiniteSet(A[h]) /\ idle[h] = RoundMinutes(Cardinality(A[h]))
    BY <1>1, <1>3, LiveIdleIs
  <2>2. Cardinality(A[h]) \in Nat
    BY <2>1, FS_CardinalityType
  <2> DEFINE c == Cardinality(A[h])
  <2> HIDE DEF c
  <2>3. /\ RoundMinutes(c) \in Nat /\ TicksPerMinute * RoundMinutes(c) \in Nat
        /\ 2 * (TicksPerMinute * RoundMinutes(c)) <= 2 * c + TicksPerMinute
    BY <2>2, RoundBounds DEF c
  <2>4. 2 * (TicksPerMinute * RoundMinutes(c) - c) <= TicksPerMinute /\ c \in Nat
    BY <1>1, <2>2, <2>3 DEF c
  <2> HIDE DEF A
  <2> QED BY <2>1, <2>3, <2>4 DEF c
<1>5. \A h, k \in Hour : h # k => A[h] \cap A[k] = {}
  <2> SUFFICES ASSUME NEW h \in Hour, NEW k \in Hour, NEW s \in A[h], s \in A[k]
               PROVE  h = k
    OBVIOUS
  <2>1. s \in StartOf(h) .. EndOf(h) - 1 /\ s \in StartOf(k) .. EndOf(k) - 1
    BY DEF IdleTicks
  <2>2. StartOf(h) \in Nat /\ EndOf(h) \in Int /\ StartOf(k) \in Nat /\ EndOf(k) \in Int
    BY <1>1, HourBounds, ClockAssumption
  <2>3. s \in Nat /\ StartOf(h) <= s /\ s < EndOf(h) /\ StartOf(k) <= s /\ s < EndOf(k)
    BY <2>1, <2>2
  <2> QED BY <1>1, <2>3, HourBounds
<1>6. /\ IsFiniteSet(all) /\ sum \in Int
      /\ 2 * (TicksPerMinute * sum - Cardinality(all)) <= TicksPerMinute * Hours
  <2> HIDE DEF A
  <2> QED BY <1>1, <1>2, <1>4, <1>5, SumOfRoundedParts
<1>7. TotalIdle(idle) = sum
  BY DEF TotalIdle, SumFunction
<1>8. Cardinality(all) \in Nat
  BY <1>6, FS_CardinalityType
<1>9. ASSUME NEW s \in all
      PROVE  s \in Int /\ s < now /\ \E t \in T : t <= s
  <2>1. PICK h \in Hour : s \in A[h]
    BY DEF UnionOf
  <2>2. s \in StartOf(h) .. EndOf(h) - 1 /\ s < now /\ IdleTick(es, s)
    BY <2>1 DEF IdleTicks
  <2> QED BY <2>2 DEF IdleTick
<1>10. /\ TrackedMinutes(es) \in Nat
       /\ 2 * Cardinality(all) <= 2 * (TicksPerMinute * TrackedMinutes(es)) + TicksPerMinute
       /\ TicksPerMinute * TrackedMinutes(es) \in Nat
  <2>1. CASE es = {}
    <3>1. all = {}
      BY <1>9, <2>1 DEF Times
    <3>2. Cardinality(all) = 0 /\ TrackedMinutes(es) = 0
      BY <2>1, <3>1, FS_EmptySet DEF TrackedMinutes
    <3>3. TicksPerMinute * 0 = 0
      BY <1>1
    <3> QED BY <1>1, <3>2, <3>3
  <2>2. CASE es # {}
    <3> DEFINE first == Min(T)
    <3>1. TimesUpTo(T, now) /\ T # {}
      BY <1>1, <1>3, <2>2, TimesOfEvents DEF Times
    <3>2. T \in SUBSET Int /\ IsFiniteSet(T)
      BY <3>1 DEF TimesUpTo
    <3>3. first \in T /\ \A t \in T : first <= t
      <4> HIDE DEF T
      <4> QED BY <3>1, <3>2, Extremes
    <3> HIDE DEF first
    <3>4. first \in Nat /\ first <= now
      BY <3>1, <3>3 DEF TimesUpTo
    <3>5. \A s \in all : s \in first .. now - 1
      <4> TAKE s \in all
      <4>1. PICK t \in T : t <= s
        BY <1>9
      <4>2. first <= t /\ t \in Int /\ s \in Int /\ s < now
        BY <1>9, <3>2, <3>3
      <4> QED BY <1>1, <3>4, <4>1, <4>2
    <3>6. IsFiniteSet(first .. now - 1) /\ Cardinality(first .. now - 1) = now - first
      <4>1. first < now \/ now - first = 0
        BY <1>1, <3>4
      <4> QED BY <1>1, <3>4, <4>1, TicksBetween
    <3>7. Cardinality(all) <= now - first
      <4> DEFINE span == first .. now - 1
      <4>1. all \in SUBSET span /\ IsFiniteSet(span) /\ Cardinality(span) = now - first
        BY <3>5, <3>6
      <4> HIDE DEF span, all
      <4>2. Cardinality(all) <= Cardinality(span)
        BY <4>1, FS_Subset
      <4> QED BY <4>1, <4>2
    <3>8. TrackedMinutes(es) = RoundMinutes(now - first)
      BY <2>2 DEF TrackedMinutes, first
    <3> DEFINE d == now - first
               r == RoundMinutes(d)
    <3>9. /\ r \in Nat /\ TicksPerMinute * r \in Nat /\ d \in Nat
          /\ 2 * d + TicksPerMinute < 2 * (TicksPerMinute * r) + 2 * TicksPerMinute
      <4>1. d \in Nat
        BY <1>1, <3>4
      <4> HIDE DEF d
      <4> QED BY <4>1, RoundBounds
    <3> HIDE DEF r
    <3>10. 2 * d <= 2 * (TicksPerMinute * r) + TicksPerMinute
      BY <1>1, <3>9
    <3> HIDE DEF all
    <3>11. 2 * Cardinality(all) <= 2 * (TicksPerMinute * r) + TicksPerMinute
      BY <1>1, <1>8, <3>7, <3>9, <3>10
    <3> QED BY <3>8, <3>9, <3>11 DEF r
  <2> QED BY <2>1, <2>2
<1> DEFINE tracked == TrackedMinutes(es)
           m == TicksPerMinute
           c == Cardinality(all)
<1>11. /\ sum \in Int /\ tracked \in Nat /\ m \in Nat /\ m > 0 /\ c \in Nat /\ Hours \in Nat
       /\ 2 * (m * sum - c) <= m * Hours /\ 2 * c <= 2 * (m * tracked) + m
  BY <1>1, <1>6, <1>8, <1>10
<1> HIDE DEF sum, tracked, m, c
<1>12. m * sum \in Int /\ m * Hours \in Int /\ m * tracked \in Int
  BY <1>11
<1>13. 2 * (m * sum) - 2 * (m * tracked) <= m * Hours + m
  BY <1>11, <1>12
<1>14. m * (2 * (sum - tracked)) <= m * (Hours + 1)
  <2>1. m * (2 * (sum - tracked)) = 2 * (m * sum) - 2 * (m * tracked)
    BY <1>11
  <2>2. m * (Hours + 1) = m * Hours + m
    BY <1>11
  <2> QED BY <1>13, <2>1, <2>2
<1>15. 2 * (sum - tracked) <= Hours + 1
  <2> DEFINE a == 2 * (sum - tracked)
             b == Hours + 1
  <2>1. a \in Int /\ b \in Int /\ m * a <= m * b
    BY <1>11, <1>14
  <2> HIDE DEF a, b
  <2> SUFFICES ASSUME a > b PROVE FALSE
    BY <2>1 DEF a, b
  <2>2. PICK k \in Nat : a = b + 1 + k
    <3>1. a - b - 1 \in Nat /\ a = b + 1 + (a - b - 1)
      BY <2>1
    <3> QED BY <3>1
  <2>3. m * (b + 1 + k) = m * b + m + m * k /\ m * k \in Nat /\ m * b \in Int
    BY <1>11, <2>1
  <2> QED BY <1>11, <2>1, <2>2, <2>3
<1> QED BY <1>7, <1>15 DEF tracked

\* DashboardIdle is LiveIdleIs for each hour, and the total.
LEMMA IInvDashboard == IInv => DashboardIdle
<1> SUFFICES ASSUME IInv, NEW es \in TodayEvents
             PROVE  LET idle == [h \in Hour |-> LiveIdle(es, h)]
                    IN  /\ \A h \in Hour :
                             idle[h] = RoundMinutes(Cardinality(
                               {t \in StartOf(h) .. EndOf(h) - 1 : t < now /\ IdleTick(es, t)}))
                        /\ 2 * (TotalIdle(idle) - TrackedMinutes(es)) <= Hours + 1
  BY DEF DashboardIdle, IInv
<1> DEFINE idle == [h \in Hour |-> LiveIdle(es, h)]
<1>1. ASSUME NEW h \in Hour
      PROVE  idle[h] = RoundMinutes(Cardinality(
               {t \in StartOf(h) .. EndOf(h) - 1 : t < now /\ IdleTick(es, t)}))
  <2>1. h \in Nat /\ now \in Nat /\ \A e \in es : e.at \in Nat /\ e.at <= now
    BY ClockTypes, SeenEvents DEF IInv
  <2>2. LiveIdle(es, h) = RoundMinutes(Cardinality(IdleTicks(es, now, StartOf(h), EndOf(h))))
    BY <2>1, LiveIdleIs
  <2> QED BY <2>2 DEF IdleTicks
<1>2. 2 * (TotalIdle(idle) - TrackedMinutes(es)) <= Hours + 1
  <2>1. idle = [h \in Hour |-> LiveIdle(es, h)]
    OBVIOUS
  <2> HIDE DEF idle
  <2> QED BY <2>1, TotalWithinTracked
<1> QED BY <1>1, <1>2

\* The events between an hour's bounds are those HourOf puts there.
LEMMA HourEvents ==
  ASSUME TypeOK, EventsOK, NEW h \in Hour
  PROVE  /\ EventsOf(h) \in SUBSET stored /\ IsFiniteSet(EventsOf(h))
         /\ \A e \in EventsOf(h) :
              e.at \in Nat /\ StartOf(h) <= e.at /\ e.at < EndOf(h) /\ e.task \in Tasks
         /\ EventsOf(h) = {e \in stored : HourOf(e.at) = h}
<1>1. EventsOf(h) \in SUBSET stored /\ stored \in SUBSET Event
  BY DEF EventsOf, TypeOK
<1>2. IsFiniteSet(EventsOf(h))
  BY <1>1, FS_Subset DEF EventsOK
<1>3. \A e \in stored : e.at \in Nat /\ e.task \in Tasks
  BY <1>1, ClockTypes
<1>4. \A e \in stored : HourOf(e.at) = h <=> StartOf(h) <= e.at /\ e.at < EndOf(h)
  BY <1>3, ClockTypes, HourBounds
<1> QED BY <1>1, <1>2, <1>3, <1>4 DEF EventsOf

\* The last event before a tick of the hour is of the hour if there is one, so an
\* idle tick of the row is one of the dashboard.
LEMMA IInvSummary == IInv => SummaryWithinDashboard
<1> SUFFICES ASSUME IInv, NEW k \in DOMAIN rows, k[1] \notin late,
                    {e.task : e \in EventsOf(k[1])} = {k[2]}
             PROVE  rows[k].idle <= LiveIdle(stored, k[1])
  BY DEF SummaryWithinDashboard, IInv, RowsOK
<1> DEFINE h == k[1]
           es == EventsOf(h)
           lo == StartOf(h)
           hi == EndOf(h)
           inRow == IdleTicks(es, hi, lo, hi)
           shown == IdleTicks(stored, now, lo, hi)
<1>1. h \in Hour /\ h \in Nat /\ h \in aggregated
  BY ClockTypes DEF IInv, TypeOK, RowsOK
<1>2. /\ es \in SUBSET stored
      /\ \A e \in es : e.at \in Nat /\ lo <= e.at /\ e.at < hi
      /\ \A e \in stored : e.at \in Nat /\ e.at <= now
      /\ \A e \in stored : lo <= e.at /\ e.at < hi => e \in es
  <2>1. \A e \in stored : e.at \in Nat /\ e.at <= now
    <3>1. stored \in TodayEvents
      <4>1. {} \in SUBSET held /\ stored = stored \cup {}
        OBVIOUS
      <4> QED BY <4>1 DEF TodayEvents
    <3> QED BY <3>1, SeenEvents
  <2>2. \A e \in stored : lo <= e.at /\ e.at < hi => e \in es
    BY DEF EventsOf
  <2> QED BY <1>1, <2>1, <2>2, HourEvents DEF IInv
<1>3. hi <= now /\ now \in Nat /\ lo \in Nat /\ hi \in Nat
  <2>1. hi <= now
    BY <1>1 DEF IInv, JobsOK
  <2>2. now \in Nat /\ HourTicks \in Nat
    BY ClockTypes DEF IInv
  <2>3. lo \in Nat /\ hi = lo + HourTicks
    BY <1>1, HourBounds
  <2> QED BY <2>1, <2>2, <2>3
<1>4. rows[k].idle = IdleOfGroup(es, hi)
  <2>1. Group(h, k[2]) = es
    BY DEF Group
  <2> QED BY <2>1 DEF IInv, RowsOK
<1>5. /\ IsFiniteSet(inRow)
      /\ IdleOfGroup(es, hi) = IF Cardinality(es) > 1 THEN RoundMinutes(Cardinality(inRow)) ELSE 0
  BY <1>1, <1>2, IdleOfGroupIs
<1>6. IsFiniteSet(shown) /\ LiveIdle(stored, h) = RoundMinutes(Cardinality(shown))
  BY <1>1, <1>2, <1>3, LiveIdleIs
<1>7. inRow \in SUBSET shown
  <2> SUFFICES ASSUME NEW s \in inRow
               PROVE  s < now /\ IdleTick(stored, s)
    BY DEF IdleTicks
  <2> DEFINE own == {t \in Times(es) : t <= s}
             before == {t \in Times(stored) : t <= s}
  <2>1. s \in lo .. hi - 1 /\ own # {} /\ s - Max(own) >= EffectiveIdleThreshold
    BY DEF IdleTicks, IdleTick
  <2>2. s \in Nat /\ lo <= s /\ s < hi /\ s < now
    BY <1>3, <2>1
  <2>3. own \in SUBSET before
    BY <1>2 DEF Times
  <2>4. \A t \in before : t \in Nat /\ t <= s /\ (lo <= t => t \in own)
    <3> SUFFICES ASSUME NEW e \in stored, e.at <= s
                 PROVE  e.at \in Nat /\ (lo <= e.at => e.at \in Times(es))
      BY DEF Times
    <3>1. e.at \in Nat /\ e.at < hi
      BY <1>2, <1>3, <2>2
    <3> QED BY <1>2, <3>1 DEF Times
  <2>5. \A t \in own : lo <= t
    BY <1>2 DEF Times
  <2>6. TimesUpTo(Times(stored), now)
    BY <1>2, <1>3, TimesOfEvents
  <2>7. IsFiniteSet(before) /\ IsFiniteSet(own) /\ before # {}
    <3>1. before \in SUBSET Times(stored) /\ IsFiniteSet(Times(stored))
      BY <2>6 DEF TimesUpTo
    <3> HIDE DEF before, own
    <3>2. IsFiniteSet(before)
      BY <3>1, FS_Subset
    <3>3. IsFiniteSet(own)
      BY <2>3, <3>2, FS_Subset
    <3> QED BY <2>1, <2>3, <3>2, <3>3
  <2> HIDE DEF own, before
  <2>8. own \in SUBSET Int /\ before \in SUBSET Int
    BY <2>3, <2>4
  <2>9. /\ Max(own) \in own /\ \A t \in own : t <= Max(own)
        /\ Max(before) \in before /\ \A t \in before : t <= Max(before)
    BY <2>1, <2>7, <2>8, Extremes
  <2>10. Max(before) = Max(own)
    <3>1. Max(own) \in before /\ Max(own) <= Max(before) /\ lo <= Max(own)
      BY <2>3, <2>5, <2>9
    <3>2. Max(before) \in own
      BY <1>3, <2>4, <2>9, <3>1
    <3> QED BY <2>4, <2>9, <3>1, <3>2
  <2> QED BY <2>1, <2>2, <2>7, <2>10 DEF IdleTick, before
<1> HIDE DEF inRow, shown, es, hi
<1>8. /\ Cardinality(inRow) \in Nat /\ Cardinality(shown) \in Nat
      /\ Cardinality(inRow) <= Cardinality(shown)
  BY <1>5, <1>6, <1>7, FS_Subset, FS_CardinalityType
<1>9. /\ RoundMinutes(Cardinality(inRow)) \in Nat /\ RoundMinutes(Cardinality(shown)) \in Nat
      /\ RoundMinutes(Cardinality(inRow)) <= RoundMinutes(Cardinality(shown))
  BY <1>8, RoundBounds, RoundOrder
<1> QED BY <1>4, <1>5, <1>6, <1>9 DEF hi

\* Each event of the hour is counted in the row of its task, and in no other.
LEMMA RowsComplete ==
  ASSUME IInv, NEW h \in aggregated, h \notin late, h \notin broken, job[h].left = {}
  PROVE  SumFunction([k \in RowsOf(h) |-> rows[k].count]) = LiveCount(stored, h)
<1> DEFINE S == RowsOf(h)
           A == [k \in S |-> Group(h, k[2])]
           f == [k \in S |-> rows[k].count]
           es == EventsOf(h)
<1>1. \A k \in S : k \in DOMAIN rows /\ k[1] = h /\ k = <<h, k[2]>>
  BY DEF RowsOf, IInv, TypeOK
<1>2. h \in Hour
  BY DEF IInv, TypeOK
<1>3. es \in SUBSET stored /\ IsFiniteSet(es) /\ es = {e \in stored : HourOf(e.at) = h}
  BY <1>2, HourEvents DEF IInv
<1>4. \A k \in S : IsFiniteSet(A[k]) /\ f[k] = Cardinality(A[k])
  <2> SUFFICES ASSUME NEW k \in S
               PROVE  IsFiniteSet(Group(h, k[2])) /\ rows[k].count = Cardinality(Group(h, k[2]))
    OBVIOUS
  <2>1. IsFiniteSet(Group(h, k[2]))
    <3>1. Group(h, k[2]) \in SUBSET es
      BY DEF Group
    <3> HIDE DEF es
    <3> QED BY <1>3, <3>1, FS_Subset
  <2> QED BY <1>1, <2>1 DEF IInv, RowsOK
<1>5. \A k, l \in S : k # l => A[k] \cap A[l] = {}
  BY <1>1 DEF Group
<1>6. UnionOf(A, S) = es
  <2>1. \A k \in S : A[k] \in SUBSET es
    BY DEF Group
  <2>2. ASSUME NEW e \in es PROVE \E k \in S : e \in A[k]
    <3>1. <<h, e.task>> \in DOMAIN rows
      BY DEF IInv, NoneMissing
    <3>2. <<h, e.task>> \in S
      BY <3>1 DEF RowsOf
    <3>3. e \in A[<<h, e.task>>]
      BY <3>2 DEF Group
    <3> QED BY <3>2, <3>3
  <2> HIDE DEF A, es
  <2> QED BY <2>1, <2>2 DEF UnionOf
<1>7. IsFiniteSet(S)
  <2>1. \A k \in S : k[2] \in {e.task : e \in es}
    BY <1>1 DEF IInv, RowsOK, Group
  <2> DEFINE g == [k \in S |-> CHOOSE e \in es : e.task = k[2]]
  <2>2. \A k \in S : g[k] \in es /\ g[k].task = k[2]
    BY <2>1
  <2>3. g \in Injection(S, es)
    <3>1. g \in [S -> es]
      BY <2>2
    <3>2. \A k, l \in S : g[k] = g[l] => k = l
      BY <1>1, <2>2
    <3> HIDE DEF g
    <3> QED BY <3>1, <3>2 DEF Injection, IsInjective
  <2> HIDE DEF g, S, es
  <2> QED BY <1>3, <2>3, FS_Injection
<1>8. SumFunctionOnSet(f, S) = Cardinality(es)
  <2> HIDE DEF f, A, S, es
  <2> QED BY <1>4, <1>5, <1>6, <1>7, SumOfParts
<1> QED BY <1>3, <1>8 DEF SumFunction, LiveCount

\* In the view the rows of an hour, or its events, count, and never both, as long as
\* the view takes them for rows of today.
LEMMA IInvShown == IInv => ShownComplete
<1> SUFFICES ASSUME IInv, NEW query \in Queries, NEW h \in Hour, h \notin late, h \notin broken,
                    Covers(query, 0), job[h].left = {},
                    IF Covers(query, Today) THEN DateOf(h) = Today ELSE h \in aggregated
             PROVE  ShownCount(query, stored, h) = LiveCount(stored, h)
  BY DEF ShownComplete
<1> DEFINE sum == SumFunction([k \in RowsOf(h) |-> rows[k].count])
<1>1. LiveCount(stored, h) \in Nat
  <2>1. IsFiniteSet({e \in stored : HourOf(e.at) = h})
    BY FS_Subset DEF IInv, EventsOK
  <2> QED BY <2>1, FS_CardinalityType DEF LiveCount
<1>2. ShownCount(query, stored, h) = sum + (IF LiveShown(query, h) THEN LiveCount(stored, h) ELSE 0)
  BY DEF ShownCount, StoredCount
<1>3. CASE LiveShown(query, h)
  <2>1. RowsOf(h) = {}
    BY <1>3 DEF LiveShown
  <2>2. sum = 0
    <3>1. DOMAIN [k \in RowsOf(h) |-> rows[k].count] = {}
      BY <2>1
    <3> QED BY <3>1, SumUnfolds, FS_EmptySet DEF SumFunction
  <2> HIDE DEF sum
  <2> QED BY <1>1, <1>2, <1>3, <2>2
<1>4. CASE ~ LiveShown(query, h)
  <2>1. h \in aggregated
    <3>1. CASE Covers(query, Today)
      <4>1. PICK k \in RowsOf(h) : TRUE
        BY <1>4, <3>1 DEF LiveShown
      <4> QED BY <4>1 DEF RowsOf, IInv, RowsOK
    <3> QED BY <3>1
  <2>2. sum = LiveCount(stored, h)
    BY <2>1, RowsComplete
  <2> HIDE DEF sum
  <2> QED BY <1>1, <1>2, <1>4, <2>2
<1> QED BY <1>3, <1>4

-----------------------------------------------------------------------------
(* The steps keep the invariant.                                           *)

\* One lemma for each action.
LEMMA InitIInv == Init => IInv
<1> SUFFICES ASSUME Init PROVE IInv
  OBVIOUS
<1>1. DayEnd \in Nat
  BY ClockAssumption DEF DayEnd
<1>2. /\ now = 0 /\ held = {} /\ stored = {} /\ aggregated = {} /\ late = {} /\ broken = {}
      /\ rows = << >> /\ DOMAIN rows = {}
      /\ job = [h \in Hour |-> NoJob]
  BY DEF Init
<1>3. TypeOK
  <2>1. rows \in [DOMAIN rows -> [count : Nat, idle : Nat]] /\ DOMAIN rows \subseteq Hour \X Tasks
    BY <1>2
  <2>2. job \in [Hour -> [events : SUBSET Event, left : SUBSET Tasks]]
    BY <1>2 DEF NoJob
  <2> QED BY <1>1, <1>2, <2>1, <2>2 DEF TypeOK
<1>4. EventsOK
  BY <1>2, FS_EmptySet DEF EventsOK
<1>5. JobsOK
  BY <1>2, FS_EmptySet DEF JobsOK, NoJob
<1>6. RowsOK /\ NoneMissing
  BY <1>2 DEF RowsOK, NoneMissing
<1> QED BY <1>3, <1>4, <1>5, <1>6 DEF IInv

LEMMA TickStep == IInv /\ Tick => IInv'
<1> SUFFICES ASSUME IInv, Tick PROVE IInv'
  OBVIOUS
<1>1. /\ now' = now + 1 /\ now < DayEnd
      /\ UNCHANGED <<held, stored, rows, job, aggregated, late, broken>>
  BY DEF Tick
<1>2. now \in Nat /\ DayEnd \in Nat /\ now' \in Nat /\ HourTicks \in Nat
  BY <1>1, ClockTypes DEF IInv
<1>3. TypeOK'
  BY <1>1, <1>2 DEF IInv, TypeOK
<1>4. EventsOK'
  <2>1. \A e \in held \cup stored : e.at \in Nat /\ e.at <= now
    BY ClockTypes DEF IInv, TypeOK, EventsOK
  <2> QED BY <1>1, <1>2, <2>1 DEF IInv, EventsOK
<1>5. \A h : EventsOf(h)' = EventsOf(h)
  BY <1>1 DEF EventsOf
<1>6. JobsOK'
  <2>1. \A h \in aggregated : EndOf(h) <= now /\ EndOf(h) \in Nat
    <3> TAKE h \in aggregated
    <3>1. h \in Nat /\ EndOf(h) <= now
      BY ClockTypes DEF IInv, TypeOK, JobsOK
    <3> QED BY <1>2, <3>1, HourBounds
  <2>2. \A h \in aggregated' : EndOf(h) <= now'
    BY <1>1, <1>2, <2>1
  <2> QED BY <1>1, <1>5, <2>2 DEF IInv, JobsOK
<1>7. RowsOK' /\ NoneMissing'
  BY <1>1, <1>5 DEF IInv, RowsOK, NoneMissing, Group
<1> QED BY <1>3, <1>4, <1>6, <1>7 DEF IInv

LEMMA HappensStep == ASSUME NEW task \in Tasks PROVE IInv /\ Happens(task) => IInv'
<1> SUFFICES ASSUME IInv, Happens(task) PROVE IInv'
  OBVIOUS
<1> DEFINE e == [at |-> now, task |-> task]
<1>1. /\ now < DayEnd /\ held' = held \cup {e}
      /\ UNCHANGED <<now, stored, rows, job, aggregated, late, broken>>
  BY DEF Happens
<1>2. now \in Nat /\ DayEnd \in Nat
  BY ClockTypes DEF IInv
<1>3. e \in Event /\ e.at = now
  BY <1>1, <1>2 DEF Event
<1> HIDE DEF e
<1>4. TypeOK'
  BY <1>1, <1>3 DEF IInv, TypeOK
<1>5. EventsOK'
  <2>1. IsFiniteSet(held')
    BY <1>1, FS_AddElement DEF IInv, EventsOK
  <2>2. \A d \in held' \cup stored' : d.at <= now'
    BY <1>1, <1>2, <1>3 DEF IInv, EventsOK
  <2> QED BY <1>1, <2>1, <2>2 DEF IInv, EventsOK
<1>6. \A h : EventsOf(h)' = EventsOf(h)
  BY <1>1 DEF EventsOf
<1>7. JobsOK' /\ RowsOK' /\ NoneMissing'
  BY <1>1, <1>6 DEF IInv, JobsOK, RowsOK, NoneMissing, Group
<1> QED BY <1>4, <1>5, <1>7 DEF IInv

\* What is stored after its hour was summed up makes the hour one of the late.
LEMMA StoreStep == IInv /\ Store => IInv'
<1> SUFFICES ASSUME IInv, NEW es \in SUBSET held \ {{}},
                    stored' = stored \cup es, held' = held \ es,
                    late' = late \cup (aggregated \cap {HourOf(e.at) : e \in es}),
                    UNCHANGED <<now, rows, job, aggregated, broken>>
             PROVE  IInv'
  BY DEF Store
<1>1. es \in SUBSET held /\ es \in SUBSET Event /\ late' \subseteq Hour
  BY DEF IInv, TypeOK
<1>2. TypeOK'
  BY <1>1 DEF IInv, TypeOK
<1>3. EventsOK'
  <2>1. IsFiniteSet(es)
    BY <1>1, FS_Subset DEF IInv, EventsOK
  <2>2. IsFiniteSet(stored')
    BY <2>1, FS_Union DEF IInv, EventsOK
  <2>3. held' \in SUBSET held
    OBVIOUS
  <2>4. IsFiniteSet(held')
    BY <2>3, FS_Subset DEF IInv, EventsOK
  <2> QED BY <1>1, <2>2, <2>4 DEF IInv, EventsOK
<1>4. ASSUME NEW h \in aggregated, h \notin late'
      PROVE  h \notin late /\ EventsOf(h)' = EventsOf(h)
  <2>1. ASSUME NEW e \in es PROVE ~ (StartOf(h) <= e.at /\ e.at < EndOf(h))
    <3>1. e.at \in Nat /\ h \in Nat
      BY <1>1, ClockTypes DEF IInv, TypeOK
    <3>2. HourOf(e.at) # h
      BY <1>4
    <3> QED BY <3>1, <3>2, HourBounds
  <2> QED BY <1>4, <2>1 DEF EventsOf
<1>5. JobsOK'
  <2>1. ASSUME NEW h \in Hour, h \notin late', job[h].left # {}
        PROVE  /\ job[h].events = EventsOf(h)'
               /\ job[h].left \subseteq {e.task : e \in EventsOf(h)'}
    <3>1. h \in aggregated
      BY <2>1 DEF IInv, JobsOK
    <3>2. h \notin late /\ EventsOf(h)' = EventsOf(h)
      BY <1>4, <2>1, <3>1
    <3> QED BY <2>1, <3>2 DEF IInv, JobsOK
  <2> QED BY <2>1 DEF IInv, JobsOK
<1>6. RowsOK'
  <2> SUFFICES ASSUME NEW k \in DOMAIN rows, k[1] \notin late'
               PROVE  /\ Group(k[1], k[2])' # {}
                      /\ rows[k].count = Cardinality(Group(k[1], k[2])')
                      /\ rows[k].idle = IdleOfGroup(Group(k[1], k[2])', EndOf(k[1]))
    BY DEF IInv, RowsOK
  <2>1. k[1] \in aggregated
    BY DEF IInv, RowsOK
  <2>2. k[1] \notin late /\ Group(k[1], k[2])' = Group(k[1], k[2])
    BY <1>4, <2>1 DEF Group
  <2> QED BY <2>2 DEF IInv, RowsOK
<1>7. NoneMissing'
  BY <1>4 DEF IInv, NoneMissing
<1> QED BY <1>2, <1>3, <1>5, <1>6, <1>7 DEF IInv

LEMMA AggregateHourStep == ASSUME NEW h \in Hour PROVE IInv /\ AggregateHour(h) => IInv'
<1> SUFFICES ASSUME IInv, AggregateHour(h) PROVE IInv'
  OBVIOUS
<1> DEFINE es == EventsOf(h)
           new == [events |-> es, left |-> {e.task : e \in es}]
<1>1. /\ now = EndOf(h) /\ h \notin aggregated
      /\ aggregated' = aggregated \cup {h} /\ job' = [job EXCEPT ![h] = new]
      /\ UNCHANGED <<now, held, stored, rows, late, broken>>
  BY DEF AggregateHour
<1>2. /\ es \in SUBSET Event /\ IsFiniteSet(es)
      /\ \A e \in es : StartOf(h) <= e.at /\ e.at < EndOf(h) /\ e.task \in Tasks
  BY HourEvents DEF IInv, TypeOK
<1>3. /\ job \in [Hour -> [events : SUBSET Event, left : SUBSET Tasks]]
      /\ job'[h] = new /\ \A g \in Hour \ {h} : job'[g] = job[g]
  BY <1>1 DEF IInv, TypeOK
<1>4. \A g : EventsOf(g)' = EventsOf(g)
  BY <1>1 DEF EventsOf
<1>5. TypeOK'
  <2>1. new \in [events : SUBSET Event, left : SUBSET Tasks]
    BY <1>2
  <2> HIDE DEF new
  <2>2. job' \in [Hour -> [events : SUBSET Event, left : SUBSET Tasks]]
    BY <1>1, <1>3, <2>1
  <2> QED BY <1>1, <2>2 DEF IInv, TypeOK
<1>6. EventsOK'
  BY <1>1 DEF IInv, EventsOK
<1>7. new.events = es /\ new.left = {e.task : e \in es}
  OBVIOUS
<1> HIDE DEF new
<1>8. JobsOK'
  <2>1. \A g \in aggregated' : EndOf(g) <= now'
    <3>1. now \in Int
      BY ClockTypes DEF IInv
    <3>2. \A g \in aggregated : EndOf(g) <= now
      BY DEF IInv, JobsOK
    <3> QED BY <1>1, <3>1, <3>2
  <2>2. ASSUME NEW g \in Hour
        PROVE  /\ job'[g].left # {} => g \in aggregated'
               /\ IsFiniteSet(job'[g].events)
               /\ \A e \in job'[g].events : StartOf(g) <= e.at /\ e.at < EndOf(g)
               /\ g \notin late /\ job'[g].left # {} =>
                    /\ job'[g].events = EventsOf(g)'
                    /\ job'[g].left \subseteq {e.task : e \in EventsOf(g)'}
    <3>1. CASE g = h
      BY <1>1, <1>2, <1>3, <1>4, <1>7, <3>1
    <3>2. CASE g # h
      BY <1>1, <1>3, <1>4, <3>2 DEF IInv, JobsOK
    <3> QED BY <3>1, <3>2
  <2> QED BY <1>1, <2>1, <2>2 DEF JobsOK
<1>9. RowsOK'
  BY <1>1, <1>4 DEF IInv, RowsOK, Group
<1>10. NoneMissing'
  <2> SUFFICES ASSUME NEW g \in aggregated' \ (late' \cup broken'), NEW e \in EventsOf(g)'
               PROVE  <<g, e.task>> \in DOMAIN rows' \/ e.task \in job'[g].left
    BY DEF NoneMissing
  <2>1. CASE g = h
    BY <1>3, <1>4, <1>7, <2>1
  <2>2. CASE g # h
    <3>1. g \in aggregated \ (late \cup broken) /\ g \in Hour /\ e \in EventsOf(g)
      BY <1>1, <1>4, <2>2 DEF IInv, TypeOK
    <3> QED BY <1>1, <1>3, <2>2, <3>1 DEF IInv, NoneMissing
  <2> QED BY <2>1, <2>2
<1> QED BY <1>5, <1>6, <1>8, <1>9, <1>10 DEF IInv

\* The row of a task is the one missing, and it is about the group that was read.
LEMMA WriteSummaryStep ==
  ASSUME NEW h \in Hour, NEW task \in Tasks PROVE IInv /\ WriteSummary(h, task) => IInv'
<1> SUFFICES ASSUME IInv, WriteSummary(h, task) PROVE IInv'
  OBVIOUS
<1> DEFINE es == {e \in job[h].events : e.task = task}
           left == job[h].left \ {task}
           row == [count |-> Cardinality(es), idle |-> IdleOfGroup(es, EndOf(h))]
           new == IF left = {} THEN NoJob ELSE [job[h] EXCEPT !.left = left]
           key == <<h, task>>
<1>1. /\ task \in job[h].left
      /\ rows' = [k \in DOMAIN rows \cup {key} |-> IF k = key THEN row ELSE rows[k]]
      /\ job' = [job EXCEPT ![h] = new]
      /\ UNCHANGED <<now, held, stored, aggregated, late, broken>>
  <2>1. job' = [job EXCEPT ![h] = IF left = {} THEN NoJob ELSE [@ EXCEPT !.left = left]]
    BY DEF WriteSummary
  <2> QED BY <2>1 DEF WriteSummary
<1>2. /\ job \in [Hour -> [events : SUBSET Event, left : SUBSET Tasks]]
      /\ job[h].events \in SUBSET Event /\ h \in Nat
      /\ h \in aggregated /\ IsFiniteSet(job[h].events)
      /\ \A e \in job[h].events : StartOf(h) <= e.at /\ e.at < EndOf(h)
  BY <1>1, ClockTypes DEF IInv, TypeOK, JobsOK
<1>3. /\ new \in [events : SUBSET Event, left : SUBSET Tasks]
      /\ new.left = left /\ new.events \in {{}, job[h].events}
      /\ left # {} => new.events = job[h].events
  <2>1. job[h] \in [events : SUBSET Event, left : SUBSET Tasks]
    BY <1>2
  <2>2. left \in SUBSET Tasks
    BY <2>1
  <2> HIDE DEF left
  <2> QED BY <2>1, <2>2 DEF NoJob
<1>4. IsFiniteSet(es) /\ \A e \in es : e.at \in Nat /\ StartOf(h) <= e.at /\ e.at < EndOf(h)
  <2>1. es \in SUBSET job[h].events
    OBVIOUS
  <2>2. IsFiniteSet(es)
    BY <1>2, <2>1, FS_Subset
  <2> QED BY <1>2, <2>1, <2>2, ClockTypes DEF IInv
<1>5. /\ row.count \in Nat /\ row.idle \in Nat
      /\ row.idle <= RoundMinutes(HourTicks)
      /\ row.count = Cardinality(es) /\ row.idle = IdleOfGroup(es, EndOf(h))
      /\ row \in [count : Nat, idle : Nat]
  <2>1. /\ Cardinality(es) \in Nat /\ IdleOfGroup(es, EndOf(h)) \in Nat
        /\ IdleOfGroup(es, EndOf(h)) <= RoundMinutes(HourTicks)
    <3> HIDE DEF es
    <3> QED BY <1>2, <1>4, RowWithinHour, FS_CardinalityType
  <2> HIDE DEF es
  <2> QED BY <2>1
<1>6. /\ job'[h] = new /\ \A g \in Hour \ {h} : job'[g] = job[g]
      /\ DOMAIN rows' = DOMAIN rows \cup {key} /\ rows'[key] = row
      /\ \A k \in DOMAIN rows \ {key} : rows'[k] = rows[k]
  BY <1>1, <1>2
<1>7. \A g : EventsOf(g)' = EventsOf(g)
  BY <1>1 DEF EventsOf
<1>8. h \notin late => es = Group(h, task) /\ Group(h, task) # {}
  <2> SUFFICES ASSUME h \notin late PROVE es = Group(h, task) /\ Group(h, task) # {}
    OBVIOUS
  <2>1. job[h].events = EventsOf(h) /\ job[h].left \subseteq {e.task : e \in EventsOf(h)}
    BY <1>1 DEF IInv, JobsOK
  <2>2. es = Group(h, task)
    BY <2>1 DEF Group
  <2>3. \E e \in EventsOf(h) : e.task = task
    BY <1>1, <2>1
  <2> QED BY <2>2, <2>3 DEF Group
<1> HIDE DEF es, row, new
<1>9. TypeOK'
  <2>1. job' \in [Hour -> [events : SUBSET Event, left : SUBSET Tasks]]
    BY <1>1, <1>2, <1>3
  <2>2. /\ rows' \in [DOMAIN rows' -> [count : Nat, idle : Nat]]
        /\ DOMAIN rows' \subseteq Hour \X Tasks
    <3>1. /\ rows \in [DOMAIN rows -> [count : Nat, idle : Nat]]
          /\ DOMAIN rows \subseteq Hour \X Tasks
      BY DEF IInv, TypeOK
    <3> QED BY <1>1, <1>5, <1>6, <3>1
  <2> QED BY <1>1, <2>1, <2>2 DEF IInv, TypeOK
<1>10. EventsOK'
  BY <1>1 DEF IInv, EventsOK
<1>11. JobsOK'
  <2>1. ASSUME NEW g \in Hour
        PROVE  /\ job'[g].left # {} => g \in aggregated
               /\ IsFiniteSet(job'[g].events)
               /\ \A e \in job'[g].events : StartOf(g) <= e.at /\ e.at < EndOf(g)
               /\ g \notin late /\ job'[g].left # {} =>
                    /\ job'[g].events = EventsOf(g)
                    /\ job'[g].left \subseteq {e.task : e \in EventsOf(g)}
    <3>1. CASE g = h
      <4>1. IsFiniteSet({})
        BY FS_EmptySet
      <4>2. /\ IsFiniteSet(new.events)
            /\ \A e \in new.events : StartOf(h) <= e.at /\ e.at < EndOf(h)
        BY <1>2, <1>3, <4>1
      <4>3. ASSUME h \notin late, new.left # {}
            PROVE  new.events = EventsOf(h) /\ new.left \subseteq {e.task : e \in EventsOf(h)}
        BY <1>1, <1>3, <4>3 DEF IInv, JobsOK
      <4> QED BY <1>2, <1>6, <3>1, <4>2, <4>3
    <3>2. CASE g # h
      BY <1>6, <3>2 DEF IInv, JobsOK
    <3> QED BY <3>1, <3>2
  <2> QED BY <1>1, <1>7, <2>1 DEF IInv, JobsOK
<1>12. RowsOK'
  <2> SUFFICES ASSUME NEW k \in DOMAIN rows'
               PROVE  /\ k[1] \in aggregated
                      /\ rows'[k].idle <= RoundMinutes(HourTicks)
                      /\ k[1] \notin late =>
                           /\ Group(k[1], k[2]) # {}
                           /\ rows'[k].count = Cardinality(Group(k[1], k[2]))
                           /\ rows'[k].idle = IdleOfGroup(Group(k[1], k[2]), EndOf(k[1]))
    BY <1>1, <1>7 DEF RowsOK, Group
  <2>1. CASE k = key
    BY <1>2, <1>5, <1>6, <1>8, <2>1
  <2>2. CASE k # key
    BY <1>6, <2>2 DEF IInv, RowsOK
  <2> QED BY <2>1, <2>2
<1>13. NoneMissing'
  <2> SUFFICES ASSUME NEW g \in aggregated \ (late \cup broken), NEW e \in EventsOf(g)
               PROVE  <<g, e.task>> \in DOMAIN rows' \/ e.task \in job'[g].left
    BY <1>1, <1>7 DEF NoneMissing
  <2>1. <<g, e.task>> \in DOMAIN rows \/ e.task \in job[g].left
    BY DEF IInv, NoneMissing
  <2>2. CASE g = h
    BY <1>3, <1>6, <2>1, <2>2
  <2>3. CASE g # h
    BY <1>6, <2>1, <2>3 DEF IInv, TypeOK
  <2> QED BY <2>2, <2>3
<1> QED BY <1>9, <1>10, <1>11, <1>12, <1>13 DEF IInv

LEMMA AggregationFailsStep ==
  ASSUME NEW h \in Hour PROVE IInv /\ AggregationFails(h) => IInv'
<1> SUFFICES ASSUME IInv, AggregationFails(h) PROVE IInv'
  OBVIOUS
<1>1. /\ job' = [job EXCEPT ![h] = NoJob] /\ broken' = broken \cup {h}
      /\ UNCHANGED <<now, held, stored, rows, aggregated, late>>
  BY DEF AggregationFails
<1>2. /\ job \in [Hour -> [events : SUBSET Event, left : SUBSET Tasks]]
      /\ NoJob \in [events : SUBSET Event, left : SUBSET Tasks]
  BY DEF IInv, TypeOK, NoJob
<1>3. job'[h] = NoJob /\ \A g \in Hour \ {h} : job'[g] = job[g]
  BY <1>1, <1>2
<1>4. \A g : EventsOf(g)' = EventsOf(g)
  BY <1>1 DEF EventsOf
<1>5. TypeOK'
  BY <1>1, <1>2 DEF IInv, TypeOK
<1>6. EventsOK' /\ RowsOK'
  BY <1>1, <1>4 DEF IInv, EventsOK, RowsOK, Group
<1>7. JobsOK'
  <2>1. ASSUME NEW g \in Hour
        PROVE  /\ job'[g].left # {} => g \in aggregated
               /\ IsFiniteSet(job'[g].events)
               /\ \A e \in job'[g].events : StartOf(g) <= e.at /\ e.at < EndOf(g)
               /\ g \notin late /\ job'[g].left # {} =>
                    /\ job'[g].events = EventsOf(g)
                    /\ job'[g].left \subseteq {e.task : e \in EventsOf(g)}
    <3>1. CASE g = h
      BY <1>3, <3>1, FS_EmptySet DEF NoJob
    <3>2. CASE g # h
      BY <1>3, <3>2 DEF IInv, JobsOK
    <3> QED BY <3>1, <3>2
  <2> QED BY <1>1, <1>4, <2>1 DEF IInv, JobsOK
<1>8. NoneMissing'
  BY <1>1, <1>3, <1>4 DEF IInv, NoneMissing, TypeOK
<1> QED BY <1>5, <1>6, <1>7, <1>8 DEF IInv

LEMMA NewDayStep == IInv /\ NewDay => IInv'
<1> SUFFICES ASSUME IInv, NewDay PROVE IInv'
  OBVIOUS
<1>1. /\ held = {} /\ \A h \in Hour : job[h].left = {}
      /\ now' = 0 /\ stored' = {} /\ rows' = << >> /\ DOMAIN rows' = {}
      /\ aggregated' = {} /\ late' = {} /\ broken' = {}
      /\ held' = held /\ job' = job
  BY DEF NewDay
<1>2. TypeOK'
  <2>1. DayEnd \in Nat
    BY ClockTypes DEF IInv
  <2>2. /\ rows' \in [DOMAIN rows' -> [count : Nat, idle : Nat]]
        /\ DOMAIN rows' \subseteq Hour \X Tasks
    BY <1>1
  <2> QED BY <1>1, <2>1, <2>2 DEF IInv, TypeOK
<1>3. EventsOK'
  BY <1>1, FS_EmptySet DEF EventsOK
<1>4. JobsOK'
  BY <1>1 DEF IInv, JobsOK
<1>5. RowsOK' /\ NoneMissing'
  BY <1>1 DEF RowsOK, NoneMissing
<1> QED BY <1>2, <1>3, <1>4, <1>5 DEF IInv

LEMMA IInvHolds == Spec => []IInv
<1>1. IInv /\ [Next]_vars => IInv'
  <2> SUFFICES ASSUME IInv, [Next]_vars PROVE IInv'
    OBVIOUS
  <2>1. CASE Tick \/ Store \/ NewDay
    BY <2>1, TickStep, StoreStep, NewDayStep
  <2>2. ASSUME NEW task \in Tasks, Happens(task) PROVE IInv'
    BY <2>2, HappensStep
  <2>3. ASSUME NEW h \in Hour, AggregateHour(h) \/ AggregationFails(h) PROVE IInv'
    BY <2>3, AggregateHourStep, AggregationFailsStep
  <2>4. ASSUME NEW h \in Hour, NEW task \in Tasks, WriteSummary(h, task) PROVE IInv'
    BY <2>4, WriteSummaryStep
  <2>5. CASE UNCHANGED vars
    BY <2>5 DEF vars, IInv, TypeOK, EventsOK, JobsOK, RowsOK, NoneMissing, Group, EventsOf
  <2> QED BY <2>1, <2>2, <2>3, <2>4, <2>5 DEF Next
<1> QED BY <1>1, InitIInv, PTL DEF Spec

-----------------------------------------------------------------------------
(* The theorems. *)

\* The dashboard's minutes of an hour are its idle ticks, rounded, whatever the
\* threshold is, however many events there are and however they fall on the
\* hours: cutting the intervals at the hours (getTodayActivityDashboard) neither
\* loses nor doubles a tick.  And the day's total is the time tracked at most,
\* up to half a minute for each hour.
THEOREM DashboardExact == Spec => []DashboardIdle
BY IInvHolds, IInvDashboard, PTL

\* A row of the hourly job is never more than an hour, nor more than what the
\* dashboard shows for the hour when it is about all of the hour's events.
THEOREM SummaryBounded == Spec => []SummaryWithinDashboard
BY IInvHolds, IInvSummary, PTL

\* What the administrator's view shows of an hour is all that was stored, once, where
\* nothing was stored late and no write of the job failed: of the hours that began on
\* what is today in India, and else of those summed up.
THEOREM ShownIsComplete == Spec => []ShownComplete
BY IInvHolds, IInvShown, PTL
=============================================================================
