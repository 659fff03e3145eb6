-------------------------- MODULE ArithmeticProofs --------------------------
(***************************************************************************)
(* What the other proofs rest on: sums over finite sets, the calendar      *)
(* arithmetic, and the halving schedule of the distro keeper for every     *)
(* start date, target date, maximum supply and period length.              *)
(***************************************************************************)
EXTENDS MintSchedule, Functions, FiniteSets, FiniteSetTheorems, WellFoundedInduction, TLAPS

(***************************************************************************)
(* Sums.  SumFunctionOnSet of the community modules folds over a set in    *)
(* the order in which CHOOSE picks the elements; the lemmas show that the  *)
(* order does not matter.                                                  *)
(*                                                                         *)
(* Proofs by induction look at a smallest counterexample, which a set of   *)
(* finite sets has: FiniteMinimal.                                         *)
(***************************************************************************)

Picked(s) == CHOOSE x \in s : TRUE

Rest(s) == s \ {Picked(s)}

\* The function the fold is defined by.
IsSum(g, f, S) ==
    g = [s \in SUBSET S |-> IF s = {} THEN 0 ELSE f[Picked(s)] + g[Rest(s)]]

\* A non-empty set of subsets of a finite set has a minimal member.
LEMMA FiniteMinimal ==
    ASSUME NEW S, IsFiniteSet(S), NEW T, T \subseteq SUBSET S, T # {}
    PROVE  \E x \in T : \A y \in T : y \subseteq x => y = x
<1>1. IsWellFoundedOn(StrictSubsetOrdering(S), SUBSET S)
  BY FS_StrictSubsetOrderingWellFounded, FS_FiniteSubsetsOfFinite
<1>2. \E x \in T : \A y \in T : ~ (<<y, x>> \in StrictSubsetOrdering(S))
  BY <1>1, WFMin
<1> QED
  BY <1>2 DEF StrictSubsetOrdering

\* The element a step of the fold takes is one of the set's.
LEMMA PickedIn ==
    ASSUME NEW s, s # {}
    PROVE  Picked(s) \in s /\ Rest(s) \subseteq s /\ Rest(s) # s
  BY DEF Picked, Rest

\* SumFunctionOnSet, with the definitions of the community modules expanded.
LEMMA SumDef ==
    ASSUME NEW f, NEW S
    PROVE  SumFunctionOnSet(f, S) = (CHOOSE g : IsSum(g, f, S))[S]
  BY Zenon DEF SumFunctionOnSet, FoldFunctionOnSet, MapThenFoldSet, IsSum, Rest, Picked

\* The values of such a function do not depend on the set it is defined for.
LEMMA SumsAgree ==
    ASSUME NEW f, NEW S, IsFiniteSet(S), NEW T \in SUBSET S,
           NEW g, IsSum(g, f, S), NEW h, IsSum(h, f, T)
    PROVE  \A v \in SUBSET T : g[v] = h[v]
<1> DEFINE Bad == {v \in SUBSET T : g[v] # h[v]}
<1> SUFFICES ASSUME Bad # {} PROVE FALSE
  OBVIOUS
<1>1. PICK v \in Bad : \A w \in Bad : w \subseteq v => w = v
  <2>1. Bad \subseteq SUBSET S
    OBVIOUS
  <2> HIDE DEF Bad
  <2> QED
    BY <2>1, FiniteMinimal
<1>2. v \in SUBSET T /\ v \in SUBSET S /\ g[v] # h[v]
  OBVIOUS
<1>3. CASE v = {}
  BY <1>2, <1>3 DEF IsSum
<1>4. CASE v # {}
  <2>1. Rest(v) \subseteq v /\ Rest(v) # v
    BY <1>4, PickedIn
  <2>2. g[Rest(v)] = h[Rest(v)]
    BY <2>1, <1>1
  <2>3. g[v] = f[Picked(v)] + g[Rest(v)] /\ h[v] = f[Picked(v)] + h[Rest(v)]
    BY <1>2, <1>4 DEF IsSum
  <2> QED
    BY <1>2, <2>2, <2>3
<1> QED
  BY <1>3, <1>4

\* There is such a function.
LEMMA SumExists ==
    ASSUME NEW f, NEW S, IsFiniteSet(S)
    PROVE  \E g : IsSum(g, f, S)
<1> DEFINE Bad == {T \in SUBSET S : ~ \E g : IsSum(g, f, T)}
<1> SUFFICES ASSUME Bad # {} PROVE FALSE
  OBVIOUS
<1>1. PICK T \in Bad : \A U \in Bad : U \subseteq T => U = T
  <2>1. Bad \subseteq SUBSET S
    OBVIOUS
  <2> HIDE DEF Bad
  <2> QED
    BY <2>1, FiniteMinimal
<1> DEFINE H(u) == CHOOSE g : IsSum(g, f, u)
<1>2. \A u \in SUBSET T : u # T => IsSum(H(u), f, u)
  <2> SUFFICES ASSUME NEW u \in SUBSET T, u # T PROVE IsSum(H(u), f, u)
    OBVIOUS
  <2>1. \E g : IsSum(g, f, u)
    BY <1>1
  <2> QED
    BY <2>1
<1> HIDE DEF H
<1> DEFINE g == [s \in SUBSET T |-> IF s = {} THEN 0 ELSE f[Picked(s)] + H(Rest(s))[Rest(s)]]
<1>3. ASSUME NEW u \in SUBSET T, u # T PROVE g[u] = H(u)[u]
  <2>1. H(u) = [s \in SUBSET u |-> IF s = {} THEN 0 ELSE f[Picked(s)] + H(u)[Rest(s)]]
    BY <1>2, <1>3 DEF IsSum
  <2>2. CASE u = {}
    BY <2>1, <2>2
  <2>3. CASE u # {}
    <3>1. Rest(u) \subseteq u /\ Rest(u) # u
      BY <2>3, PickedIn
    <3>2. Rest(u) \in SUBSET T /\ Rest(u) # T
      BY <3>1
    <3>3. IsSum(H(Rest(u)), f, Rest(u)) /\ IsSum(H(u), f, u)
      BY <3>2, <1>2, <1>3
    <3>4. IsFiniteSet(u)
      BY FS_Subset
    <3>5. H(u)[Rest(u)] = H(Rest(u))[Rest(u)]
      BY <3>1, <3>3, <3>4, SumsAgree
    <3>6. H(u)[u] = f[Picked(u)] + H(u)[Rest(u)]
      BY <2>1, <2>3
    <3> QED
      BY <3>5, <3>6, <2>3
  <2> QED
    BY <2>2, <2>3
<1>4. IsSum(g, f, T)
  <2> SUFFICES ASSUME NEW s \in SUBSET T, s # {}
               PROVE  H(Rest(s))[Rest(s)] = g[Rest(s)]
    BY DEF IsSum
  <2>1. Rest(s) \subseteq T /\ Rest(s) # T
    BY PickedIn
  <2> QED
    BY <2>1, <1>3
<1> QED
  BY <1>1, <1>4

\* The recursion equation of the sum.
LEMMA SumRecursion ==
    ASSUME NEW f, NEW S, IsFiniteSet(S)
    PROVE  /\ S = {} => SumFunctionOnSet(f, S) = 0
           /\ S # {} => SumFunctionOnSet(f, S) =
                            f[Picked(S)] + SumFunctionOnSet(f, Rest(S))
<1> DEFINE H(u) == CHOOSE g : IsSum(g, f, u)
<1>1. \A u : IsFiniteSet(u) => IsSum(H(u), f, u)
  BY SumExists
<1>2. \A u : SumFunctionOnSet(f, u) = H(u)[u]
  BY SumDef
<1> HIDE DEF H
<1>3. H(S) = [s \in SUBSET S |-> IF s = {} THEN 0 ELSE f[Picked(s)] + H(S)[Rest(s)]]
  BY <1>1 DEF IsSum
<1>4. S = {} => H(S)[S] = 0
  BY <1>3
<1>5. ASSUME S # {} PROVE H(S)[S] = f[Picked(S)] + H(Rest(S))[Rest(S)]
  <2>1. Rest(S) \in SUBSET S
    BY <1>5, PickedIn
  <2>2. IsFiniteSet(Rest(S))
    BY <2>1, FS_Subset
  <2>3. H(S)[Rest(S)] = H(Rest(S))[Rest(S)]
    BY <2>1, <2>2, <1>1, SumsAgree
  <2> QED
    BY <2>3, <1>3, <1>5
<1> QED
  BY <1>2, <1>4, <1>5

\* A sum of integers is an integer, one of natural numbers a natural number.
LEMMA SumType ==
    ASSUME NEW S, IsFiniteSet(S), NEW f, NEW N \in {Nat, Int}, \A x \in S : f[x] \in N
    PROVE  SumFunctionOnSet(f, S) \in N
<1>0. 0 \in N /\ \A i, j \in N : i + j \in N
  <2>1. CASE N = Nat
    BY <2>1
  <2>2. CASE N = Int
    BY <2>2
  <2> QED
    BY <2>1, <2>2
<1> DEFINE Bad == {T \in SUBSET S : SumFunctionOnSet(f, T) \notin N}
<1> SUFFICES ASSUME Bad # {} PROVE FALSE
  OBVIOUS
<1>1. PICK T \in Bad : \A U \in Bad : U \subseteq T => U = T
  <2>1. Bad \subseteq SUBSET S
    OBVIOUS
  <2> HIDE DEF Bad
  <2> QED
    BY <2>1, FiniteMinimal
<1>2. IsFiniteSet(T)
  BY FS_Subset
<1>3. T # {}
  BY <1>0, <1>2, SumRecursion
<1>4. Picked(T) \in T /\ Rest(T) \subseteq T /\ Rest(T) # T
  BY <1>3, PickedIn
<1>5. SumFunctionOnSet(f, Rest(T)) \in N /\ f[Picked(T)] \in N
  BY <1>1, <1>4
<1>6. SumFunctionOnSet(f, T) = f[Picked(T)] + SumFunctionOnSet(f, Rest(T))
  BY <1>2, <1>3, SumRecursion
<1> QED
  BY <1>0, <1>5, <1>6

\* Functions that agree on the set have the same sum.
LEMMA SumCongruence ==
    ASSUME NEW S, IsFiniteSet(S), NEW f, NEW g, \A x \in S : f[x] = g[x]
    PROVE  SumFunctionOnSet(f, S) = SumFunctionOnSet(g, S)
<1> DEFINE Bad == {T \in SUBSET S : SumFunctionOnSet(f, T) # SumFunctionOnSet(g, T)}
<1> SUFFICES ASSUME Bad # {} PROVE FALSE
  OBVIOUS
<1>1. PICK T \in Bad : \A U \in Bad : U \subseteq T => U = T
  <2>1. Bad \subseteq SUBSET S
    OBVIOUS
  <2> HIDE DEF Bad
  <2> QED
    BY <2>1, FiniteMinimal
<1>2. IsFiniteSet(T)
  BY FS_Subset
<1>3. T # {}
  BY <1>2, SumRecursion
<1>4. Picked(T) \in T /\ Rest(T) \subseteq T /\ Rest(T) # T
  BY <1>3, PickedIn
<1>5. SumFunctionOnSet(f, Rest(T)) = SumFunctionOnSet(g, Rest(T)) /\ f[Picked(T)] = g[Picked(T)]
  BY <1>1, <1>4
<1>6. /\ SumFunctionOnSet(f, T) = f[Picked(T)] + SumFunctionOnSet(f, Rest(T))
      /\ SumFunctionOnSet(g, T) = g[Picked(T)] + SumFunctionOnSet(g, Rest(T))
  BY <1>2, <1>3, SumRecursion
<1> QED
  BY <1>5, <1>6

\* Any element can be taken out first.
LEMMA SumRemove ==
    ASSUME NEW S, IsFiniteSet(S), NEW f, \A x \in S : f[x] \in Int, NEW a \in S
    PROVE  SumFunctionOnSet(f, S) = f[a] + SumFunctionOnSet(f, S \ {a})
<1> DEFINE Sum(T) == SumFunctionOnSet(f, T)
           Bad == {T \in SUBSET S : \E b \in T : Sum(T) # f[b] + Sum(T \ {b})}
<1> HIDE DEF Sum
<1> SUFFICES ASSUME Bad # {} PROVE FALSE
  BY DEF Sum
<1>1. PICK T \in Bad : \A U \in Bad : U \subseteq T => U = T
  <2>1. Bad \subseteq SUBSET S
    OBVIOUS
  <2> HIDE DEF Bad
  <2> QED
    BY <2>1, FiniteMinimal
<1>2. PICK b \in T : Sum(T) # f[b] + Sum(T \ {b})
  OBVIOUS
<1> DEFINE p == Picked(T)
           U == T \ {b}
           V == T \ {p}
<1>3. p \in T /\ Rest(T) = V
  BY PickedIn DEF Rest
<1>4. IsFiniteSet(T)
  BY FS_Subset
<1>5. Sum(T) = f[p] + Sum(V)
  BY <1>3, <1>4, SumRecursion DEF Sum
<1> HIDE DEF p
<1>6. b # p
  BY <1>2, <1>5
<1>7. \A W \in SUBSET T : W # T => \A c \in W : Sum(W) = f[c] + Sum(W \ {c})
  BY <1>1
<1>8. V \in SUBSET T /\ V # T /\ b \in V /\ U \in SUBSET T /\ U # T /\ p \in U
  BY <1>3, <1>6
<1>9. Sum(V) = f[b] + Sum(V \ {b}) /\ Sum(U) = f[p] + Sum(U \ {p})
  BY <1>7, <1>8
<1>10. V \ {b} = U \ {p} /\ f[b] \in Int /\ f[p] \in Int
  BY <1>3
<1>11. Sum(V \ {b}) \in Int
  <2>1. V \ {b} \subseteq S /\ IsFiniteSet(V \ {b})
    BY FS_Subset
  <2> QED
    BY <2>1, SumType DEF Sum
<1>12. Sum(T) = f[p] + (f[b] + Sum(V \ {b}))
  BY <1>5, <1>9
<1>13. f[b] + Sum(U) = f[b] + (f[p] + Sum(V \ {b}))
  BY <1>9, <1>10
<1> HIDE DEF U, V
<1>14. Sum(T) = f[b] + Sum(U)
  BY <1>10, <1>11, <1>12, <1>13
<1> QED
  BY <1>2, <1>14 DEF U

\* A value that changes changes the sum by as much.
LEMMA SumUpdate ==
    ASSUME NEW S, IsFiniteSet(S), NEW f, NEW g, NEW a \in S,
           \A x \in S : f[x] \in Int /\ g[x] \in Int,
           \A x \in S \ {a} : g[x] = f[x]
    PROVE  SumFunctionOnSet(g, S) = SumFunctionOnSet(f, S) - f[a] + g[a]
<1>1. IsFiniteSet(S \ {a})
  BY FS_Subset
<1>2. /\ SumFunctionOnSet(f, S) = f[a] + SumFunctionOnSet(f, S \ {a})
      /\ SumFunctionOnSet(g, S) = g[a] + SumFunctionOnSet(g, S \ {a})
  BY SumRemove
<1>3. SumFunctionOnSet(f, S \ {a}) = SumFunctionOnSet(g, S \ {a})
  BY <1>1, SumCongruence
<1>4. SumFunctionOnSet(f, S \ {a}) \in Int
  BY <1>1, SumType
<1> QED
  BY <1>2, <1>3, <1>4

\* What is moved from one place to another leaves the sum as it is.
LEMMA SumMove ==
    ASSUME NEW S, IsFiniteSet(S), NEW f, NEW g, NEW a \in S, NEW b \in S, a # b, NEW n \in Int,
           \A x \in S : f[x] \in Int,
           \A x \in S : g[x] = IF x = a THEN f[x] - n ELSE IF x = b THEN f[x] + n ELSE f[x]
    PROVE  SumFunctionOnSet(g, S) = SumFunctionOnSet(f, S)
<1> DEFINE h == [x \in S |-> IF x = a THEN f[x] - n ELSE f[x]]
<1>1. SumFunctionOnSet(h, S) = SumFunctionOnSet(f, S) - f[a] + (f[a] - n)
  <2>1. \A x \in S : h[x] \in Int
    OBVIOUS
  <2>2. h[a] = f[a] - n /\ \A x \in S \ {a} : h[x] = f[x]
    OBVIOUS
  <2> HIDE DEF h
  <2> QED
    BY <2>1, <2>2, SumUpdate
<1>2. SumFunctionOnSet(g, S) = SumFunctionOnSet(h, S) - f[b] + (f[b] + n)
  <2>1. \A x \in S : h[x] \in Int /\ g[x] \in Int
    OBVIOUS
  <2>2. h[b] = f[b] /\ g[b] = f[b] + n /\ \A x \in S \ {b} : g[x] = h[x]
    OBVIOUS
  <2> HIDE DEF h
  <2> QED
    BY <2>1, <2>2, SumUpdate
<1>3. SumFunctionOnSet(f, S) \in Int
  BY SumType
<1> QED
  BY <1>1, <1>2, <1>3

\* No part is larger than the whole.
LEMMA SumBound ==
    ASSUME NEW S, IsFiniteSet(S), NEW f, \A x \in S : f[x] \in Nat, NEW a \in S
    PROVE  f[a] <= SumFunctionOnSet(f, S)
<1>1. IsFiniteSet(S \ {a})
  BY FS_Subset
<1>2. SumFunctionOnSet(f, S \ {a}) \in Nat
  BY <1>1, SumType
<1>3. SumFunctionOnSet(f, S) = f[a] + SumFunctionOnSet(f, S \ {a})
  BY SumRemove
<1> QED
  BY <1>2, <1>3

(***************************************************************************)
(* Calendar arithmetic: adding months, counting months, numbering days.    *)
(***************************************************************************)

\* Months from January of year 0: the month a date lies in, as one number.
MonthIndex(t) == 12 * t.year + t.month - 1

\* Splitting a count of months into years and months, as addMonths does, loses
\* nothing.
LEMMA DivMod12 ==
    ASSUME NEW k \in Nat
    PROVE  k \div 12 \in Nat /\ k % 12 \in 0..11 /\ k = 12 * (k \div 12) + (k % 12)
OBVIOUS

\* time.Date(y, m+1, 0).Day(), the last day of a month, is between 28 and 31.
LEMMA LastDayRange ==
    ASSUME NEW y, NEW m
    PROVE  LastDay(y, m) \in 28..31
BY DEF LastDay

\* addMonths returns a calendar date exactly n months on, with the day clamped
\* to the end of the month it lands in.
LEMMA AddMonthsDate ==
    ASSUME NEW t \in Date, NEW n \in Nat
    PROVE  /\ addMonths(t, n) \in Date
           /\ MonthIndex(addMonths(t, n)) = MonthIndex(t) + n
           /\ LET r == addMonths(t, n)
              IN  r.day = IF t.day > LastDay(r.year, r.month)
                          THEN LastDay(r.year, r.month) ELSE t.day
<1> DEFINE i == t.month + n - 1
<1>1. /\ t.year \in Nat /\ t.month \in 1..12 /\ t.day \in 1..31
  BY DEF Date
<1>2. i \in Nat
  BY <1>1
<1> HIDE DEF i
<1>3. PICK q \in Nat, r \in 0..11 : q = i \div 12 /\ r = i % 12 /\ i = 12 * q + r
  BY <1>2, DivMod12
<1> DEFINE y == t.year + q
           m == r + 1
           d == IF t.day > LastDay(y, m) THEN LastDay(y, m) ELSE t.day
<1>4. Quo(i, 12) = q /\ Rem(i, 12) = r
  BY <1>2, <1>3 DEF Quo, Rem
<1>5. addMonths(t, n) = [year |-> y, month |-> m, day |-> d]
  <2>1. addMonths(t, n) =
           LET m0 == Rem(i, 12) + 1
               yy == t.year + Quo(i, 12) - (IF m0 < 1 THEN 1 ELSE 0)
               mm == IF m0 < 1 THEN m0 + 12 ELSE m0
               last == LastDay(yy, mm)
           IN  [year |-> yy, month |-> mm, day |-> IF t.day > last THEN last ELSE t.day]
    BY Zenon DEF addMonths, i
  <2>2. ~(r + 1 < 1) /\ t.year + q - 0 = t.year + q
    BY <1>1, <1>3
  <2> QED
    BY <1>4, <2>1, <2>2
<1>6. y \in Nat /\ m \in 1..12 /\ d \in 1..31 /\ d <= LastDay(y, m)
  BY <1>1, <1>3, LastDayRange
<1>7. 12 * y + m - 1 = 12 * t.year + t.month - 1 + n
  <2>1. t.month + n - 1 = 12 * q + r
    BY <1>3 DEF i
  <2> QED
    BY <1>1, <2>1
<1> HIDE DEF y, m, d
<1>8. addMonths(t, n) \in Date
  BY <1>5, <1>6 DEF Date
<1>9. MonthIndex(addMonths(t, n)) = MonthIndex(t) + n
  BY <1>5, <1>7 DEF MonthIndex
<1> QED
  BY <1>5, <1>8, <1>9 DEF d

\* time.Time.Before compares the month count first and the day second.
LEMMA BeforeByMonth ==
    ASSUME NEW a \in Date, NEW b \in Date
    PROVE  /\ MonthIndex(a) \in Nat /\ MonthIndex(b) \in Nat
           /\ Before(a, b) <=> \/ MonthIndex(a) < MonthIndex(b)
                               \/ MonthIndex(a) = MonthIndex(b) /\ a.day < b.day
           /\ MonthIndex(a) = MonthIndex(b) => a.year = b.year /\ a.month = b.month
<1>1. /\ a.year \in Nat /\ a.month \in 1..12 /\ a.day \in 1..31
      /\ b.year \in Nat /\ b.month \in 1..12 /\ b.day \in 1..31
  BY DEF Date
<1> QED
  BY <1>1, SMTT(60) DEF Before, MonthIndex

\* monthsBetween is the inverse of addMonths, rounded down: adding the months it
\* counts stays on or before the target, and one month more goes past it.  The
\* month-end rule of monthsBetween matches the clamping of addMonths exactly.
THEOREM MonthsBracketDate ==
    ASSUME NEW start \in Date, NEW target \in Date, ~Before(target, start)
    PROVE  LET n == monthsBetween(start, target)
           IN  /\ n \in Nat
               /\ ~Before(target, addMonths(start, n))
               /\ Before(target, addMonths(start, n + 1))
<1> DEFINE months == MonthIndex(target) - MonthIndex(start)
           short == target.day < start.day /\ target.day # LastDay(target.year, target.month)
           n == IF short THEN months - 1 ELSE months
           last == LastDay(target.year, target.month)
<1>1. /\ start.year \in Nat /\ start.month \in 1..12 /\ start.day \in 1..31
      /\ target.year \in Nat /\ target.month \in 1..12 /\ target.day \in 1..31
      /\ target.day <= last /\ last \in 28..31
  BY LastDayRange DEF Date
<1>2. /\ MonthIndex(start) \in Nat /\ MonthIndex(target) \in Nat
      /\ MonthIndex(start) <= MonthIndex(target)
      /\ MonthIndex(start) = MonthIndex(target) => start.day <= target.day
  BY <1>1, BeforeByMonth
<1>3. n \in Nat
  BY <1>1, <1>2
<1>4. monthsBetween(start, target) = n
  <2>1. (target.year - start.year) * 12 + target.month - start.month = months
    BY <1>1 DEF MonthIndex
  <2>2. monthsBetween(start, target) =
           IF (IF short THEN months - 1 ELSE months) < 0 THEN 0
           ELSE IF short THEN months - 1 ELSE months
    BY <2>1 DEF monthsBetween
  <2> QED
    BY <1>3, <2>2
<1> DEFINE a == addMonths(start, n)
           b == addMonths(start, n + 1)
<1>5. /\ a \in Date /\ MonthIndex(a) = MonthIndex(start) + n
      /\ a.day = IF start.day > LastDay(a.year, a.month)
                 THEN LastDay(a.year, a.month) ELSE start.day
  BY <1>3, AddMonthsDate
<1>6. /\ b \in Date /\ MonthIndex(b) = MonthIndex(start) + n + 1
      /\ b.day = IF start.day > LastDay(b.year, b.month)
                 THEN LastDay(b.year, b.month) ELSE start.day
  <2>1. n + 1 \in Nat
    BY <1>3
  <2>2. MonthIndex(start) + (n + 1) = MonthIndex(start) + n + 1
    BY <1>2, <1>3
  <2> HIDE DEF n
  <2>3. /\ b \in Date /\ MonthIndex(b) = MonthIndex(start) + (n + 1)
        /\ b.day = IF start.day > LastDay(b.year, b.month)
                   THEN LastDay(b.year, b.month) ELSE start.day
    BY <2>1, AddMonthsDate
  <2> QED
    BY <2>2, <2>3
<1> HIDE DEF a, b, last
<1>7. CASE short
  <2>1. n = months - 1
    BY <1>7
  <2>2. MonthIndex(a) < MonthIndex(target) /\ MonthIndex(b) = MonthIndex(target)
    BY <1>2, <1>5, <1>6, <2>1
  <2>3. LastDay(b.year, b.month) = last
    BY <2>2, <1>6, BeforeByMonth DEF last
  <2>4. target.day < b.day
    BY <1>1, <1>6, <1>7, <2>3 DEF last
  <2> QED
    BY <1>3, <1>4, <1>5, <1>6, <2>2, <2>4, BeforeByMonth DEF a, b
<1>8. CASE ~short
  <2>1. n = months
    BY <1>8
  <2>2. MonthIndex(a) = MonthIndex(target) /\ MonthIndex(target) < MonthIndex(b)
    BY <1>2, <1>5, <1>6, <2>1
  <2>3. LastDay(a.year, a.month) = last
    BY <2>2, <1>5, BeforeByMonth DEF last
  <2>4. a.day <= target.day
    BY <1>1, <1>5, <1>8, <2>3 DEF last
  <2>5. a.day \in Int /\ target.day \in Int
    BY <1>1, <1>5 DEF Date
  <2> QED
    BY <1>3, <1>4, <1>5, <1>6, <2>2, <2>4, <2>5, BeforeByMonth DEF a, b
<1> QED
  BY <1>7, <1>8

\* addMonths with more months gives a later date, clamping notwithstanding.
LEMMA AddMonthsMonotone ==
    ASSUME NEW t \in Date, NEW i \in Nat, NEW j \in Nat, i < j
    PROVE  Before(addMonths(t, i), addMonths(t, j))
<1> DEFINE a == addMonths(t, i)
           b == addMonths(t, j)
<1>1. a \in Date /\ MonthIndex(a) = MonthIndex(t) + i
  BY AddMonthsDate
<1>2. b \in Date /\ MonthIndex(b) = MonthIndex(t) + j
  BY AddMonthsDate
<1>3. MonthIndex(t) \in Nat
  BY BeforeByMonth
<1> QED
  BY <1>1, <1>2, <1>3, BeforeByMonth

\* A year of the day count has 366 days if it is a leap year, else 365.
LEMMA YearLength ==
    ASSUME NEW y \in Nat
    PROVE  /\ DaysBeforeYear(y) \in Nat
           /\ DaysBeforeYear(y + 1) = DaysBeforeYear(y) + (IF IsLeap(y) THEN 366 ELSE 365)
BY DEF DaysBeforeYear, IsLeap

\* The day count of a later year begins after the earlier year has ended.
LEMMA YearsAscend ==
    ASSUME NEW y \in Nat, NEW z \in Nat, y < z
    PROVE  DaysBeforeYear(y + 1) <= DaysBeforeYear(z)
BY DEF DaysBeforeYear

\* Within a year, a later month begins after an earlier month has ended.
LEMMA MonthsAscend ==
    ASSUME NEW y \in Nat, NEW m \in 1..12, NEW k \in 1..12, m < k
    PROVE  DaysBeforeMonth(y, m) + LastDay(y, m) <= DaysBeforeMonth(y, k)
BY DEF DaysBeforeMonth, LastDay

\* Every month ends within its year.
LEMMA MonthInYear ==
    ASSUME NEW y \in Nat, NEW m \in 1..12
    PROVE  /\ DaysBeforeMonth(y, m) \in Nat
           /\ DaysBeforeMonth(y, m) + LastDay(y, m) <= (IF IsLeap(y) THEN 366 ELSE 365)
BY DEF DaysBeforeMonth, LastDay

\* An earlier date has a smaller day number.
LEMMA BeforeImpliesEarlierDay ==
    ASSUME NEW a \in Date, NEW b \in Date, Before(a, b)
    PROVE  DayNumber(a) < DayNumber(b)
<1> DEFINE ya == DaysBeforeYear(a.year)
           yb == DaysBeforeYear(b.year)
           ma == DaysBeforeMonth(a.year, a.month)
           mb == DaysBeforeMonth(b.year, b.month)
           la == LastDay(a.year, a.month)
           len == IF IsLeap(a.year) THEN 366 ELSE 365
<1>1. /\ a.year \in Nat /\ a.month \in 1..12 /\ a.day \in 1..31 /\ a.day <= la
      /\ b.year \in Nat /\ b.month \in 1..12 /\ b.day \in 1..31
  BY DEF Date
<1>2. /\ ya \in Nat /\ yb \in Nat /\ ma \in Nat /\ mb \in Nat /\ la \in Nat
      /\ DaysBeforeYear(a.year + 1) = ya + len
      /\ ma + la <= len /\ len \in Nat
  <2>1. ya \in Nat /\ yb \in Nat /\ DaysBeforeYear(a.year + 1) = ya + len
    BY <1>1, YearLength
  <2>2. ma \in Nat /\ mb \in Nat /\ ma + la <= len
    BY <1>1, MonthInYear
  <2>3. la \in Nat /\ len \in Nat
    BY LastDayRange
  <2> QED
    BY <2>1, <2>2, <2>3
<1>3. DayNumber(a) = ya + ma + a.day - 1 /\ DayNumber(b) = yb + mb + b.day - 1
  BY DEF DayNumber
<1>4. CASE a.year < b.year
  <2>1. ya + len <= yb
    BY <1>1, <1>2, <1>4, YearsAscend
  <2> HIDE DEF ya, yb, ma, mb, la, len
  <2> QED
    BY <1>1, <1>2, <1>3, <2>1
<1>5. CASE a.year = b.year /\ a.month < b.month
  <2>1. ma + la <= mb /\ ya = yb
    BY <1>1, <1>5, MonthsAscend
  <2> HIDE DEF ya, yb, ma, mb, la, len
  <2> QED
    BY <1>1, <1>2, <1>3, <2>1
<1>6. CASE a.year = b.year /\ a.month = b.month /\ a.day < b.day
  <2>1. ya = yb /\ ma = mb
    BY <1>6
  <2> HIDE DEF ya, yb, ma, mb, la, len
  <2> QED
    BY <1>1, <1>2, <1>3, <1>6, <2>1
<1> QED
  BY <1>4, <1>5, <1>6 DEF Before

\* The day numbers behind Sub(...).Hours()/24 order dates as Before does, so a
\* number of days between two dates in order is never negative.
THEOREM DayNumberOrder ==
    ASSUME NEW a \in Date, NEW b \in Date
    PROVE  /\ DayNumber(a) \in Nat
           /\ Before(a, b) <=> DayNumber(a) < DayNumber(b)
<1>1. /\ a.year \in Nat /\ a.month \in 1..12 /\ a.day \in 1..31
      /\ b.year \in Nat /\ b.month \in 1..12 /\ b.day \in 1..31
  BY DEF Date
<1>2. DayNumber(a) \in Nat /\ DayNumber(b) \in Nat
  <2>1. DaysBeforeYear(a.year) \in Nat /\ DaysBeforeYear(b.year) \in Nat
    BY <1>1, YearLength
  <2>2. /\ DaysBeforeMonth(a.year, a.month) \in Nat
        /\ DaysBeforeMonth(b.year, b.month) \in Nat
    BY <1>1, MonthInYear
  <2> QED
    BY <1>1, <2>1, <2>2 DEF DayNumber
<1>3. Before(a, b) \/ Before(b, a) \/ (a.year = b.year /\ a.month = b.month /\ a.day = b.day)
  BY <1>1 DEF Before
<1>4. CASE Before(a, b)
  BY <1>4, <1>2, BeforeImpliesEarlierDay
<1>5. CASE Before(b, a)
  <2>1. DayNumber(b) < DayNumber(a)
    BY <1>5, BeforeImpliesEarlierDay
  <2>2. ~Before(a, b)
    BY <1>1, <1>5 DEF Before
  <2> QED
    BY <1>2, <2>1, <2>2
<1>6. CASE a.year = b.year /\ a.month = b.month /\ a.day = b.day
  <2>1. DayNumber(a) = DayNumber(b)
    BY <1>6 DEF DayNumber
  <2>2. ~Before(a, b)
    BY <1>1, <1>6 DEF Before
  <2> QED
    BY <1>2, <2>1, <2>2
<1> QED
  BY <1>3, <1>4, <1>5, <1>6

-----------------------------------------------------------------------------
(***************************************************************************)
(* Powers of two.  The provers know 2^n only as the number of subsets of a *)
(* set of n elements.                                                      *)
(***************************************************************************)

\* A non-empty set of natural numbers has a least one.
LEMMA LeastNumber ==
    ASSUME NEW T, T \subseteq Nat, T # {}
    PROVE  \E n \in T : \A m \in T : n <= m
<1> DEFINE R == OpToRel(<, Nat)
<1>1. ASSUME NEW x \in Nat, NEW y \in Nat, y < x PROVE <<y, x>> \in R
  BY <1>1, Zenon DEF OpToRel
<1>2. IsWellFoundedOn(R, Nat)
  BY NatLessThanWellFounded
<1> HIDE DEF R
<1>3. \E x \in T : \A y \in T : ~ (<<y, x>> \in R)
  BY <1>2, WFMin
<1>4. PICK x \in T : \A y \in T : ~ (<<y, x>> \in R)
  BY <1>3
<1>5. \A y \in T : ~(y < x)
  BY <1>1, <1>4
<1>6. x \in Nat
  OBVIOUS
<1> QED
  BY <1>5, <1>6

\* The subsets of S with a further element: as many again as without it.
LEMMA SubsetsDouble ==
    ASSUME NEW S, IsFiniteSet(S), NEW x, x \notin S
    PROVE  Cardinality(SUBSET (S \cup {x})) = 2 * Cardinality(SUBSET S)
<1> DEFINE A == SUBSET S
           B == {s \cup {x} : s \in SUBSET S}
           f == [s \in A |-> s \cup {x}]
<1>1. IsFiniteSet(A) /\ Cardinality(A) \in Nat
  BY FS_SUBSET, FS_CardinalityType
<1>2. f \in Bijection(A, B)
  <2>1. f \in [A -> B]
    OBVIOUS
  <2>2. \A s, t \in A : f[s] = f[t] => s = t
    OBVIOUS
  <2>3. \A b \in B : \E s \in A : f[s] = b
    OBVIOUS
  <2> HIDE DEF A, B, f
  <2> QED
    BY <2>1, <2>2, <2>3 DEF Bijection, Injection, Surjection, IsInjective
<1>3. IsFiniteSet(B) /\ Cardinality(B) = Cardinality(A)
  BY <1>1, <1>2, FS_Bijection DEF ExistsBijection
<1>4. A \cap B = {}
  OBVIOUS
<1>5. A \cup B = SUBSET (S \cup {x})
  <2>1. ASSUME NEW T \in SUBSET (S \cup {x}) PROVE T \in A \cup B
    <3>1. CASE x \in T
      <4>1. T = (T \ {x}) \cup {x} /\ T \ {x} \in SUBSET S
        BY <3>1
      <4> QED
        BY <4>1
    <3>2. CASE x \notin T
      BY <3>2
    <3> QED
      BY <3>1, <3>2
  <2> QED
    BY <2>1
<1> HIDE DEF A, B
<1>6. Cardinality(A \cup B) = Cardinality(A) + Cardinality(B) - Cardinality(A \cap B)
  BY <1>1, <1>3, FS_Union
<1>7. Cardinality(A \cap B) = 0
  BY <1>4, FS_EmptySet
<1> QED
  <2>1. Cardinality(A \cup B) = 2 * Cardinality(A)
    BY <1>1, <1>3, <1>6, <1>7
  <2> QED
    BY <1>5, <2>1 DEF A

\* Powers of two, counted as subsets: the provers know no more of 2^n.
LEMMA PowerOfTwo ==
    ASSUME NEW n \in Nat
    PROVE  2^n \in Nat /\ 2^(n + 1) = 2 * 2^n
<1>1. /\ IsFiniteSet(1 .. n) /\ Cardinality(1 .. n) = n
      /\ IsFiniteSet(1 .. n + 1) /\ Cardinality(1 .. n + 1) = n + 1
  BY FS_Interval
<1>2. 1 .. n + 1 = (1 .. n) \cup {n + 1} /\ n + 1 \notin 1 .. n
  OBVIOUS
<1>3. Cardinality(SUBSET (1 .. n)) = 2^n /\ Cardinality(SUBSET (1 .. n + 1)) = 2^(n + 1)
  BY <1>1, FS_SUBSET
<1>4. Cardinality(SUBSET (1 .. n)) \in Nat
  BY <1>1, FS_SUBSET, FS_CardinalityType
<1>5. Cardinality(SUBSET (1 .. n + 1)) = 2 * Cardinality(SUBSET (1 .. n))
  BY <1>1, <1>2, SubsetsDouble
<1> QED
  BY <1>3, <1>4, <1>5

\* No power of two is zero.
LEMMA PowerPositive ==
    ASSUME NEW n \in Nat
    PROVE  2^n \in Nat \ {0}
<1> DEFINE Bad == {m \in Nat : 2^m = 0}
<1> SUFFICES ASSUME Bad # {} PROVE FALSE
  BY PowerOfTwo
<1>1. PICK m \in Bad : \A i \in Bad : m <= i
  <2>1. Bad \subseteq Nat
    OBVIOUS
  <2> HIDE DEF Bad
  <2> QED
    BY <2>1, LeastNumber
<1>2. m # 0
  <2>1. 2^0 # 0
    OBVIOUS
  <2> QED
    BY <2>1, Zenon
<1>3. m - 1 \in Nat /\ (m - 1) + 1 = m
  BY <1>2
<1>4. 2^m = 2 * 2^(m - 1) /\ 2^(m - 1) \in Nat
  BY <1>3, PowerOfTwo
<1>5. 2^(m - 1) = 0
  BY <1>4
<1> QED
  BY <1>1, <1>3, <1>5

\* Larger exponents give larger powers.
LEMMA PowerMonotone ==
    ASSUME NEW m \in Nat, NEW n \in Nat, m <= n
    PROVE  2^m <= 2^n
<1> DEFINE Bad == {i \in Nat : m <= i /\ ~(2^m <= 2^i)}
<1> SUFFICES ASSUME Bad # {} PROVE FALSE
  OBVIOUS
<1>1. PICK i \in Bad : \A j \in Bad : i <= j
  <2>1. Bad \subseteq Nat
    OBVIOUS
  <2> HIDE DEF Bad
  <2> QED
    BY <2>1, LeastNumber
<1>2. 2^m \in Nat /\ i # m
  BY PowerOfTwo
<1>3. i - 1 \in Nat /\ (i - 1) + 1 = i /\ m <= i - 1
  BY <1>2
<1>4. 2^i = 2 * 2^(i - 1) /\ 2^(i - 1) \in Nat
  BY <1>3, PowerOfTwo
<1>5. 2^m <= 2^(i - 1)
  BY <1>1, <1>3
<1> QED
  BY <1>2, <1>4, <1>5

\* A word holds at least one value.
LEMMA WordSize == 2^WordBits \in Nat \ {0} /\ Word \subseteq Nat
<1>1. 2^WordBits \in Nat \ {0}
  BY WidthAssumption, PowerPositive
<1> QED
  BY <1>1 DEF Word

-----------------------------------------------------------------------------
(***************************************************************************)
(* Periods and days.                                                       *)
(***************************************************************************)

\* Integer division brackets its dividend: the fact behind every use of / in
\* mint.go.
LEMMA DivBracket ==
    ASSUME NEW n \in Nat, NEW p \in Nat \ {0}
    PROVE  /\ n \div p \in Nat
           /\ (n \div p) * p <= n
           /\ n < (n \div p + 1) * p
<1>1. n = p * (n \div p) + (n % p) /\ n % p \in 0 .. p - 1 /\ n \div p \in Int
  OBVIOUS
<1>2. n \div p \in Nat
  OBVIOUS
<1> QED
  BY <1>1, <1>2

\* Before is a strict order on dates.
LEMMA BeforeOrder ==
    ASSUME NEW a \in Date, NEW b \in Date, NEW c \in Date
    PROVE  /\ Before(a, b) /\ Before(b, c) => Before(a, c)
           /\ ~Before(b, a) /\ ~Before(c, b) => ~Before(c, a)
           /\ ~Before(a, a)
<1>1. /\ a.year \in Nat /\ a.month \in 1..12 /\ a.day \in 1..31
      /\ b.year \in Nat /\ b.month \in 1..12 /\ b.day \in 1..31
      /\ c.year \in Nat /\ c.month \in 1..12 /\ c.day \in 1..31
  BY DEF Date
<1> QED
  BY <1>1 DEF Before

\* Adding no fewer months does not lead to an earlier date.
LEMMA AddMonthsWeaklyMonotone ==
    ASSUME NEW t \in Date, NEW i \in Nat, NEW j \in Nat, i <= j
    PROVE  ~Before(addMonths(t, j), addMonths(t, i))
<1>1. addMonths(t, i) \in Date /\ addMonths(t, j) \in Date
  BY AddMonthsDate
<1>2. CASE i = j
  BY <1>1, <1>2, BeforeOrder
<1>3. CASE i < j
  <2>1. Before(addMonths(t, i), addMonths(t, j))
    BY <1>3, AddMonthsMonotone
  <2> QED
    BY <1>1, <2>1, BeforeOrder
<1> QED
  BY <1>2, <1>3

\* The halving period calculateHalvingPeriod derives from the months elapsed is
\* the period whose boundary dates enclose the target: for every start date,
\* target and period length, month-end dates included.
THEOREM PeriodContainsTarget ==
    ASSUME NEW s \in Date, NEW t \in Date, NEW p \in Nat \ {0},
           ~Before(t, s)
    PROVE  LET k == currentHalvingPeriod(s, t, p)
           IN  k \in Nat \ {0} /\ InPeriod(s, p, t, k)
<1> DEFINE n == monthsBetween(s, t)
           q == n \div p
           k == currentHalvingPeriod(s, t, p)
<1>1. /\ n \in Nat
      /\ ~Before(t, addMonths(s, n))
      /\ Before(t, addMonths(s, n + 1))
  BY MonthsBracketDate
<1> HIDE DEF n
<1>2. q \in Nat /\ q * p <= n /\ n < (q + 1) * p
  BY <1>1, DivBracket
<1>3. k = 1 + q
  BY DEF currentHalvingPeriod, n
<1> HIDE DEF q, k
<1>4. q * p \in Nat /\ (q + 1) * p \in Nat /\ n + 1 <= (q + 1) * p
  BY <1>1, <1>2
<1>5. k \in Nat \ {0} /\ k - 1 = q /\ k + 1 - 1 = q + 1
  BY <1>2, <1>3
<1> DEFINE a == addMonths(s, q * p)
           b == addMonths(s, (q + 1) * p)
<1>6. periodStart(s, k, p) = a /\ periodStart(s, k + 1, p) = b
  BY <1>5 DEF periodStart
<1>7. a \in Date /\ b \in Date /\ addMonths(s, n) \in Date /\ addMonths(s, n + 1) \in Date
  BY <1>1, <1>4, AddMonthsDate
<1>8. ~Before(addMonths(s, n), a)
  BY <1>1, <1>2, <1>4, AddMonthsWeaklyMonotone
<1>9. ~Before(b, addMonths(s, n + 1))
  BY <1>1, <1>4, AddMonthsWeaklyMonotone
<1> HIDE DEF a, b
<1>10. ~Before(t, a)
  BY <1>1, <1>7, <1>8, BeforeOrder
<1>11. Before(t, b)
  <2>1. DayNumber(t) \in Nat /\ DayNumber(b) \in Nat /\ DayNumber(addMonths(s, n + 1)) \in Nat
    BY <1>7, DayNumberOrder
  <2>2. DayNumber(t) < DayNumber(addMonths(s, n + 1))
    BY <1>1, <1>7, DayNumberOrder
  <2>3. ~(DayNumber(b) < DayNumber(addMonths(s, n + 1)))
    BY <1>7, <1>9, DayNumberOrder
  <2>4. DayNumber(t) < DayNumber(b)
    BY <2>1, <2>2, <2>3
  <2> QED
    BY <2>4, <1>7, DayNumberOrder
<1> QED
  BY <1>5, <1>6, <1>10, <1>11 DEF InPeriod, k

\* Every halving period begins on a calendar date.
LEMMA PeriodStartDate ==
    ASSUME NEW s \in Date, NEW k \in Nat \ {0}, NEW p \in Nat \ {0}
    PROVE  periodStart(s, k, p) \in Date
<1>1. (k - 1) * p \in Nat
  OBVIOUS
<1>2. addMonths(s, (k - 1) * p) \in Date
  BY <1>1, AddMonthsDate
<1> QED
  BY <1>2 DEF periodStart

\* Inside the current period fewer days have elapsed than the period has, so
\* the clamp of daysElapsed in validateMintingLimits is never taken and the
\* division by daysInPeriod never divides by zero.
THEOREM ElapsedWithinPeriod ==
    ASSUME NEW s \in Date, NEW t \in Date, NEW p \in Nat \ {0},
           ~Before(t, s)
    PROVE  LET k == currentHalvingPeriod(s, t, p)
           IN  /\ rawDaysElapsed(s, t, k, p) \in Nat
               /\ daysInPeriod(s, k, p) \in Nat
               /\ rawDaysElapsed(s, t, k, p) < daysInPeriod(s, k, p)
               /\ daysElapsed(s, t, k, p) = rawDaysElapsed(s, t, k, p)
<1> DEFINE k == currentHalvingPeriod(s, t, p)
           a == periodStart(s, k, p)
           b == periodStart(s, k + 1, p)
<1>1. k \in Nat \ {0} /\ ~Before(t, a) /\ Before(t, b)
  BY PeriodContainsTarget DEF InPeriod
<1> HIDE DEF k
<1>2. k + 1 \in Nat \ {0}
  BY <1>1
<1>3. a \in Date /\ b \in Date
  BY <1>1, <1>2, PeriodStartDate
<1> HIDE DEF a, b
<1>4. /\ DayNumber(a) \in Nat /\ DayNumber(b) \in Nat /\ DayNumber(t) \in Nat
      /\ DayNumber(a) <= DayNumber(t) /\ DayNumber(t) < DayNumber(b)
  BY <1>1, <1>3, DayNumberOrder
<1>5. /\ rawDaysElapsed(s, t, k, p) = DaysBetween(DayNumber(a), DayNumber(t))
      /\ daysInPeriod(s, k, p) = 1 + DaysBetween(DayNumber(a), DayNumber(b) - 1)
  BY DEF rawDaysElapsed, daysInPeriod, a, b
<1>6. /\ rawDaysElapsed(s, t, k, p) \in Nat
      /\ daysInPeriod(s, k, p) \in Nat
      /\ rawDaysElapsed(s, t, k, p) < daysInPeriod(s, k, p)
  BY <1>4, <1>5, WidthAssumption DEF DaysBetween
<1>7. daysElapsed(s, t, k, p) = rawDaysElapsed(s, t, k, p)
  BY <1>6 DEF daysElapsed
<1> QED
  BY <1>6, <1>7 DEF k

\* A share e/d of a limit, with the product possibly reduced by wrap-around, is
\* at most the limit.
LEMMA ShareOfLimit ==
    ASSUME NEW limit \in Nat, NEW e \in Nat, NEW d \in Nat, e < d,
           NEW x \in Nat, x <= limit * e
    PROVE  x \div d \in Nat /\ x \div d <= limit
<1>1. d \in Nat \ {0}
  OBVIOUS
<1>2. x \div d \in Nat /\ (x \div d) * d <= x
  BY <1>1, DivBracket
<1>3. ASSUME limit < x \div d PROVE FALSE
  <2>1. (limit + 1) * d <= (x \div d) * d
    BY <1>2, <1>3
  <2>2. limit * e <= limit * d
    OBVIOUS
  <2>3. limit * d < (limit + 1) * d
    OBVIOUS
  <2> QED
    BY <1>2, <2>1, <2>2, <2>3
<1> QED
  BY <1>2, <1>3

\* What validateMintingLimits adds for the current period is at most the limit
\* of that period, even when limit * daysElapsed wraps around in uint64.
THEOREM AccrualWithinLimit ==
    ASSUME NEW s \in Date, NEW t \in Date, NEW p \in Nat \ {0},
           ~Before(t, s), NEW limit \in Nat
    PROVE  LET k == currentHalvingPeriod(s, t, p)
           IN  Wrap(limit * daysElapsed(s, t, k, p)) \div daysInPeriod(s, k, p)
                   \in 0 .. limit
<1> DEFINE k == currentHalvingPeriod(s, t, p)
           e == daysElapsed(s, t, k, p)
           d == daysInPeriod(s, k, p)
           w == Wrap(limit * e)
<1>1. e \in Nat /\ e < d
  BY ElapsedWithinPeriod
<1>2. d \in Nat
  BY ElapsedWithinPeriod
<1> HIDE DEF e, d
<1>3. w \in Nat /\ w <= limit * e
  BY <1>1, WordSize DEF Wrap
<1> HIDE DEF w
<1>4. w \div d \in Nat /\ w \div d <= limit
  BY <1>1, <1>2, <1>3, ShareOfLimit
<1> QED
  BY <1>4 DEF w, e, d

-----------------------------------------------------------------------------
(***************************************************************************)
(* The periods that have ended.                                            *)
(***************************************************************************)

\* The limit of a period is the supply halved as often as the period says,
\* rounded down.
LEMMA LimitBounds ==
    ASSUME NEW m \in Word, NEW p \in Nat \ {0}
    PROVE  LET l == halvingPeriodLimit(m, p)
           IN  l \in Nat /\ l * 2^p <= m /\ m < (l + 1) * 2^p
<1> DEFINE l == halvingPeriodLimit(m, p)
<1>1. m \in Nat /\ m < 2^WordBits
  BY WordSize DEF Word
<1>2. CASE p > WordBits
  <2>1. l = 0
    BY <1>2 DEF halvingPeriodLimit
  <2>2. 2^WordBits <= 2^p /\ 2^p \in Nat /\ 2^WordBits \in Nat
    BY <1>2, WidthAssumption, WordSize, PowerMonotone, PowerOfTwo
  <2> HIDE DEF l
  <2> QED
    BY <1>1, <2>1, <2>2 DEF l
<1>3. CASE ~(p > WordBits)
  <2> DEFINE x == 2^(p - 1)
             q == m \div x
             r == q \div 2
  <2>1. l = r
    BY <1>3 DEF halvingPeriodLimit
  <2>2. x \in Nat \ {0} /\ 2^p = 2 * x
    <3>1. p - 1 \in Nat /\ (p - 1) + 1 = p
      OBVIOUS
    <3> QED
      BY <3>1, PowerOfTwo, PowerPositive
  <2> HIDE DEF x
  <2>3. q \in Nat /\ q * x <= m /\ m < (q + 1) * x
    BY <1>1, <2>2, DivBracket
  <2> HIDE DEF q
  <2>4. r \in Nat /\ r * 2 <= q /\ q < (r + 1) * 2
    BY <2>3, DivBracket
  <2> HIDE DEF r, l
  <2>5. (r * 2) * x <= q * x /\ (q + 1) * x <= ((r + 1) * 2) * x
    BY <2>2, <2>3, <2>4
  <2>6. (r * 2) * x = r * (2 * x) /\ ((r + 1) * 2) * x = (r + 1) * (2 * x)
    BY <2>2, <2>4
  <2>7. r * (2 * x) <= m /\ m < (r + 1) * (2 * x)
    <3>1. q * x \in Nat /\ (q + 1) * x \in Nat /\ r * (2 * x) \in Nat /\ (r + 1) * (2 * x) \in Nat
      BY <2>2, <2>3, <2>4
    <3> QED
      BY <1>1, <2>3, <2>5, <2>6, <3>1
  <2> QED
    BY <2>1, <2>2, <2>4, <2>7 DEF l
<1> QED
  BY <1>2, <1>3

\* The totals of the loop after each of the first n periods.
IsTotal(g, m, n) ==
    g = [p \in 0 .. n |-> IF p = 0 THEN 0 ELSE Wrap(g[p - 1] + halvingPeriodLimit(m, p))]

\* There are such totals.
LEMMA TotalExists ==
    ASSUME NEW m, NEW n \in Nat
    PROVE  \E g : IsTotal(g, m, n)
<1> DEFINE Bad == {i \in Nat : ~ \E g : IsTotal(g, m, i)}
<1> SUFFICES ASSUME Bad # {} PROVE FALSE
  OBVIOUS
<1>1. PICK i \in Bad : \A j \in Bad : i <= j
  <2>1. Bad \subseteq Nat
    OBVIOUS
  <2> HIDE DEF Bad
  <2> QED
    BY <2>1, LeastNumber
<1>2. CASE i = 0
  <2>1. IsTotal([p \in 0 .. 0 |-> 0], m, 0)
    BY DEF IsTotal
  <2> QED
    BY <1>2, <2>1
<1>3. CASE i # 0
  <2>1. i - 1 \in Nat /\ ~(i <= i - 1)
    BY <1>3
  <2>2. PICK h : IsTotal(h, m, i - 1)
    BY <1>1, <2>1
  <2> DEFINE g == [p \in 0 .. i |-> IF p = i THEN Wrap(h[i - 1] + halvingPeriodLimit(m, i))
                                    ELSE h[p]]
             e == [p \in 0 .. i |-> IF p = 0 THEN 0
                                    ELSE Wrap(g[p - 1] + halvingPeriodLimit(m, p))]
  <2>3. ASSUME NEW p \in 0 .. i PROVE g[p] = e[p]
    <3>1. CASE p = i
      <4>1. i - 1 \in 0 .. i /\ i - 1 # i
        BY <1>3
      <4> QED
        BY <1>3, <3>1, <4>1
    <3>2. CASE p # i
      <4>1. p \in 0 .. i - 1
        BY <3>2
      <4>2. h[p] = IF p = 0 THEN 0 ELSE Wrap(h[p - 1] + halvingPeriodLimit(m, p))
        BY <2>2, <4>1 DEF IsTotal
      <4>3. p # 0 => p - 1 \in 0 .. i /\ p - 1 # i
        BY <4>1
      <4> QED
        BY <3>2, <4>2, <4>3
    <3> QED
      BY <3>1, <3>2
  <2>4. g = e
    BY <2>3
  <2>5. IsTotal(g, m, i)
    BY <2>4 DEF IsTotal
  <2> QED
    BY <2>5
<1> QED
  BY <1>2, <1>3

\* A longer loop has the same totals on the way.
LEMMA TotalsAgree ==
    ASSUME NEW m, NEW n \in Nat, NEW k \in Nat, n <= k,
           NEW g, IsTotal(g, m, n), NEW h, IsTotal(h, m, k)
    PROVE  g[n] = h[n]
<1> DEFINE Bad == {p \in 0 .. n : g[p] # h[p]}
<1> SUFFICES ASSUME Bad # {} PROVE FALSE
  OBVIOUS
<1>1. PICK p \in Bad : \A q \in Bad : p <= q
  <2>1. Bad \subseteq Nat
    OBVIOUS
  <2> HIDE DEF Bad
  <2> QED
    BY <2>1, LeastNumber
<1>2. p \in 0 .. n /\ p \in 0 .. k /\ g[p] # h[p]
  OBVIOUS
<1>3. /\ g[p] = IF p = 0 THEN 0 ELSE Wrap(g[p - 1] + halvingPeriodLimit(m, p))
      /\ h[p] = IF p = 0 THEN 0 ELSE Wrap(h[p - 1] + halvingPeriodLimit(m, p))
  BY <1>2 DEF IsTotal
<1>4. p # 0 /\ g[p - 1] # h[p - 1]
  BY <1>2, <1>3
<1>5. p - 1 \in 0 .. n /\ ~(p <= p - 1)
  BY <1>2, <1>4
<1> QED
  BY <1>1, <1>4, <1>5

\* The recursion of the loop, one period at a time.
LEMMA EarlierRecursion ==
    ASSUME NEW m, NEW k \in Nat \ {0}
    PROVE  /\ EarlierPeriods(m, 1) = 0
           /\ EarlierPeriods(m, k + 1)
                = Wrap(EarlierPeriods(m, k) + halvingPeriodLimit(m, k))
<1> DEFINE G(i) == CHOOSE g : IsTotal(g, m, i)
<1>1. \A i : EarlierPeriods(m, i) = G(i - 1)[i - 1]
  BY Zenon DEF EarlierPeriods, IsTotal
<1>2. \A i \in Nat : IsTotal(G(i), m, i)
  BY TotalExists
<1> HIDE DEF G
<1>3. EarlierPeriods(m, 1) = 0
  <2>1. IsTotal(G(0), m, 0) /\ EarlierPeriods(m, 1) = G(0)[0]
    BY <1>1, <1>2
  <2> QED
    BY <2>1 DEF IsTotal
<1>4. EarlierPeriods(m, k + 1) = Wrap(EarlierPeriods(m, k) + halvingPeriodLimit(m, k))
  <2>1. k - 1 \in Nat /\ k - 1 <= k /\ k \in 0 .. k /\ k # 0 /\ k + 1 - 1 = k
    OBVIOUS
  <2>2. IsTotal(G(k), m, k) /\ IsTotal(G(k - 1), m, k - 1)
    BY <1>2, <2>1
  <2>3. EarlierPeriods(m, k + 1) = G(k)[k] /\ EarlierPeriods(m, k) = G(k - 1)[k - 1]
    BY <1>1, <2>1
  <2>4. G(k)[k] = Wrap(G(k)[k - 1] + halvingPeriodLimit(m, k))
    BY <2>1, <2>2 DEF IsTotal
  <2>5. G(k - 1)[k - 1] = G(k)[k - 1]
    BY <2>1, <2>2, TotalsAgree
  <2> QED
    BY <2>3, <2>4, <2>5
<1> QED
  BY <1>3, <1>4

\* One period more: what is released stays within the share of the supply that
\* the halvings leave, and behind it by less than a token per period.
LEMMA HalvingStep ==
    ASSUME NEW m \in Nat, NEW t \in Nat, NEW l \in Nat, NEW j \in Nat, NEW x \in Nat \ {0},
           t * x <= m * (x - 1), m * (x - 1) <= (t + j) * x,
           l * (2 * x) <= m, m < (l + 1) * (2 * x)
    PROVE  /\ t + l <= m
           /\ (t + l) * (2 * x) <= m * (2 * x - 1)
           /\ m * (2 * x - 1) <= (t + l + (j + 1)) * (2 * x)
<1> DEFINE tx == t * x
           lx == l * x
           mx == m * x
           jx == j * x
<1>1. tx \in Nat /\ lx \in Nat /\ mx \in Nat /\ jx \in Nat
  OBVIOUS
<1>2. /\ m * (x - 1) = mx - m /\ (t + j) * x = tx + jx
      /\ l * (2 * x) = 2 * lx /\ (l + 1) * (2 * x) = 2 * lx + 2 * x
      /\ (t + l) * (2 * x) = 2 * tx + 2 * lx /\ m * (2 * x - 1) = 2 * mx - m
      /\ (t + l + (j + 1)) * (2 * x) = 2 * tx + 2 * lx + 2 * jx + 2 * x
  OBVIOUS
<1>3. tx <= mx - m /\ mx - m <= tx + jx /\ 2 * lx <= m /\ m < 2 * lx + 2 * x
  BY <1>2
<1>4. 2 * tx + 2 * lx <= 2 * mx - m /\ 2 * mx - m <= 2 * tx + 2 * lx + 2 * jx + 2 * x
  <2> HIDE DEF tx, lx, mx, jx
  <2> QED
    BY <1>1, <1>3
<1>5. ASSUME ~(t + l <= m) PROVE FALSE
  <2>1. m + 1 <= t + l
    BY <1>5
  <2>2. (m + 1) * x <= (t + l) * x
    BY <2>1
  <2>3. (m + 1) * x = mx + x /\ (t + l) * x = tx + lx
    OBVIOUS
  <2> HIDE DEF tx, lx, mx, jx
  <2> QED
    BY <1>1, <1>4, <2>2, <2>3
<1> QED
  BY <1>2, <1>4, <1>5

\* After k - 1 whole periods the loop has m * (1 - 1/2^(k-1)) tokens, up to
\* one per period, and never enough that adding the current period overflows.
THEOREM EarlierPeriodsBounds ==
    ASSUME NEW m \in Word, NEW k \in Nat \ {0}
    PROVE  LET total == EarlierPeriods(m, k)
               x == 2^(k - 1)
           IN  /\ total \in Nat
               /\ total * x <= m * (x - 1) /\ m * (x - 1) <= (total + (k - 1)) * x
               /\ total + halvingPeriodLimit(m, k) <= m
<1> DEFINE E(i) == EarlierPeriods(m, i)
           Good(i) == /\ E(i) \in Nat
                      /\ E(i) * 2^(i - 1) <= m * (2^(i - 1) - 1)
                      /\ m * (2^(i - 1) - 1) <= (E(i) + (i - 1)) * 2^(i - 1)
           Bad == {i \in Nat \ {0} : ~Good(i)}
<1>0. m \in Nat /\ m < 2^WordBits
  BY WordSize DEF Word
<1>1. ASSUME NEW i \in Nat \ {0}, Good(i)
      PROVE  E(i) + halvingPeriodLimit(m, i) <= m /\ Good(i + 1)
  <2> DEFINE x == 2^(i - 1)
             l == halvingPeriodLimit(m, i)
             t == E(i)
             j == i - 1
  <2>1. x \in Nat \ {0} /\ 2^i = 2 * x /\ j \in Nat
    <3>1. i - 1 \in Nat /\ (i - 1) + 1 = i
      OBVIOUS
    <3> QED
      BY <3>1, PowerOfTwo, PowerPositive
  <2>2. l \in Nat /\ l * 2^i <= m /\ m < (l + 1) * 2^i
    BY LimitBounds
  <2>3. t \in Nat /\ t * x <= m * (x - 1) /\ m * (x - 1) <= (t + j) * x
    BY <1>1
  <2>4. E(i + 1) = Wrap(t + l)
    BY EarlierRecursion
  <2>5. 2^(i + 1 - 1) = 2 * x /\ i + 1 - 1 = j + 1
    <3>1. i + 1 - 1 = i
      OBVIOUS
    <3> QED
      BY <2>1, <3>1
  <2> HIDE DEF x, l, t, j
  <2>6. l * (2 * x) <= m /\ m < (l + 1) * (2 * x)
    BY <2>1, <2>2
  <2>7. /\ t + l <= m
        /\ (t + l) * (2 * x) <= m * (2 * x - 1)
        /\ m * (2 * x - 1) <= (t + l + (j + 1)) * (2 * x)
    BY <1>0, <2>1, <2>2, <2>3, <2>6, HalvingStep
  <2>8. Wrap(t + l) = t + l
    BY <1>0, <2>2, <2>3, <2>7, WordSize DEF Wrap
  <2>9. E(i + 1) = t + l
    BY <2>4, <2>8
  <2> HIDE DEF E
  <2> QED
    BY <2>2, <2>3, <2>5, <2>7, <2>9 DEF l, t
<1>2. Bad = {}
  <2> SUFFICES ASSUME Bad # {} PROVE FALSE
    OBVIOUS
  <2>1. PICK i \in Bad : \A j \in Bad : i <= j
    <3>1. Bad \subseteq Nat
      OBVIOUS
    <3> HIDE DEF Bad
    <3> QED
      BY <3>1, LeastNumber
  <2>2. i \in Nat \ {0} /\ ~Good(i)
    OBVIOUS
  <2>3. CASE i = 1
    <3>1. E(1) = 0
      BY EarlierRecursion
    <3>2. 2^(1 - 1) = 1
      OBVIOUS
    <3> HIDE DEF E
    <3>3. Good(1)
      BY <1>0, <3>1, <3>2
    <3> HIDE DEF Good
    <3> QED
      BY <2>2, <2>3, <3>3
  <2>4. CASE i # 1
    <3> HIDE DEF Good
    <3>1. i - 1 \in Nat \ {0} /\ ~(i <= i - 1) /\ (i - 1) + 1 = i
      BY <2>2, <2>4
    <3>2. Good(i - 1)
      BY <2>1, <3>1
    <3>3. Good((i - 1) + 1)
      BY <1>1, <3>1, <3>2
    <3> QED
      BY <2>2, <3>1, <3>3
  <2> QED
    BY <2>3, <2>4
<1>3. Good(k)
  <2> HIDE DEF Good
  <2> QED
    BY <1>2
<1>4. E(k) + halvingPeriodLimit(m, k) <= m
  <2> HIDE DEF Good
  <2> QED
    BY <1>1, <1>3
<1> QED
  BY <1>3, <1>4

\* Later periods have at least the total of earlier ones, and the limit of a
\* period that has ended is part of it.
LEMMA EarlierAscends ==
    ASSUME NEW m \in Word, NEW i \in Nat \ {0}, NEW j \in Nat, i < j
    PROVE  EarlierPeriods(m, i) + halvingPeriodLimit(m, i) <= EarlierPeriods(m, j)
<1> DEFINE E(n) == EarlierPeriods(m, n)
           low == E(i) + halvingPeriodLimit(m, i)
           Bad == {n \in Nat : i < n /\ ~(low <= E(n))}
<1>1. \A n \in Nat \ {0} :
          /\ E(n) \in Nat /\ halvingPeriodLimit(m, n) \in Nat
          /\ E(n + 1) = E(n) + halvingPeriodLimit(m, n)
  <2> SUFFICES ASSUME NEW n \in Nat \ {0}
               PROVE  /\ E(n) \in Nat /\ halvingPeriodLimit(m, n) \in Nat
                      /\ E(n + 1) = E(n) + halvingPeriodLimit(m, n)
    OBVIOUS
  <2>1. E(n) \in Nat /\ E(n) + halvingPeriodLimit(m, n) <= m
    BY EarlierPeriodsBounds
  <2>2. halvingPeriodLimit(m, n) \in Nat
    BY LimitBounds
  <2>3. E(n + 1) = Wrap(E(n) + halvingPeriodLimit(m, n))
    BY EarlierRecursion
  <2>4. m < 2^WordBits /\ m \in Nat
    BY WordSize DEF Word
  <2> HIDE DEF E
  <2>5. Wrap(E(n) + halvingPeriodLimit(m, n)) = E(n) + halvingPeriodLimit(m, n)
    BY <2>1, <2>2, <2>4, WordSize DEF Wrap
  <2> QED
    BY <2>1, <2>2, <2>3, <2>5
<1> HIDE DEF E
<1> SUFFICES ASSUME Bad # {} PROVE FALSE
  BY DEF E
<1>2. PICK n \in Bad : \A q \in Bad : n <= q
  <2>1. Bad \subseteq Nat
    OBVIOUS
  <2> HIDE DEF Bad
  <2> QED
    BY <2>1, LeastNumber
<1>3. n - 1 \in Nat \ {0} /\ (n - 1) + 1 = n /\ ~(n <= n - 1) /\ i <= n - 1
  OBVIOUS
<1>4. E(n) = E(n - 1) + halvingPeriodLimit(m, n - 1) /\ E(n - 1) \in Nat
      /\ halvingPeriodLimit(m, n - 1) \in Nat
  BY <1>1, <1>3
<1>5. CASE i = n - 1
  BY <1>1, <1>4, <1>5
<1>6. CASE i # n - 1
  <2>1. low <= E(n - 1)
    BY <1>2, <1>3, <1>6
  <2>2. low \in Nat
    BY <1>1
  <2> HIDE DEF low
  <2>3. low <= E(n)
    BY <1>4, <2>1, <2>2
  <2> QED
    BY <2>3
<1> QED
  BY <1>5, <1>6

-----------------------------------------------------------------------------
(***************************************************************************)
(* The total and the release curve.                                        *)
(***************************************************************************)

\* Nothing wraps around in the sum of validateMintingLimits: the total is that
\* of the earlier periods and a share of the current one's limit, and at most
\* the maximum supply.
THEOREM TotalWithinSupply ==
    ASSUME NEW m \in Word, NEW s \in Date, NEW t \in Date, NEW p \in Nat \ {0}, ~Before(t, s)
    PROVE  LET k == currentHalvingPeriod(s, t, p)
               l == halvingPeriodLimit(m, k)
               d == daysInPeriod(s, k, p)
               share == Wrap(l * daysElapsed(s, t, k, p)) \div d
               total == totalDistributable(m, s, p, t)
           IN  /\ share \in 0 .. l
               /\ total = EarlierPeriods(m, k) + share
               /\ total \in 0 .. m
<1> DEFINE k == currentHalvingPeriod(s, t, p)
           l == halvingPeriodLimit(m, k)
           e == daysElapsed(s, t, k, p)
           d == daysInPeriod(s, k, p)
           share == Wrap(l * e) \div d
           E == EarlierPeriods(m, k)
<1>1. k \in Nat \ {0}
  BY PeriodContainsTarget
<1>2. l \in Nat
  BY <1>1, LimitBounds
<1>3. E \in Nat /\ E + l <= m
  BY <1>1, EarlierPeriodsBounds
<1>4. share \in 0 .. l
  BY <1>2, AccrualWithinLimit
<1>5. d # 0
  BY ElapsedWithinPeriod
<1>6. totalDistributable(m, s, p, t) = Wrap(E + share)
  BY <1>5 DEF totalDistributable
<1> HIDE DEF k, l, e, d, share, E
<1>7. m \in Nat /\ m < 2^WordBits
  BY WordSize DEF Word
<1>8. E + share \in 0 .. m
  BY <1>2, <1>3, <1>4, <1>7
<1>9. Wrap(E + share) = E + share
  BY <1>7, <1>8, WordSize DEF Wrap
<1> QED
  BY <1>4, <1>6, <1>8, <1>9 DEF k, l, e, d, share, E

\* The arithmetic of the upper bound.
LEMMA CurveUpper ==
    ASSUME NEW m \in Nat, NEW E \in Nat, NEW l \in Nat, NEW share \in Nat, NEW d \in Nat,
           NEW e \in Nat, NEW x \in Nat \ {0},
           E * x <= m * (x - 1), l * (2 * x) <= m, share * d <= l * e
    PROVE  (E + share) * (2 * x) * d <= m * ((2 * x - 2) * d + e)
<1>1. /\ E * x \in Nat /\ m * (x - 1) \in Nat /\ l * (2 * x) \in Nat /\ share * d \in Nat
      /\ l * e \in Nat /\ m * e \in Nat
  OBVIOUS
<1>2. (E * x) * (2 * d) <= (m * (x - 1)) * (2 * d)
  BY <1>1
<1>3. (share * d) * (2 * x) <= (l * e) * (2 * x)
  BY <1>1
<1>4. (l * (2 * x)) * e <= m * e
  BY <1>1
<1>5. (l * e) * (2 * x) = (l * (2 * x)) * e
  OBVIOUS
<1>6. (E + share) * (2 * x) * d = (E * x) * (2 * d) + (share * d) * (2 * x)
  OBVIOUS
<1>7. m * ((2 * x - 2) * d + e) = (m * (x - 1)) * (2 * d) + m * e
  OBVIOUS
<1> DEFINE a == (E * x) * (2 * d)
           b == (m * (x - 1)) * (2 * d)
           c == (share * d) * (2 * x)
           f == (l * e) * (2 * x)
           g == m * e
<1>8. a \in Nat /\ b \in Nat /\ c \in Nat /\ f \in Nat /\ g \in Nat
  BY <1>1
<1>9. a <= b /\ c <= f /\ f <= g
  BY <1>2, <1>3, <1>4, <1>5
<1>10. (E + share) * (2 * x) * d = a + c /\ m * ((2 * x - 2) * d + e) = b + g
  BY <1>6, <1>7
<1> HIDE DEF a, b, c, f, g
<1> QED
  BY <1>8, <1>9, <1>10

\* The arithmetic of the lower bound.
LEMMA CurveLower ==
    ASSUME NEW m \in Nat, NEW E \in Nat, NEW l \in Nat, NEW share \in Nat, NEW d \in Nat,
           NEW e \in Nat, NEW j \in Nat, NEW x \in Nat \ {0}, e < d,
           m * (x - 1) <= (E + j) * x, m < (l + 1) * (2 * x), l * e < (share + 1) * d
    PROVE  (E + share + (j + 2)) * (2 * x) * d > m * ((2 * x - 2) * d + e)
<1>1. /\ (E + j) * x \in Nat /\ m * (x - 1) \in Nat /\ (l + 1) * (2 * x) \in Nat
      /\ (share + 1) * d \in Nat /\ l * e \in Nat
  OBVIOUS
<1>2. (m * (x - 1)) * (2 * d) <= ((E + j) * x) * (2 * d)
  BY <1>1
<1>3. (l * e) * (2 * x) <= ((share + 1) * d) * (2 * x)
  BY <1>1
<1>4. m * e <= ((l + 1) * (2 * x)) * e
  BY <1>1
<1>5. (2 * x) * e < (2 * x) * d
  OBVIOUS
<1>6. ((l + 1) * (2 * x)) * e = (l * e) * (2 * x) + (2 * x) * e
  OBVIOUS
<1>7. (E + share + (j + 2)) * (2 * x) * d
        = ((E + j) * x) * (2 * d) + ((share + 1) * d) * (2 * x) + (2 * x) * d
  OBVIOUS
<1>8. m * ((2 * x - 2) * d + e) = (m * (x - 1)) * (2 * d) + m * e
  OBVIOUS
<1> DEFINE a == (m * (x - 1)) * (2 * d)
           b == ((E + j) * x) * (2 * d)
           c == (l * e) * (2 * x)
           f == ((share + 1) * d) * (2 * x)
           g == m * e
           h == (2 * x) * e
           i == (2 * x) * d
<1>9. a \in Nat /\ b \in Nat /\ c \in Nat /\ f \in Nat /\ g \in Nat /\ h \in Nat /\ i \in Nat
  BY <1>1
<1>10. a <= b /\ c <= f /\ g <= c + h /\ h < i
  BY <1>2, <1>3, <1>4, <1>5, <1>6
<1>11. (E + share + (j + 2)) * (2 * x) * d = b + f + i /\ m * ((2 * x - 2) * d + e) = a + g
  BY <1>7, <1>8
<1> HIDE DEF a, b, c, f, g, h, i
<1> QED
  BY <1>9, <1>10, <1>11

\* In a period no longer than a Duration the code counts its days exactly.
LEMMA DaysExact ==
    ASSUME NEW s \in Date, NEW t \in Date, NEW p \in Nat \ {0}, ~Before(t, s),
           PeriodFits(s, p, currentHalvingPeriod(s, t, p))
    PROVE  LET k == currentHalvingPeriod(s, t, p)
               first == DayNumber(periodStart(s, k, p))
           IN  /\ daysInPeriod(s, k, p) = DayNumber(periodStart(s, k + 1, p)) - first
               /\ daysElapsed(s, t, k, p) = DayNumber(t) - first
<1> DEFINE k == currentHalvingPeriod(s, t, p)
           a == periodStart(s, k, p)
           b == periodStart(s, k + 1, p)
<1>1. k \in Nat \ {0} /\ ~Before(t, a) /\ Before(t, b)
  BY PeriodContainsTarget DEF InPeriod
<1>2. DayNumber(b) - DayNumber(a) <= MaxDurationDays + 1
  BY DEF PeriodFits
<1>3. daysElapsed(s, t, k, p) = rawDaysElapsed(s, t, k, p)
  BY ElapsedWithinPeriod
<1> HIDE DEF k
<1>4. k + 1 \in Nat \ {0}
  BY <1>1
<1>5. a \in Date /\ b \in Date
  BY <1>1, <1>4, PeriodStartDate
<1>6. /\ rawDaysElapsed(s, t, k, p) = DaysBetween(DayNumber(a), DayNumber(t))
      /\ daysInPeriod(s, k, p) = 1 + DaysBetween(DayNumber(a), DayNumber(b) - 1)
  BY DEF rawDaysElapsed, daysInPeriod
<1> HIDE DEF a, b
<1>7. /\ DayNumber(a) \in Nat /\ DayNumber(b) \in Nat /\ DayNumber(t) \in Nat
      /\ DayNumber(a) <= DayNumber(t) /\ DayNumber(t) < DayNumber(b)
  BY <1>1, <1>5, DayNumberOrder
<1>8. /\ daysInPeriod(s, k, p) = DayNumber(b) - DayNumber(a)
      /\ daysElapsed(s, t, k, p) = DayNumber(t) - DayNumber(a)
  BY <1>2, <1>3, <1>6, <1>7, WidthAssumption DEF DaysBetween
<1> QED
  BY <1>8 DEF a, b, k

\* WithinCurve for a date in its period, in terms of the days the code counts.
LEMMA CurveInDays ==
    ASSUME NEW m, NEW s \in Date, NEW t \in Date, NEW p \in Nat \ {0}, ~Before(t, s),
           PeriodFits(s, p, currentHalvingPeriod(s, t, p)), NEW n
    PROVE  LET k == currentHalvingPeriod(s, t, p)
               x == 2^(k - 1)
               d == daysInPeriod(s, k, p)
               e == daysElapsed(s, t, k, p)
           IN  WithinCurve(n, m, s, p, t, k) <=>
                   n * (2 * x) * d <= m * ((2 * x - 2) * d + e)
<1> DEFINE k == currentHalvingPeriod(s, t, p)
           first == DayNumber(periodStart(s, k, p))
<1>1. 2^k = 2 * 2^(k - 1)
  <2>1. k \in Nat \ {0}
    BY PeriodContainsTarget
  <2> HIDE DEF k
  <2>2. k - 1 \in Nat /\ (k - 1) + 1 = k
    BY <2>1
  <2> QED
    BY <2>2, PowerOfTwo
<1>2. /\ daysInPeriod(s, k, p) = DayNumber(periodStart(s, k + 1, p)) - first
      /\ daysElapsed(s, t, k, p) = DayNumber(t) - first
  BY DaysExact
<1> HIDE DEF k, first
<1> QED
  BY <1>1, <1>2 DEF WithinCurve, k, first

\* The total is never above the exact release curve, for every maximum supply,
\* start date, period length and date, even when limit * daysElapsed wraps
\* around in uint64.
THEOREM TotalWithinCurve ==
    ASSUME NEW m \in Word, NEW s \in Date, NEW t \in Date, NEW p \in Nat \ {0}, ~Before(t, s),
           PeriodFits(s, p, currentHalvingPeriod(s, t, p)),
           NEW n \in Nat, n <= totalDistributable(m, s, p, t)
    PROVE  WithinCurve(n, m, s, p, t, currentHalvingPeriod(s, t, p))
<1> DEFINE k == currentHalvingPeriod(s, t, p)
           x == 2^(k - 1)
           l == halvingPeriodLimit(m, k)
           d == daysInPeriod(s, k, p)
           e == daysElapsed(s, t, k, p)
           w == Wrap(l * e)
           E == EarlierPeriods(m, k)
           share == w \div d
           total == totalDistributable(m, s, p, t)
<1>1. k \in Nat \ {0}
  BY PeriodContainsTarget
<1>2. x \in Nat \ {0} /\ 2^k = 2 * x
  <2> HIDE DEF k
  <2>1. k - 1 \in Nat /\ (k - 1) + 1 = k
    BY <1>1
  <2> QED
    BY <2>1, PowerOfTwo, PowerPositive
<1>3. l \in Nat /\ l * 2^k <= m
  BY <1>1, LimitBounds
<1>4. E \in Nat /\ E * x <= m * (x - 1)
  BY <1>1, EarlierPeriodsBounds
<1>5. d \in Nat \ {0} /\ e \in Nat /\ e < d
  BY ElapsedWithinPeriod
<1>6. total = E + share
  BY TotalWithinSupply
<1>7. m \in Nat
  BY WordSize
<1>8. WithinCurve(n, m, s, p, t, k) <=> n * (2 * x) * d <= m * ((2 * x - 2) * d + e)
  BY CurveInDays
<1> HIDE DEF k, x, l, d, e, E, total
<1>9. w \in Nat /\ w <= l * e
  BY <1>3, <1>5, WordSize DEF Wrap
<1> HIDE DEF w
<1>10. share \in Nat /\ share * d <= w
  BY <1>5, <1>9, DivBracket
<1> HIDE DEF share
<1>11. share * d <= l * e
  BY <1>3, <1>5, <1>9, <1>10
<1>12. l * (2 * x) <= m
  BY <1>2, <1>3
<1>13. (E + share) * (2 * x) * d <= m * ((2 * x - 2) * d + e)
  BY <1>2, <1>3, <1>4, <1>5, <1>7, <1>10, <1>11, <1>12, CurveUpper
<1>14. n * (2 * x) * d <= (E + share) * (2 * x) * d
  <2>1. n <= E + share
    BY <1>6 DEF total
  <2>2. (2 * x) * d \in Nat
    BY <1>2, <1>5
  <2>3. n * ((2 * x) * d) <= (E + share) * ((2 * x) * d)
    BY <1>4, <1>10, <2>1, <2>2
  <2> QED
    BY <1>2, <1>4, <1>5, <1>10, <2>3
<1>15. n * (2 * x) * d <= m * ((2 * x - 2) * d + e)
  <2>1. /\ n * (2 * x) * d \in Int /\ (E + share) * (2 * x) * d \in Int
        /\ m * ((2 * x - 2) * d + e) \in Int
    BY <1>2, <1>4, <1>5, <1>7, <1>10
  <2> QED
    BY <1>13, <1>14, <2>1
<1> QED
  BY <1>8, <1>15 DEF k

\* As long as limit * daysElapsed does not wrap around, the total is behind
\* the curve by less than a token for each period and one for each division.
THEOREM TotalFollowsCurve ==
    ASSUME NEW m \in Word, NEW s \in Date, NEW t \in Date, NEW p \in Nat \ {0}, ~Before(t, s),
           PeriodFits(s, p, currentHalvingPeriod(s, t, p)),
           ProductsFit(m, s, p, currentHalvingPeriod(s, t, p))
    PROVE  LET k == currentHalvingPeriod(s, t, p)
           IN  ~WithinCurve(totalDistributable(m, s, p, t) + k + 1, m, s, p, t, k)
<1> DEFINE k == currentHalvingPeriod(s, t, p)
           x == 2^(k - 1)
           l == halvingPeriodLimit(m, k)
           d == daysInPeriod(s, k, p)
           e == daysElapsed(s, t, k, p)
           E == EarlierPeriods(m, k)
           j == k - 1
           share == Wrap(l * e) \div d
           total == totalDistributable(m, s, p, t)
<1>1. k \in Nat \ {0} /\ j \in Nat
  BY PeriodContainsTarget
<1>2. x \in Nat \ {0} /\ 2^k = 2 * x
  <2> HIDE DEF k
  <2>1. k - 1 \in Nat /\ (k - 1) + 1 = k
    BY <1>1
  <2> QED
    BY <2>1, PowerOfTwo, PowerPositive
<1>3. l \in Nat /\ m < (l + 1) * 2^k
  BY <1>1, LimitBounds
<1>4. E \in Nat /\ m * (x - 1) <= (E + j) * x
  BY <1>1, EarlierPeriodsBounds
<1>5. d \in Nat \ {0} /\ e \in Nat /\ e < d
  BY ElapsedWithinPeriod
<1>6. total = E + share
  BY TotalWithinSupply
<1>7. m \in Nat
  BY WordSize
<1>8. l * d < 2^WordBits
  BY <1>3, <1>5, WordSize DEF ProductsFit, Word
<1>9. WithinCurve(total + k + 1, m, s, p, t, k)
        <=> (total + k + 1) * (2 * x) * d <= m * ((2 * x - 2) * d + e)
  BY CurveInDays
<1>10. k = j + 1
  BY <1>1
<1> HIDE DEF k, x, l, d, e, E, j, total
<1>11. Wrap(l * e) = l * e
  <2>1. l * e <= l * d /\ l * e \in Nat
    BY <1>3, <1>5
  <2> QED
    BY <1>3, <1>5, <1>8, <2>1, WordSize DEF Wrap
<1>12. share \in Nat /\ l * e < (share + 1) * d
  BY <1>3, <1>5, <1>11, DivBracket
<1> HIDE DEF share
<1>13. m < (l + 1) * (2 * x)
  BY <1>2, <1>3
<1>14. (E + share + (j + 2)) * (2 * x) * d > m * ((2 * x - 2) * d + e)
  BY <1>1, <1>2, <1>3, <1>4, <1>5, <1>7, <1>12, <1>13, CurveLower
<1>15. total + k + 1 = E + share + (j + 2)
  BY <1>1, <1>4, <1>6, <1>10, <1>12
<1>16. ~((total + k + 1) * (2 * x) * d <= m * ((2 * x - 2) * d + e))
  <2>1. (E + share + (j + 2)) * (2 * x) * d \in Int /\ m * ((2 * x - 2) * d + e) \in Int
    BY <1>1, <1>2, <1>4, <1>5, <1>7, <1>12
  <2> QED
    BY <1>14, <1>15, <2>1
<1> QED
  BY <1>9, <1>16 DEF k, total

\* Time does not take back what the schedule has released.
THEOREM TotalNeverShrinks ==
    ASSUME NEW m \in Word, NEW s \in Date, NEW t \in Date, NEW u \in Date, NEW p \in Nat \ {0},
           ~Before(t, s), Before(t, u), ProductsFit(m, s, p, currentHalvingPeriod(s, t, p))
    PROVE  totalDistributable(m, s, p, t) <= totalDistributable(m, s, p, u)
<1> DEFINE k == currentHalvingPeriod(s, t, p)
           n == currentHalvingPeriod(s, u, p)
           l == halvingPeriodLimit(m, k)
           d == daysInPeriod(s, k, p)
           e == daysElapsed(s, t, k, p)
           f == daysElapsed(s, u, n, p)
           share == Wrap(l * e) \div d
           later == Wrap(halvingPeriodLimit(m, n) * f) \div daysInPeriod(s, n, p)
           E(i) == EarlierPeriods(m, i)
<1>0. ~Before(u, s)
  <2>1. ~Before(u, t)
    BY BeforeOrder
  <2> QED
    BY <2>1, BeforeOrder
<1>1. k \in Nat \ {0} /\ n \in Nat \ {0} /\ InPeriod(s, p, t, k) /\ InPeriod(s, p, u, n)
  BY <1>0, PeriodContainsTarget
<1>2. /\ totalDistributable(m, s, p, t) = E(k) + share /\ share \in 0 .. l
      /\ totalDistributable(m, s, p, u) = E(n) + later
      /\ later \in 0 .. halvingPeriodLimit(m, n)
  BY <1>0, TotalWithinSupply
<1>3. E(k) \in Nat /\ E(n) \in Nat
  BY <1>1, EarlierPeriodsBounds
<1>4. l \in Nat /\ halvingPeriodLimit(m, n) \in Nat
  BY <1>1, LimitBounds
<1>5. k <= n
  <2> HIDE DEF k, n
  <2> SUFFICES ASSUME n < k PROVE FALSE
    BY <1>1
  <2> DEFINE a == periodStart(s, k, p)
             b == periodStart(s, n + 1, p)
  <2>1. n * p \in Nat /\ (k - 1) * p \in Nat /\ n * p <= (k - 1) * p
    BY <1>1
  <2>2. (n + 1) - 1 = n /\ n + 1 \in Nat \ {0}
    BY <1>1
  <2>3. a \in Date /\ b \in Date
    BY <1>1, <2>2, PeriodStartDate
  <2>4. ~Before(a, b)
    <3> DEFINE i == n * p
               j == (k - 1) * p
    <3>0. i \in Nat /\ j \in Nat /\ i <= j
      BY <2>1
    <3>1. ~Before(addMonths(s, j), addMonths(s, i))
      <4> HIDE DEF i, j
      <4> QED
        BY <3>0, AddMonthsWeaklyMonotone
    <3>2. b = addMonths(s, n * p)
      <4>1. b = addMonths(s, ((n + 1) - 1) * p)
        BY Zenon DEF periodStart
      <4> QED
        BY <2>2, <4>1, Zenon
    <3> QED
      BY <3>1, <3>2 DEF periodStart
  <2>5. ~Before(t, a) /\ Before(u, b)
    BY <1>1 DEF InPeriod
  <2> HIDE DEF a, b
  <2>6. /\ DayNumber(t) \in Nat /\ DayNumber(u) \in Nat /\ DayNumber(a) \in Nat
        /\ DayNumber(b) \in Nat
    BY <2>3, DayNumberOrder
  <2>7. /\ DayNumber(t) < DayNumber(u) /\ DayNumber(u) < DayNumber(b)
        /\ ~(DayNumber(t) < DayNumber(a)) /\ ~(DayNumber(a) < DayNumber(b))
    BY <2>3, <2>4, <2>5, DayNumberOrder
  <2> QED
    BY <2>6, <2>7
<1>6. CASE k < n
  <2> HIDE DEF k, n
  <2>1. E(k) + l <= E(n)
    BY <1>1, <1>6, EarlierAscends
  <2> HIDE DEF share, later, l, E
  <2> QED
    BY <1>2, <1>3, <1>4, <2>1
<1>7. CASE k = n
  <2>1. later = Wrap(l * f) \div d
    BY <1>7
  <2>2. d \in Nat \ {0} /\ e \in Nat /\ e < d /\ e = rawDaysElapsed(s, t, k, p)
    BY ElapsedWithinPeriod
  <2>3. f \in Nat /\ f < d /\ f = rawDaysElapsed(s, u, k, p)
    BY <1>0, <1>7, ElapsedWithinPeriod
  <2>4. e <= f
    <3> DEFINE a == periodStart(s, k, p)
    <3>1. a \in Date
      BY <1>1, PeriodStartDate
    <3>2. /\ e = DaysBetween(DayNumber(a), DayNumber(t))
          /\ f = DaysBetween(DayNumber(a), DayNumber(u))
      BY <2>2, <2>3 DEF rawDaysElapsed
    <3> HIDE DEF a, e, f
    <3>3. /\ DayNumber(t) \in Nat /\ DayNumber(u) \in Nat /\ DayNumber(a) \in Nat
          /\ DayNumber(t) < DayNumber(u)
      BY <3>1, DayNumberOrder
    <3> QED
      BY <3>2, <3>3, WidthAssumption DEF DaysBetween
  <2>5. l * d < 2^WordBits
    BY <1>4, <2>2, WordSize DEF ProductsFit, Word
  <2> HIDE DEF k, n, l, d, e, f, E
  <2>6. l * e <= l * f /\ l * f <= l * d /\ l * e \in Nat /\ l * f \in Nat
    BY <1>4, <2>2, <2>3, <2>4
  <2>7. Wrap(l * e) = l * e /\ Wrap(l * f) = l * f
    BY <1>4, <2>2, <2>5, <2>6, WordSize DEF Wrap
  <2>8. share <= later
    <3> DEFINE v == (l * e) \div d
               w == (l * f) \div d
    <3>1. v \in Nat /\ v * d <= l * e /\ w \in Nat /\ l * f < (w + 1) * d
      BY <2>2, <2>6, DivBracket
    <3>2. share = v /\ later = w
      BY <2>1, <2>7
    <3> HIDE DEF v, w
    <3>3. ASSUME w < v PROVE FALSE
      <4>1. (w + 1) * d <= v * d
        BY <2>2, <3>1, <3>3
      <4>2. (w + 1) * d \in Nat /\ v * d \in Nat
        BY <2>2, <3>1
      <4> QED
        BY <2>6, <3>1, <4>1, <4>2
    <3> QED
      BY <3>1, <3>2, <3>3
  <2> HIDE DEF share, later
  <2>9. E(k) + share <= E(n) + later
    BY <1>2, <1>3, <1>4, <1>7, <2>8
  <2> QED
    BY <1>2, <2>9
<1> QED
  BY <1>1, <1>5, <1>6, <1>7
=============================================================================
