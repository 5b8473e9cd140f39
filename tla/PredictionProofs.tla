-------------------------- MODULE PredictionProofs --------------------------
(***************************************************************************)
(* Proofs about Prediction, for every length of the cycle, size of the     *)
(* buckets, number of runs, and every set of scores, levels and players:   *)
(* its type invariant, the facts about the model's tables that the page's  *)
(* predictions rest on (PInv), and what the predictions promise.           *)
(*                                                                         *)
(* The sums of the model are folds over finite sets, and what a run can    *)
(* gain is a recursive function.  Both are reasoned about by induction     *)
(* over sets of numbers or of subsets (NatBySets, ChosenInduction): the    *)
(* induction is over the members of a set instead of over a formula.       *)
(***************************************************************************)
EXTENDS Prediction, FiniteSetTheorems, TLAPS

-----------------------------------------------------------------------------
(* Induction.                                                              *)

\* A set that holds 0 and with every number its successor holds every number.
LEMMA NatBySets ==
  ASSUME NEW G, 0 \in G, \A n \in Nat : n \in G => n + 1 \in G
  PROVE  Nat \subseteq G
PROOF
<1> SUFFICES ASSUME Nat \ G # {} PROVE FALSE
  OBVIOUS
<1>1. IsWellFoundedOn(OpToRel(<, Nat), Nat)
  BY NatLessThanWellFounded
<1>2. PICK m \in Nat \ G : \A n \in Nat \ G : <<n, m>> \notin OpToRel(<, Nat)
  BY <1>1, WFMin
<1>3. \A n \in Nat \ G : ~(n < m)
  BY <1>2 DEF OpToRel
<1>4. m # 0 /\ m - 1 \in Nat
  OBVIOUS
<1>5. m - 1 \in G
  BY <1>3, <1>4
<1>6. (m - 1) + 1 \in G
  BY <1>4, <1>5
<1> QED BY <1>4, <1>6

\* The member of a set that a fold takes first.
Chosen(s) == CHOOSE x \in s : TRUE

LEMMA ChosenIn ==
  ASSUME NEW s, s # {}
  PROVE  Chosen(s) \in s
PROOF BY DEF Chosen

\* One member less, with a finite set's count of members.
LEMMA Without ==
  ASSUME NEW s, IsFiniteSet(s), NEW x \in s
  PROVE  /\ IsFiniteSet(s \ {x})
         /\ Cardinality(s) \in Nat /\ Cardinality(s \ {x}) \in Nat
         /\ Cardinality(s) = Cardinality(s \ {x}) + 1
PROOF
<1>1. /\ IsFiniteSet(s \ {x})
      /\ Cardinality(s \ {x}) = Cardinality(s) - 1
  BY FS_RemoveElement
<1>2. Cardinality(s) \in Nat /\ Cardinality(s \ {x}) \in Nat
  BY <1>1, FS_CardinalityType
<1> QED BY <1>1, <1>2

\* What holds of the empty set, and of every set of which it holds without its
\* chosen member, holds of a finite set.
LEMMA ChosenInduction ==
  ASSUME NEW T, IsFiniteSet(T), NEW Good,
         {} \in Good,
         \A s \in SUBSET T : s # {} /\ s \ {Chosen(s)} \in Good => s \in Good
  PROVE  T \in Good
PROOF
<1> DEFINE G == {n \in Nat : \A s \in SUBSET T : Cardinality(s) = n => s \in Good}
<1>1. \A s \in SUBSET T : IsFiniteSet(s)
  BY FS_Subset
<1>2. 0 \in G
  BY <1>1, FS_EmptySet
<1>3. \A n \in Nat : n \in G => n + 1 \in G
  <2> SUFFICES ASSUME NEW n \in Nat, n \in G, NEW s \in SUBSET T, Cardinality(s) = n + 1
               PROVE  s \in Good
    OBVIOUS
  <2>1. s # {}
    BY FS_EmptySet
  <2>2. Chosen(s) \in s
    BY <2>1, ChosenIn
  <2>3. Cardinality(s \ {Chosen(s)}) = n
    BY <1>1, <2>2, Without
  <2>4. s \ {Chosen(s)} \in Good
    BY <2>3
  <2> QED BY <2>1, <2>4
<1>4. Nat \subseteq G
  <2> HIDE DEF G
  <2> QED BY <1>2, <1>3, NatBySets
<1>5. Cardinality(T) \in G
  BY <1>4, FS_CardinalityType
<1> QED BY <1>5

-----------------------------------------------------------------------------
(* Sums over finite sets.                                                  *)

Sum(f, T) == MapThenSumSet(LAMBDA x : f[x], T)

\* One entry of the table by which a fold is defined, and the table.
Entry(f, table, s) == IF s = {} THEN 0 ELSE f[Chosen(s)] + table[s \ {Chosen(s)}]

SumTable(f, T, table) == table = [s \in SUBSET T |-> Entry(f, table, s)]

LEMMA SumIsTable ==
  ASSUME NEW f, NEW T
  PROVE  Sum(f, T) = (CHOOSE table : SumTable(f, T, table))[T]
PROOF BY Zenon DEF Sum, MapThenSumSet, MapThenFoldSet, SumTable, Entry, Chosen

\* Over a finite set the table exists.
LEMMA SumTableExists ==
  ASSUME NEW f, NEW T, IsFiniteSet(T)
  PROVE  \E table : SumTable(f, T, table)
PROOF
<1> DEFINE Small(n) == {s \in SUBSET T : Cardinality(s) <= n}
           Part(table, n) == table = [s \in Small(n) |-> Entry(f, table, s)]
           G == {n \in Nat : \E table : Part(table, n)}
<1>1. \A s \in SUBSET T : IsFiniteSet(s) /\ Cardinality(s) \in Nat
  BY FS_Subset, FS_CardinalityType
<1>2. \A n \in Nat : \A s \in Small(n + 1) : s # {} => s \ {Chosen(s)} \in Small(n)
  <2> TAKE n \in Nat
  <2> TAKE s \in Small(n + 1)
  <2> HAVE s # {}
  <2>1. Chosen(s) \in s
    BY ChosenIn
  <2>2. Cardinality(s) = Cardinality(s \ {Chosen(s)}) + 1
    BY <1>1, <2>1, Without
  <2> QED BY <1>1, <2>2
<1>3. 0 \in G
  <2> DEFINE table == [s \in Small(0) |-> 0]
  <2>1. \A s \in Small(0) : s = {}
    BY <1>1, FS_EmptySet
  <2>2. Part(table, 0)
    BY <2>1 DEF Entry
  <2> QED BY <2>2
<1>4. \A n \in Nat : n \in G => n + 1 \in G
  <2> SUFFICES ASSUME NEW n \in Nat, n \in G
               PROVE  n + 1 \in G
    OBVIOUS
  <2>0. PICK table : Part(table, n)
    OBVIOUS
  <2> DEFINE more == [s \in Small(n + 1) |-> Entry(f, table, s)]
  <2>1. Small(n) \subseteq Small(n + 1)
    BY <1>1
  <2>2. \A s \in Small(n) : more[s] = table[s]
    BY <2>0, <2>1
  <2>3. ASSUME NEW s \in Small(n + 1) PROVE Entry(f, more, s) = Entry(f, table, s)
    <3>1. s # {} => s \ {Chosen(s)} \in Small(n)
      BY <1>2
    <3>2. s # {} => more[s \ {Chosen(s)}] = table[s \ {Chosen(s)}]
      BY <2>2, <3>1
    <3> HIDE DEF more
    <3> QED BY <3>2 DEF Entry
  <2>4. Part(more, n + 1)
    BY <2>3
  <2>5. \E each : Part(each, n + 1)
    <3> HIDE DEF more, Part
    <3> QED BY <2>4
  <2> HIDE DEF more, Part
  <2> QED BY <2>5
<1>5. Nat \subseteq G
  <2> HIDE DEF G
  <2> QED BY <1>3, <1>4, NatBySets
<1>6. PICK table : Part(table, Cardinality(T))
  BY <1>1, <1>5
<1>7. Small(Cardinality(T)) = SUBSET T
  BY FS_Subset
<1>8. SumTable(f, T, table)
  BY <1>6, <1>7 DEF SumTable
<1> QED BY <1>8

\* Two tables agree where both are defined.
LEMMA SumTablesAgree ==
  ASSUME NEW f, NEW S, IsFiniteSet(S), NEW T \in SUBSET S,
         NEW large, SumTable(f, S, large), NEW small, SumTable(f, T, small)
  PROVE  small[T] = large[T]
PROOF
<1> DEFINE Good == {s \in SUBSET T : small[s] = large[s]}
<1>1. \A s \in SUBSET T : small[s] = Entry(f, small, s) /\ large[s] = Entry(f, large, s)
  BY DEF SumTable
<1>2. {} \in Good
  BY <1>1 DEF Entry
<1>3. \A s \in SUBSET T : s # {} /\ s \ {Chosen(s)} \in Good => s \in Good
  BY <1>1 DEF Entry
<1>4. IsFiniteSet(T)
  BY FS_Subset
<1>5. T \in Good
  <2> HIDE DEF Good
  <2> QED BY <1>2, <1>3, <1>4, ChosenInduction
<1> QED BY <1>5

\* A sum is the value of the chosen member and the sum of the others.
LEMMA SumStep ==
  ASSUME NEW f, NEW T, IsFiniteSet(T)
  PROVE  /\ T = {} => Sum(f, T) = 0
         /\ T # {} => Sum(f, T) = f[Chosen(T)] + Sum(f, T \ {Chosen(T)})
PROOF
<1> DEFINE rest == T \ {Chosen(T)}
           whole == CHOOSE table : SumTable(f, T, table)
           part == CHOOSE table : SumTable(f, rest, table)
<1>1. IsFiniteSet(rest)
  BY FS_Subset
<1>2. SumTable(f, T, whole) /\ SumTable(f, rest, part)
  BY <1>1, SumTableExists
<1>3. Sum(f, T) = whole[T] /\ Sum(f, rest) = part[rest]
  BY SumIsTable
<1>4. part[rest] = whole[rest]
  <2> HIDE DEF whole, part
  <2> QED BY <1>2, SumTablesAgree
<1>5. whole[T] = Entry(f, whole, T)
  <2> HIDE DEF whole
  <2> QED BY <1>2 DEF SumTable
<1> QED BY <1>3, <1>4, <1>5 DEF Entry

\* A property of sums that every further member keeps.
LEMMA SumInduction ==
  ASSUME NEW f, NEW T, IsFiniteSet(T), NEW Good,
         <<{}, 0>> \in Good,
         \A s \in SUBSET T : \A x \in s :
           <<s \ {x}, Sum(f, s \ {x})>> \in Good => <<s, f[x] + Sum(f, s \ {x})>> \in Good
  PROVE  <<T, Sum(f, T)>> \in Good
PROOF
<1> DEFINE Fine == {s \in SUBSET T : <<s, Sum(f, s)>> \in Good}
<1>1. \A s \in SUBSET T : IsFiniteSet(s)
  BY FS_Subset
<1>2. {} \in Fine
  BY <1>1, SumStep
<1>3. \A s \in SUBSET T : s # {} /\ s \ {Chosen(s)} \in Fine => s \in Fine
  <2> TAKE s \in SUBSET T
  <2> HAVE s # {} /\ s \ {Chosen(s)} \in Fine
  <2>1. Chosen(s) \in s
    BY ChosenIn
  <2>2. Sum(f, s) = f[Chosen(s)] + Sum(f, s \ {Chosen(s)})
    BY <1>1, SumStep
  <2> QED BY <2>1, <2>2
<1>4. T \in Fine
  <2> HIDE DEF Fine
  <2> QED BY <1>2, <1>3, ChosenInduction
<1> QED BY <1>4

\* A sum of values between two numbers lies between their multiples.
LEMMA SumBounds ==
  ASSUME NEW f, NEW T, IsFiniteSet(T), NEW lo \in Int, NEW hi \in Int,
         \A x \in T : f[x] \in lo..hi
  PROVE  /\ Sum(f, T) \in Int
         /\ lo * Cardinality(T) <= Sum(f, T) /\ Sum(f, T) <= hi * Cardinality(T)
PROOF
<1> DEFINE Good == {p \in (SUBSET T) \X Int :
                      /\ lo * Cardinality(p[1]) <= p[2]
                      /\ p[2] <= hi * Cardinality(p[1])}
<1>1. <<{}, 0>> \in Good
  BY FS_EmptySet
<1>2. \A s \in SUBSET T : \A x \in s :
        <<s \ {x}, Sum(f, s \ {x})>> \in Good => <<s, f[x] + Sum(f, s \ {x})>> \in Good
  <2> TAKE s \in SUBSET T
  <2> TAKE x \in s
  <2> HAVE <<s \ {x}, Sum(f, s \ {x})>> \in Good
  <2> DEFINE n == Cardinality(s \ {x})
             rest == Sum(f, s \ {x})
  <2>1. n \in Nat /\ Cardinality(s) = n + 1
    BY FS_Subset, Without
  <2>2. rest \in Int /\ lo * n <= rest /\ rest <= hi * n
    OBVIOUS
  <2>3. f[x] \in Int /\ lo <= f[x] /\ f[x] <= hi
    OBVIOUS
  <2> HIDE DEF n, rest
  <2>4. lo * (n + 1) = lo * n + lo /\ hi * (n + 1) = hi * n + hi
    BY <2>1
  <2>5. lo * n \in Int /\ hi * n \in Int
    BY <2>1
  <2>6. lo * (n + 1) <= f[x] + rest /\ f[x] + rest <= hi * (n + 1)
    BY <2>2, <2>3, <2>4, <2>5
  <2>7. f[x] + rest \in Int
    BY <2>2, <2>3
  <2> QED BY <2>1, <2>6, <2>7 DEF rest
<1>3. <<T, Sum(f, T)>> \in Good
  <2> HIDE DEF Good
  <2> QED BY <1>1, <1>2, SumInduction
<1> QED BY <1>3

\* A sum of counts is a count, and not zero when one of them is not.
LEMMA SumCounts ==
  ASSUME NEW f, NEW T, IsFiniteSet(T), \A x \in T : f[x] \in Nat
  PROVE  /\ Sum(f, T) \in Nat
         /\ (\E x \in T : f[x] > 0) => Sum(f, T) > 0
PROOF
<1> DEFINE Good == {p \in (SUBSET T) \X Nat : (\E x \in p[1] : f[x] > 0) => p[2] > 0}
<1>1. <<{}, 0>> \in Good
  OBVIOUS
<1>2. \A s \in SUBSET T : \A x \in s :
        <<s \ {x}, Sum(f, s \ {x})>> \in Good => <<s, f[x] + Sum(f, s \ {x})>> \in Good
  <2> TAKE s \in SUBSET T
  <2> TAKE x \in s
  <2> HAVE <<s \ {x}, Sum(f, s \ {x})>> \in Good
  <2> DEFINE rest == Sum(f, s \ {x})
  <2>1. rest \in Nat /\ f[x] \in Nat
    OBVIOUS
  <2>2. (\E y \in s \ {x} : f[y] > 0) => rest > 0
    OBVIOUS
  <2> HIDE DEF rest
  <2>3. (\E y \in s : f[y] > 0) => f[x] + rest > 0
    BY <2>1, <2>2
  <2> QED BY <2>1, <2>3 DEF rest
<1>3. <<T, Sum(f, T)>> \in Good
  <2> HIDE DEF Good
  <2> QED BY <1>1, <1>2, SumInduction
<1> QED BY <1>3

\* Of two sums over the same set the one of greater values is not less.
LEMMA SumMonotone ==
  ASSUME NEW f, NEW g, NEW T, IsFiniteSet(T),
         \A x \in T : f[x] \in Int /\ g[x] \in Int /\ f[x] <= g[x]
  PROVE  /\ Sum(f, T) \in Int /\ Sum(g, T) \in Int
         /\ Sum(f, T) <= Sum(g, T)
PROOF
<1> DEFINE Good == {s \in SUBSET T : /\ Sum(f, s) \in Int /\ Sum(g, s) \in Int
                                     /\ Sum(f, s) <= Sum(g, s)}
<1>1. \A s \in SUBSET T : IsFiniteSet(s)
  BY FS_Subset
<1>2. {} \in Good
  <2>1. Sum(f, {}) = 0 /\ Sum(g, {}) = 0
    BY FS_EmptySet, SumStep
  <2> QED BY <2>1
<1>3. \A s \in SUBSET T : s # {} /\ s \ {Chosen(s)} \in Good => s \in Good
  <2> TAKE s \in SUBSET T
  <2> HAVE s # {} /\ s \ {Chosen(s)} \in Good
  <2>1. Chosen(s) \in T
    BY ChosenIn
  <2>2. /\ Sum(f, s) = f[Chosen(s)] + Sum(f, s \ {Chosen(s)})
        /\ Sum(g, s) = g[Chosen(s)] + Sum(g, s \ {Chosen(s)})
    BY <1>1, SumStep
  <2> QED BY <2>1, <2>2
<1>4. T \in Good
  <2> HIDE DEF Good
  <2> QED BY <1>2, <1>3, ChosenInduction
<1> QED BY <1>4

Labelled(R, label, S) == {r \in R : label[r] \in S}

\* The numbers of those that have each of some labels add up to the number of
\* those that have one of them.
LEMMA SumOfClasses ==
  ASSUME NEW R, IsFiniteSet(R), NEW label, NEW S, IsFiniteSet(S), NEW hits,
         \A t \in S : hits[t] = Cardinality(Labelled(R, label, {t}))
  PROVE  Sum(hits, S) = Cardinality(Labelled(R, label, S))
PROOF
<1> DEFINE Good == {p \in (SUBSET S) \X Nat :
                      p[2] = Cardinality(Labelled(R, label, p[1]))}
<1>1. <<{}, 0>> \in Good
  <2>1. Labelled(R, label, {}) = {}
    BY DEF Labelled
  <2> QED BY <2>1, FS_EmptySet
<1>2. \A s \in SUBSET S : \A x \in s :
        <<s \ {x}, Sum(hits, s \ {x})>> \in Good => <<s, hits[x] + Sum(hits, s \ {x})>> \in Good
  <2> TAKE s \in SUBSET S
  <2> TAKE x \in s
  <2> HAVE <<s \ {x}, Sum(hits, s \ {x})>> \in Good
  <2> DEFINE here == Labelled(R, label, {x})
             others == Labelled(R, label, s \ {x})
             all == Labelled(R, label, s)
  <2>1. IsFiniteSet(here) /\ IsFiniteSet(others)
    BY FS_Subset DEF Labelled
  <2>2. here \cap others = {} /\ here \cup others = all
    BY DEF Labelled
  <2>3. Cardinality(all) = Cardinality(here) + Cardinality(others) - Cardinality(here \cap others)
    <3> HIDE DEF here, others, all
    <3> QED BY <2>1, <2>2, FS_Union
  <2>4. Cardinality(here) \in Nat /\ Cardinality(others) \in Nat
    BY <2>1, FS_CardinalityType
  <2>5. Cardinality(here \cap others) = 0
    BY <2>2, FS_EmptySet
  <2>6. hits[x] = Cardinality(here)
    OBVIOUS
  <2>7. Sum(hits, s \ {x}) = Cardinality(others)
    OBVIOUS
  <2>8. hits[x] + Sum(hits, s \ {x}) = Cardinality(all)
    <3> HIDE DEF here, others, all
    <3> QED BY <2>3, <2>4, <2>5, <2>6, <2>7
  <2>9. hits[x] + Sum(hits, s \ {x}) \in Nat
    BY <2>4, <2>6, <2>7
  <2> QED BY <2>8, <2>9
<1>3. <<S, Sum(hits, S)>> \in Good
  <2> HIDE DEF Good
  <2> QED BY <1>1, <1>2, SumInduction
<1> QED BY <1>3

-----------------------------------------------------------------------------
(* Arithmetic.                                                             *)

LEMMA TimesOrder ==
  ASSUME NEW a \in Int, NEW b \in Int, NEW d \in Nat \ {0}, a * d < b * d
  PROVE  a < b
PROOF
<1> SUFFICES ASSUME b <= a PROVE FALSE
  OBVIOUS
<1>1. (a - b) * d >= 0
  OBVIOUS
<1>2. (a - b) * d = a * d - b * d
  OBVIOUS
<1> QED BY <1>1, <1>2

LEMMA DivBounds ==
  ASSUME NEW n \in Int, NEW d \in Nat \ {0}
  PROVE  /\ n \div d \in Int
         /\ (n \div d) * d <= n /\ n < (n \div d + 1) * d
PROOF
<1>1. n \div d \in Int
  OBVIOUS
<1>2. n % d \in 0..(d - 1) /\ n = d * (n \div d) + (n % d)
  OBVIOUS
<1>3. (n \div d + 1) * d = d * (n \div d) + d /\ (n \div d) * d = d * (n \div d)
  BY <1>1
<1> QED BY <1>1, <1>2, <1>3

\* A rounded quotient lies where the quotient lies.
LEMMA RoundedBounds ==
  ASSUME NEW n \in Int, NEW d \in Nat \ {0}, NEW lo \in Int, NEW hi \in Int,
         lo * d <= n, n <= hi * d
  PROVE  /\ Rounded(n, d) \in Int
         /\ lo <= Rounded(n, d) /\ Rounded(n, d) <= hi
PROOF
<1> DEFINE q == (2 * n + d) \div (2 * d)
<1>1. 2 * n + d \in Int /\ 2 * d \in Nat \ {0}
  OBVIOUS
<1>2. q \in Int /\ q * (2 * d) <= 2 * n + d /\ 2 * n + d < (q + 1) * (2 * d)
  BY <1>1, DivBounds
<1> HIDE DEF q
<1>3. lo * (2 * d) = 2 * (lo * d) /\ (hi + 1) * (2 * d) = 2 * (hi * d) + 2 * d
  OBVIOUS
<1>4. lo * (2 * d) < (q + 1) * (2 * d)
  BY <1>2, <1>3
<1>5. q * (2 * d) < (hi + 1) * (2 * d)
  BY <1>2, <1>3
<1>6. lo < q + 1
  BY <1>1, <1>2, <1>4, TimesOrder
<1>7. q < hi + 1
  BY <1>1, <1>2, <1>5, TimesOrder
<1> QED BY <1>2, <1>6, <1>7 DEF Rounded, q

LEMMA RoundedMonotone ==
  ASSUME NEW m \in Int, NEW n \in Int, m <= n, NEW d \in Nat \ {0}
  PROVE  Rounded(m, d) <= Rounded(n, d)
PROOF
<1> DEFINE p == (2 * m + d) \div (2 * d)
           q == (2 * n + d) \div (2 * d)
<1>1. 2 * m + d \in Int /\ 2 * n + d \in Int /\ 2 * d \in Nat \ {0}
  OBVIOUS
<1>2. p \in Int /\ p * (2 * d) <= 2 * m + d
  BY <1>1, DivBounds
<1>3. q \in Int /\ 2 * n + d < (q + 1) * (2 * d)
  BY <1>1, DivBounds
<1> HIDE DEF p, q
<1>4. p * (2 * d) < (q + 1) * (2 * d)
  BY <1>2, <1>3
<1>5. p < q + 1
  BY <1>1, <1>2, <1>3, <1>4, TimesOrder
<1> QED BY <1>2, <1>3, <1>5 DEF Rounded, p, q

-----------------------------------------------------------------------------
(* Least and greatest members, and the order of the runs.                  *)

LEMMA Extremes ==
  ASSUME NEW S \in SUBSET Int, IsFiniteSet(S), S # {}
  PROVE  /\ Min(S) \in S /\ Max(S) \in S
         /\ \A y \in S : Min(S) <= y /\ y <= Max(S)
PROOF
<1> DEFINE Good == {s \in SUBSET S : s # {} => /\ \E a \in s : \A y \in s : a <= y
                                               /\ \E b \in s : \A y \in s : b >= y}
<1>1. {} \in Good
  OBVIOUS
<1>2. \A s \in SUBSET S : s # {} /\ s \ {Chosen(s)} \in Good => s \in Good
  <2> TAKE s \in SUBSET S
  <2> HAVE s # {} /\ s \ {Chosen(s)} \in Good
  <2> DEFINE c == Chosen(s)
             rest == s \ {c}
  <2>1. c \in s /\ c \in Int
    BY ChosenIn
  <2>2. rest # {} => /\ \E a \in rest : \A y \in rest : a <= y
                     /\ \E b \in rest : \A y \in rest : b >= y
    OBVIOUS
  <2> HIDE DEF c
  <2>3. CASE rest = {}
    <3>1. \A y \in s : c <= y /\ c >= y
      BY <2>1, <2>3
    <3> QED BY <2>1, <3>1
  <2>4. CASE rest # {}
    <3>1. PICK a \in rest : \A y \in rest : a <= y
      BY <2>2, <2>4
    <3>2. PICK b \in rest : \A y \in rest : b >= y
      BY <2>2, <2>4
    <3>3. \E least \in {a, c} : \A y \in s : least <= y
      <4>1. CASE a <= c
        BY <2>1, <3>1, <4>1
      <4>2. CASE ~(a <= c)
        BY <2>1, <3>1, <4>2
      <4> QED BY <4>1, <4>2
    <3>4. \E most \in {b, c} : \A y \in s : most >= y
      <4>1. CASE b >= c
        BY <2>1, <3>2, <4>1
      <4>2. CASE ~(b >= c)
        BY <2>1, <3>2, <4>2
      <4> QED BY <4>1, <4>2
    <3> QED BY <2>1, <3>3, <3>4
  <2> QED BY <2>3, <2>4
<1>3. S \in Good
  <2> HIDE DEF Good
  <2> QED BY <1>1, <1>2, ChosenInduction
<1>4. (\E a \in S : \A y \in S : a <= y) /\ (\E b \in S : \A y \in S : b >= y)
  BY <1>3
<1>5. Min(S) \in S /\ \A y \in S : Min(S) <= y
  BY <1>4 DEF Min
<1>6. Max(S) \in S /\ \A y \in S : Max(S) >= y
  BY <1>4 DEF Max
<1>7. \A y \in S : y <= Max(S)
  BY <1>6
<1> QED BY <1>5, <1>6, <1>7

Totals == [1..Runs -> Int]

ValuesOf(totals) == {totals[run] : run \in 1..Runs}

LEMMA RunsFact ==
  Runs \in Nat /\ Runs >= 1 /\ IsFiniteSet(1..Runs) /\ Cardinality(1..Runs) = Runs
PROOF
<1>1. Runs \in Nat /\ Runs >= 1
  BY ProjectionAssumption
<1> QED BY <1>1, FS_Interval

LEMMA ValuesFinite ==
  ASSUME NEW totals \in Totals
  PROVE  /\ IsFiniteSet(ValuesOf(totals)) /\ ValuesOf(totals) \subseteq Int
         /\ ValuesOf(totals) # {}
PROOF
<1>1. totals \in Surjection(1..Runs, ValuesOf(totals))
  BY DEF Surjection, ValuesOf, Totals
<1>2. IsFiniteSet(ValuesOf(totals))
  BY <1>1, RunsFact, FS_Surjection
<1>3. ValuesOf(totals) \subseteq Int
  BY DEF ValuesOf, Totals
<1>4. totals[1] \in ValuesOf(totals)
  BY RunsFact DEF ValuesOf
<1> QED BY <1>2, <1>3, <1>4

UpTo(totals, value) == {run \in 1..Runs : totals[run] <= value}
Under(totals, value) == {run \in 1..Runs : totals[run] < value}

LEMMA CountsOfRuns ==
  ASSUME NEW S \in SUBSET (1..Runs)
  PROVE  IsFiniteSet(S) /\ Cardinality(S) \in Nat
PROOF BY RunsFact, FS_Subset, FS_CardinalityType

LEMMA FewerRuns ==
  ASSUME NEW S \in SUBSET (1..Runs), NEW T \in SUBSET S
  PROVE  Cardinality(T) <= Cardinality(S)
PROOF BY RunsFact, CountsOfRuns, FS_Subset

\* The value of a rank is that of a run, with at most as many runs under it
\* as the rank says, and with it more.
LEMMA RankedFacts ==
  ASSUME NEW totals \in Totals, NEW i \in 0..(Runs - 1)
  PROVE  LET value == Ranked(totals, i) IN
         /\ value \in ValuesOf(totals)
         /\ Cardinality(Under(totals, value)) <= i
         /\ Cardinality(UpTo(totals, value)) > i
PROOF
<1> DEFINE V == ValuesOf(totals)
           Enough == {v \in V : Cardinality(UpTo(totals, v)) > i}
           least == Min(Enough)
<1>1. IsFiniteSet(V) /\ V \subseteq Int /\ V # {}
  BY ValuesFinite
<1>2. Max(V) \in V /\ \A y \in V : y <= Max(V)
  BY <1>1, Extremes
<1>3. UpTo(totals, Max(V)) = 1..Runs
  BY <1>2 DEF UpTo, ValuesOf
<1>4. Max(V) \in Enough
  BY <1>2, <1>3, RunsFact
<1>5. IsFiniteSet(Enough) /\ Enough \in SUBSET Int /\ Enough # {}
  BY <1>1, <1>4, FS_Subset
<1>6. least \in Enough /\ \A y \in Enough : least <= y
  <2> HIDE DEF Enough
  <2> QED BY <1>5, Extremes
<1> HIDE DEF least
<1>7. Cardinality(Under(totals, least)) <= i
  <2>1. CASE Under(totals, least) = {}
    BY <2>1, FS_EmptySet
  <2>2. CASE Under(totals, least) # {}
    <3> DEFINE Lower == {v \in V : v < least}
               w == Max(Lower)
    <3>1. PICK run \in 1..Runs : totals[run] < least
      BY <2>2 DEF Under
    <3>2. totals[run] \in Lower
      BY <3>1 DEF ValuesOf
    <3>3. IsFiniteSet(Lower) /\ Lower \in SUBSET Int /\ Lower # {}
      BY <1>1, <3>2, FS_Subset
    <3>4. w \in Lower /\ \A y \in Lower : y <= w
      <4> HIDE DEF Lower
      <4> QED BY <3>3, Extremes
    <3> HIDE DEF w
    <3>5. Under(totals, least) \subseteq UpTo(totals, w)
      BY <3>4 DEF Under, UpTo, ValuesOf
    <3>6. w \notin Enough
      BY <1>1, <1>6, <3>4
    <3>7. ~(Cardinality(UpTo(totals, w)) > i)
      BY <3>4, <3>6
    <3>8. UpTo(totals, w) \in SUBSET (1..Runs)
      BY DEF UpTo
    <3>9. Cardinality(Under(totals, least)) <= Cardinality(UpTo(totals, w))
      BY <3>5, <3>8, FewerRuns
    <3>10. Cardinality(Under(totals, least)) \in Nat /\ Cardinality(UpTo(totals, w)) \in Nat
      BY <3>5, <3>8, CountsOfRuns
    <3> QED BY <3>7, <3>9, <3>10
  <2> QED BY <2>1, <2>2
<1>8. Ranked(totals, i) = (CHOOSE value \in V : /\ Cardinality(Under(totals, value)) <= i
                                                /\ Cardinality(UpTo(totals, value)) > i)
  BY DEF Ranked, ValuesOf, Under, UpTo
<1>9. \E value \in V : /\ Cardinality(Under(totals, value)) <= i
                       /\ Cardinality(UpTo(totals, value)) > i
  BY <1>6, <1>7
<1> HIDE DEF V
<1> QED BY <1>8, <1>9 DEF V

\* A higher rank has no lower value.
LEMMA RankedMonotone ==
  ASSUME NEW totals \in Totals, NEW i \in 0..(Runs - 1), NEW j \in 0..(Runs - 1), i <= j
  PROVE  Ranked(totals, i) <= Ranked(totals, j)
PROOF
<1> DEFINE a == Ranked(totals, i)
           b == Ranked(totals, j)
<1>1. a \in Int /\ b \in Int
  BY RankedFacts, ValuesFinite
<1>2. Cardinality(Under(totals, a)) <= i
  BY RankedFacts
<1>3. Cardinality(UpTo(totals, b)) > j
  BY RankedFacts
<1> HIDE DEF a, b
<1> SUFFICES ASSUME b < a PROVE FALSE
  BY <1>1 DEF a, b
<1>4. UpTo(totals, b) \subseteq Under(totals, a)
  BY <1>1 DEF UpTo, Under, Totals
<1>5. Under(totals, a) \in SUBSET (1..Runs)
  BY DEF Under
<1>6. Cardinality(UpTo(totals, b)) <= Cardinality(Under(totals, a))
  BY <1>4, <1>5, FewerRuns
<1>7. Cardinality(UpTo(totals, b)) \in Nat /\ Cardinality(Under(totals, a)) \in Nat
  BY <1>4, <1>5, CountsOfRuns
<1> QED BY <1>2, <1>3, <1>6, <1>7

\* The ranks of the percentiles that are shown.
LEMMA PercentileRank ==
  ASSUME NEW tenths \in 0..10
  PROVE  Rounded(tenths * (Runs - 1), 10) \in 0..(Runs - 1)
PROOF
<1>1. 0 * 10 <= tenths * (Runs - 1) /\ tenths * (Runs - 1) <= (Runs - 1) * 10
  BY RunsFact
<1>2. tenths * (Runs - 1) \in Int /\ Runs - 1 \in Int
  BY RunsFact
<1> QED BY <1>1, <1>2, RoundedBounds

LEMMA PercentileOrder ==
  ASSUME NEW totals \in Totals
  PROVE  /\ Percentile(totals, 1) \in ValuesOf(totals)
         /\ Percentile(totals, 5) \in ValuesOf(totals)
         /\ Percentile(totals, 9) \in ValuesOf(totals)
         /\ Percentile(totals, 1) <= Percentile(totals, 5)
         /\ Percentile(totals, 5) <= Percentile(totals, 9)
PROOF
<1> DEFINE rank(tenths) == Rounded(tenths * (Runs - 1), 10)
<1>1. rank(1) \in 0..(Runs - 1) /\ rank(5) \in 0..(Runs - 1) /\ rank(9) \in 0..(Runs - 1)
  BY PercentileRank
<1>2. rank(1) <= rank(5) /\ rank(5) <= rank(9)
  <2>1. /\ 1 * (Runs - 1) \in Int /\ 5 * (Runs - 1) \in Int /\ 9 * (Runs - 1) \in Int
        /\ 1 * (Runs - 1) <= 5 * (Runs - 1) /\ 5 * (Runs - 1) <= 9 * (Runs - 1)
    BY RunsFact
  <2> QED BY <2>1, RoundedMonotone
<1> HIDE DEF rank
<1>3. /\ Ranked(totals, rank(1)) \in ValuesOf(totals)
      /\ Ranked(totals, rank(5)) \in ValuesOf(totals)
      /\ Ranked(totals, rank(9)) \in ValuesOf(totals)
  BY <1>1, RankedFacts
<1>4. /\ Ranked(totals, rank(1)) <= Ranked(totals, rank(5))
      /\ Ranked(totals, rank(5)) <= Ranked(totals, rank(9))
  BY <1>1, <1>2, RankedMonotone
<1> QED BY <1>3, <1>4 DEF Percentile, rank

-----------------------------------------------------------------------------
(* What a run can gain.                                                    *)

OneMore(before, rows) == {g + row.score : g \in before, row \in rows}

GainEntry(gain, rows, n) == IF n = 0 THEN {0} ELSE OneMore(gain[n - 1], rows)

GainTable(gain, rows, last) == gain = [n \in 0..last |-> GainEntry(gain, rows, n)]

LEMMA GainTableExists ==
  ASSUME NEW rows, NEW last \in Nat
  PROVE  \E gain : GainTable(gain, rows, last)
PROOF
<1> DEFINE G == {n \in Nat : \E gain : GainTable(gain, rows, n)}
<1>1. 0 \in G
  <2> DEFINE gain == [n \in 0..0 |-> {0}]
  <2>1. GainTable(gain, rows, 0)
    BY DEF GainTable, GainEntry
  <2> HIDE DEF gain
  <2> QED BY <2>1
<1>2. \A n \in Nat : n \in G => n + 1 \in G
  <2> SUFFICES ASSUME NEW n \in Nat, n \in G PROVE n + 1 \in G
    OBVIOUS
  <2>1. PICK gain : GainTable(gain, rows, n)
    OBVIOUS
  <2> DEFINE more == [k \in 0..(n + 1) |-> GainEntry(gain, rows, k)]
  <2>2. \A k \in 0..n : more[k] = gain[k]
    BY <2>1 DEF GainTable
  <2>3. ASSUME NEW k \in 0..(n + 1) PROVE GainEntry(more, rows, k) = GainEntry(gain, rows, k)
    <3>1. k # 0 => k - 1 \in 0..n
      OBVIOUS
    <3>2. k # 0 => more[k - 1] = gain[k - 1]
      BY <2>2, <3>1
    <3> HIDE DEF more
    <3> QED BY <3>2 DEF GainEntry
  <2>4. GainTable(more, rows, n + 1)
    BY <2>3 DEF GainTable
  <2>5. \E each : GainTable(each, rows, n + 1)
    <3> HIDE DEF more
    <3> QED BY <2>4
  <2> HIDE DEF more
  <2> QED BY <2>5
<1>3. Nat \subseteq G
  <2> HIDE DEF G
  <2> QED BY <1>1, <1>2, NatBySets
<1> QED BY <1>3

LEMMA LengthFact ==
  /\ LastRing \in Nat /\ LastRing >= 1
  /\ \A n \in 0..LastRing : /\ Cardinality(RingsToDraw(n)) = LastRing - n
                            /\ LastRing - n \in 0..LastRing
PROOF
<1>1. LastRing \in Nat /\ LastRing >= 1
  BY ProjectionAssumption
<1>2. ASSUME NEW n \in 0..LastRing
      PROVE  Cardinality(RingsToDraw(n)) = LastRing - n
  <2>1. n + 1 \in Int /\ LastRing \in Int
    BY <1>1
  <2>2. Cardinality((n + 1)..LastRing) = IF n + 1 > LastRing THEN 0 ELSE LastRing - (n + 1) + 1
    BY <2>1, FS_Interval
  <2> QED BY <1>1, <2>2 DEF RingsToDraw
<1> QED BY <1>1, <1>2

LEMMA GainsOfTable ==
  ASSUME NEW rows, NEW done \in 0..LastRing
  PROVE  \E gain : /\ \A n \in 0..LastRing : gain[n] = GainEntry(gain, rows, n)
                   /\ Gains(done, rows) = gain[LastRing - done]
PROOF
<1> DEFINE gain == CHOOSE gain : GainTable(gain, rows, LastRing + 1)
<1>1. Gains(done, rows) = gain[Cardinality(RingsToDraw(done))]
  BY DEF Gains, GainTable, GainEntry, OneMore
<1>2. GainTable(gain, rows, LastRing + 1)
  <2>1. \E each : GainTable(each, rows, LastRing + 1)
    BY LengthFact, GainTableExists
  <2> QED BY <2>1
<1> HIDE DEF gain
<1>3. \A n \in 0..LastRing : gain[n] = GainEntry(gain, rows, n)
  BY <1>2, LengthFact DEF GainTable
<1>4. Gains(done, rows) = gain[LastRing - done]
  BY <1>1, LengthFact
<1> QED BY <1>3, <1>4

\* After the last ring nothing is gained, and without rows nothing is drawn.
LEMMA GainsAtEnds ==
  ASSUME NEW rows, NEW done \in 0..LastRing
  PROVE  /\ done = LastRing => Gains(done, rows) = {0}
         /\ done < LastRing /\ rows = {} => Gains(done, rows) = {}
PROOF
<1>1. PICK gain : /\ \A n \in 0..LastRing : gain[n] = GainEntry(gain, rows, n)
                  /\ Gains(done, rows) = gain[LastRing - done]
  BY GainsOfTable
<1>2. LastRing - done \in 0..LastRing
  BY LengthFact
<1>3. Gains(done, rows) = GainEntry(gain, rows, LastRing - done)
  BY <1>1, <1>2
<1>4. CASE done = LastRing
  BY <1>3, <1>4, LengthFact DEF GainEntry
<1>5. CASE done # LastRing
  <2>1. LastRing - done # 0
    BY <1>5, LengthFact
  <2>2. rows = {} => OneMore(gain[LastRing - done - 1], rows) = {}
    BY DEF OneMore
  <2> QED BY <1>3, <1>5, <2>1, <2>2 DEF GainEntry
<1> QED BY <1>4, <1>5

\* Every ring that is drawn gains between the least and the greatest score.
LEMMA GainsBounds ==
  ASSUME NEW rows, NEW done \in 0..LastRing, NEW lo \in Int, NEW hi \in Int,
         \A row \in rows : row.score \in lo..hi
  PROVE  \A g \in Gains(done, rows) :
           g \in Int /\ lo * (LastRing - done) <= g /\ g <= hi * (LastRing - done)
PROOF
<1>1. PICK gain : /\ \A n \in 0..LastRing : gain[n] = GainEntry(gain, rows, n)
                  /\ Gains(done, rows) = gain[LastRing - done]
  BY GainsOfTable
<1> DEFINE Within(n) == \A g \in gain[n] : g \in Int /\ lo * n <= g /\ g <= hi * n
           G == {n \in Nat : n <= LastRing => Within(n)}
<1>2. 0 \in G
  <2>1. gain[0] = {0}
    BY <1>1, LengthFact DEF GainEntry
  <2> QED BY <2>1
<1>3. \A n \in Nat : n \in G => n + 1 \in G
  <2> SUFFICES ASSUME NEW n \in Nat, Within(n), n + 1 <= LastRing,
                      NEW g \in gain[n + 1]
               PROVE  g \in Int /\ lo * (n + 1) <= g /\ g <= hi * (n + 1)
    BY LengthFact
  <2>1. n + 1 \in 0..LastRing /\ n + 1 # 0 /\ (n + 1) - 1 = n
    BY LengthFact
  <2>2. g \in OneMore(gain[n], rows)
    BY <1>1, <2>1 DEF GainEntry
  <2>3. PICK h \in gain[n], row \in rows : g = h + row.score
    BY <2>2 DEF OneMore
  <2>4. h \in Int /\ lo * n <= h /\ h <= hi * n
    OBVIOUS
  <2>5. row.score \in Int /\ lo <= row.score /\ row.score <= hi
    OBVIOUS
  <2>6. lo * (n + 1) = lo * n + lo /\ hi * (n + 1) = hi * n + hi
    OBVIOUS
  <2>7. lo * n \in Int /\ hi * n \in Int
    OBVIOUS
  <2> QED BY <2>3, <2>4, <2>5, <2>6, <2>7
<1>4. Nat \subseteq G
  <2> HIDE DEF G
  <2> QED BY <1>2, <1>3, NatBySets
<1>5. LastRing - done \in Nat /\ LastRing - done <= LastRing
  BY LengthFact
<1>6. Within(LastRing - done)
  <2> HIDE DEF Within
  <2> QED BY <1>4, <1>5
<1> QED BY <1>1, <1>6

-----------------------------------------------------------------------------
(* Tiers, bands and buckets.                                               *)

LEMMA IntervalFinite ==
  ASSUME NEW a \in Int, NEW b \in Int, NEW S \in SUBSET (a..b)
  PROVE  IsFiniteSet(S)
PROOF
<1>1. IsFiniteSet(a..b)
  BY FS_Interval
<1> QED BY <1>1, FS_Subset

LEMMA TablesFinite == IsFiniteSet(Tiers) /\ IsFiniteSet(LevelBands)
PROOF
<1>1. PICK a \in Int, b \in Int : a = 0 /\ b = 200
  OBVIOUS
<1>2. Tiers \in SUBSET (a..b)
  BY <1>1 DEF Tiers
<1>3. LevelBands \in SUBSET (a..b)
  BY <1>1 DEF LevelBands
<1> QED BY <1>2, <1>3, IntervalFinite

\* There is a tier for a score exactly when it reaches the lowest threshold.
LEMMA TierReached ==
  ASSUME NEW lvl \in 1..200, NEW points \in Int
  PROVE  /\ RewardTier(lvl, points) \in Tiers \cup {0}
         /\ RewardTier(lvl, points) \in Tiers <=> points >= RewardThreshold(lvl, 90)
PROOF
<1> DEFINE reached == {tier \in Tiers : points >= RewardThreshold(lvl, tier)}
<1>1. Tiers \subseteq Int /\ 90 \in Tiers /\ 0 \notin Tiers /\ \A tier \in Tiers : tier >= 90
  BY DEF Tiers
<1>2. \A tier \in Tiers : /\ RewardThreshold(lvl, tier) \in Int
                          /\ RewardThreshold(lvl, tier) >= RewardThreshold(lvl, 90)
  <2> TAKE tier \in Tiers
  <2>1. lvl \div 3 \in Int /\ ~(lvl <= 0)
    OBVIOUS
  <2>2. RewardThreshold(lvl, tier) = 220 - lvl \div 3 + tier - 90
    BY <2>1 DEF RewardThreshold
  <2>3. RewardThreshold(lvl, 90) = 220 - lvl \div 3 + 90 - 90
    BY <1>1, <2>1 DEF RewardThreshold
  <2> QED BY <1>1, <2>1, <2>2, <2>3
<1>3. RewardTier(lvl, points) = IF reached = {} THEN 0 ELSE Max(reached)
  BY DEF RewardTier
<1>4. reached # {} => Max(reached) \in reached
  <2>3. IsFiniteSet(reached)
    BY TablesFinite, FS_Subset
  <2>4. reached \in SUBSET Int
    BY <1>1
  <2> HIDE DEF reached
  <2> QED BY <2>3, <2>4, Extremes
<1>5. points >= RewardThreshold(lvl, 90) => reached # {}
  BY <1>1
<1>6. reached # {} => points >= RewardThreshold(lvl, 90)
  <2> SUFFICES ASSUME NEW tier \in reached PROVE points >= RewardThreshold(lvl, 90)
    OBVIOUS
  <2>1. RewardThreshold(lvl, tier) \in Int /\ RewardThreshold(lvl, 90) \in Int
    BY <1>1, <1>2
  <2>2. RewardThreshold(lvl, tier) >= RewardThreshold(lvl, 90)
    BY <1>2
  <2>3. points >= RewardThreshold(lvl, tier)
    OBVIOUS
  <2> QED BY <2>1, <2>2, <2>3
<1> QED BY <1>1, <1>3, <1>4, <1>5, <1>6

\* More points never earn a lower tier, at any level (model.mjs:90-95,
\* rules.go:129-137): a reward estimate cannot fall because the score rose.
THEOREM TierMonotone ==
  ASSUME NEW lvl \in 1..200, NEW fewer \in Int, NEW more \in Int, fewer <= more
  PROVE  RewardTier(lvl, fewer) <= RewardTier(lvl, more)
PROOF
<1> DEFINE reached(points) == {tier \in Tiers : points >= RewardThreshold(lvl, tier)}
<1>1. Tiers \subseteq Int /\ \A tier \in Tiers : tier > 0
  BY DEF Tiers
<1>2. \A tier \in Tiers : RewardThreshold(lvl, tier) \in Int
  <2> TAKE tier \in Tiers
  <2>1. lvl \div 3 \in Int /\ ~(lvl <= 0)
    OBVIOUS
  <2> QED BY <1>1, <2>1 DEF RewardThreshold
<1>3. reached(fewer) \subseteq reached(more)
  BY <1>2
<1>4. \A points : reached(points) \in SUBSET Int /\ IsFiniteSet(reached(points))
  BY <1>1, TablesFinite, FS_Subset
<1>5. \A points : RewardTier(lvl, points)
                     = IF reached(points) = {} THEN 0 ELSE Max(reached(points))
  BY DEF RewardTier
<1>6. \A points : reached(points) # {} =>
        /\ Max(reached(points)) \in reached(points)
        /\ \A tier \in reached(points) : tier <= Max(reached(points))
  <2> HIDE DEF reached
  <2> QED BY <1>4, Extremes
<1>7. \A points : reached(points) \subseteq Tiers
  OBVIOUS
<1> HIDE DEF reached
<1>8. CASE reached(fewer) = {}
  <2>1. RewardTier(lvl, fewer) = 0
    BY <1>5, <1>8
  <2>2. CASE reached(more) = {}
    BY <1>5, <2>1, <2>2
  <2>3. CASE reached(more) # {}
    <3>1. RewardTier(lvl, more) \in Tiers
      BY <1>5, <1>6, <1>7, <2>3
    <3>2. RewardTier(lvl, more) \in Int /\ RewardTier(lvl, more) > 0
      BY <1>1, <3>1
    <3> QED BY <2>1, <3>2
  <2> QED BY <2>2, <2>3
<1>9. CASE reached(fewer) # {}
  <2>1. reached(more) # {} /\ Max(reached(fewer)) \in reached(more)
    BY <1>3, <1>6, <1>9
  <2>2. /\ RewardTier(lvl, fewer) = Max(reached(fewer))
        /\ RewardTier(lvl, more) = Max(reached(more))
    BY <1>5, <1>9, <2>1
  <2>3. Max(reached(fewer)) <= Max(reached(more))
    BY <1>6, <2>1
  <2> QED BY <2>2, <2>3
<1> QED BY <1>8, <1>9

LEMMA BandKnown ==
  ASSUME NEW lvl \in 1..200
  PROVE  PlayerLevelBand(lvl) \in LevelBands
PROOF
<1> DEFINE distances == {Distance(lvl, b) : b \in LevelBands}
<1>1. LevelBands \subseteq 1..200 /\ 69 \in LevelBands
  BY DEF LevelBands
<1>2. distances \subseteq 0..200
  BY <1>1 DEF Distance
<1>3. Distance(lvl, 69) \in distances
  BY <1>1
<1>4. IsFiniteSet(distances)
  <2>1. PICK a \in Int, b \in Int : a = 0 /\ b = 200
    OBVIOUS
  <2>2. distances \in SUBSET (a..b)
    BY <1>2, <2>1
  <2> HIDE DEF distances
  <2> QED BY <2>2, IntervalFinite
<1>5. distances \in SUBSET Int /\ distances # {}
  BY <1>2, <1>3
<1>6. Min(distances) \in distances /\ \A y \in distances : Min(distances) <= y
  <2> HIDE DEF distances
  <2> QED BY <1>4, <1>5, Extremes
<1>7. PICK b \in LevelBands : Distance(lvl, b) = Min(distances)
  BY <1>6
<1>8. b \in NearestBands(lvl)
  BY <1>6, <1>7 DEF NearestBands
<1>9. NearestBands(lvl) \subseteq LevelBands
  BY DEF NearestBands
<1>10. IsFiniteSet(NearestBands(lvl))
  BY <1>9, TablesFinite, FS_Subset
<1>11. NearestBands(lvl) \in SUBSET Int /\ NearestBands(lvl) # {}
  <2>1. LevelBands \subseteq Int
    BY DEF LevelBands
  <2> QED BY <1>8, <1>9, <2>1
<1>12. Min(NearestBands(lvl)) \in NearestBands(lvl)
  BY <1>10, <1>11, Extremes
<1> QED BY <1>9, <1>12 DEF PlayerLevelBand

LEMMA RewardGroupTyped ==
  ASSUME NEW cell \in RewardCells
  PROVE  RewardGroup(cell) \in RewardRows
PROOF
<1>1. cell[1] \in 1..200 /\ cell[2] \in Int
  BY PredictionAssumption DEF RewardCells
<1>2. ServerScoreBucket(cell[2]) \in Int
  BY <1>1 DEF ServerScoreBucket, Quotient
<1>3. PlayerLevelBand(cell[1]) \in LevelBands
  BY <1>1, BandKnown
<1> QED BY <1>2, <1>3 DEF RewardGroup, RewardRows

LEMMA DivMonotone ==
  ASSUME NEW m \in Int, NEW n \in Int, m <= n, NEW d \in Nat \ {0}
  PROVE  m \div d <= n \div d
PROOF
<1> DEFINE p == m \div d
           q == n \div d
<1>1. p \in Int /\ p * d <= m /\ q \in Int /\ n < (q + 1) * d
  BY DivBounds
<1> HIDE DEF p, q
<1>2. p * d < (q + 1) * d
  BY <1>1
<1>3. p < q + 1
  BY <1>1, <1>2, TimesOrder
<1> QED BY <1>1, <1>3 DEF p, q

LEMMA TaskBucketKnown ==
  ASSUME NEW n \in 1..LastRing
  PROVE  TaskBucket(n) \in 1..TaskBucket(LastRing)
PROOF
<1>1. BucketSize \in Nat \ {0}
  BY ProjectionAssumption
<1>2. n - 1 \in Int /\ LastRing - 1 \in Int /\ 0 <= n - 1 /\ n - 1 <= LastRing - 1
  BY LengthFact
<1>3. 0 \div BucketSize <= (n - 1) \div BucketSize
  BY <1>1, <1>2, DivMonotone
<1>4. (n - 1) \div BucketSize <= (LastRing - 1) \div BucketSize
  BY <1>1, <1>2, DivMonotone
<1>5. 0 \div BucketSize = 0
  BY <1>1
<1>6. (n - 1) \div BucketSize \in Int /\ (LastRing - 1) \div BucketSize \in Int
  BY <1>1, <1>2, DivBounds
<1> QED BY <1>3, <1>4, <1>5, <1>6 DEF TaskBucket

\* The first query answers rows of existing buckets, and only finitely many.
LEMMA TaskAggregatesTyped ==
  ASSUME NEW rows \in [TaskCells -> Nat]
  PROVE  /\ TaskAggregates(rows) \subseteq TaskRows
         /\ IsFiniteSet({c \in TaskCells : rows[c] > 0}) => IsFiniteSet(TaskAggregates(rows))
PROOF
<1> DEFINE class(cell) == {c \in TaskCells : /\ TaskBucket(c[1]) = TaskBucket(cell[1])
                                             /\ c[2] = cell[2]}
           row(cell) == [bucket |-> TaskBucket(cell[1]), score |-> cell[2],
                         count |-> Sum(rows, class(cell))]
           stored == {c \in TaskCells : rows[c] > 0}
<1>1. TaskAggregates(rows) = {row(cell) : cell \in stored}
  BY DEF TaskAggregates, Sum
<1>2. ASSUME NEW cell \in stored PROVE row(cell) \in TaskRows
  <2>1. cell[1] \in 1..LastRing /\ cell[2] \in RequestedScores
    BY DEF TaskCells
  <2>2. TaskBucket(cell[1]) \in 1..TaskBucket(LastRing)
    BY <2>1, TaskBucketKnown
  <2>3. IsFiniteSet((1..LastRing) \X {cell[2]})
    <3>1. IsFiniteSet(1..LastRing)
      BY LengthFact, FS_Interval
    <3>2. IsFiniteSet({cell[2]})
      BY FS_Singleton
    <3> QED BY <3>1, <3>2, FS_Product
  <2>4. class(cell) \subseteq (1..LastRing) \X {cell[2]}
    BY DEF TaskCells
  <2>5. IsFiniteSet(class(cell))
    BY <2>3, <2>4, FS_Subset
  <2>6. \A c \in class(cell) : rows[c] \in Nat
    OBVIOUS
  <2>7. cell \in class(cell) /\ rows[cell] > 0
    OBVIOUS
  <2>8. Sum(rows, class(cell)) \in Nat /\ Sum(rows, class(cell)) > 0
    <3> HIDE DEF class
    <3> QED BY <2>5, <2>6, <2>7, SumCounts
  <2> HIDE DEF class
  <2> QED BY <2>1, <2>2, <2>8 DEF TaskRows
<1>3. TaskAggregates(rows) \subseteq TaskRows
  <2> HIDE DEF row
  <2> QED BY <1>1, <1>2
<1>4. ASSUME IsFiniteSet(stored) PROVE IsFiniteSet(TaskAggregates(rows))
  <2> DEFINE answer == [cell \in stored |-> row(cell)]
  <2> HIDE DEF row, stored
  <2>1. answer \in Surjection(stored, TaskAggregates(rows))
    BY <1>1 DEF Surjection
  <2> HIDE DEF answer
  <2> QED BY <1>4, <2>1, FS_Surjection
<1> QED BY <1>3, <1>4

LEMMA PageScoresTyped ==
  ASSUME NEW task \in Tasks, NEW resolution
  PROVE  resolution \in ResolutionsForTask(task) =>
           PageScores(task, resolution, NoQualities) \subseteq Int
PROOF
<1> HAVE resolution \in ResolutionsForTask(task)
<1>1. PageBase[task] \in Int
  BY DEF PageBase, Tasks
<1>2. ~Given(NoQualities)
  BY DEF Given
<1>3. ScoreTask(task, NoQualities) \subseteq Int
  BY <1>1, <1>2 DEF ScoreTask
<1>4. resolution \in Resolutions
  BY DEF ResolutionsForTask, Resolutions
<1>5. CASE resolution = "fulfilled"
  BY <1>1, <1>3, <1>5 DEF PageScores
<1>6. CASE resolution = "quality_below"
  BY <1>2, <1>6 DEF PageScores
<1>7. CASE resolution \in {"mutant_unspecified", "normal_pet"}
  BY <1>7 DEF PageScores, PageFixed
<1>8. CASE resolution = "skipped"
  BY <1>8 DEF PageScores, PageFixed
<1> QED BY <1>4, <1>5, <1>6, <1>7, <1>8 DEF Resolutions

-----------------------------------------------------------------------------
(* The tables and the page's copy of them.                                 *)

\* Other players are finitely many, and so is what a query of their rows
\* answers (sqlite.go:186-207): a least and a greatest score exist.
FinitelyMany ==
  /\ IsFiniteSet({c \in TaskCells : tasks[c] > 0})
  /\ IsFiniteSet(buckets)
  /\ IsFiniteSet(model.taskBuckets)

\* A page that has a model asks no more (app.mjs:462-472).
AnsweredOnce == model # EmptyModel => loading = "over"

\* An answer no query of which broke off has the group of every reward
\* (sqlite.go:209-229).
AnsweredWhole ==
  model # EmptyModel /\ ~cut => model.rewardBuckets = RewardAggregates(rewards)

PInv == TypeOK /\ FinitelyMany /\ AnsweredOnce /\ AnsweredWhole

LEMMA PredictionInit == Init => PInv
PROOF
<1> SUFFICES ASSUME Init PROVE PInv
  OBVIOUS
<1>1. TypeOK
  <2>1. level \in 1..200
    BY PredictionAssumption DEF Init
  <2>2. ring \in 0..LastRing /\ score \in Int
    BY LengthFact DEF Init
  <2>3. model.taskBuckets = {} /\ model.rewardBuckets = {}
    BY DEF Init, EmptyModel
  <2> QED BY <2>1, <2>2, <2>3 DEF Init, TypeOK
<1>2. FinitelyMany
  <2>1. {c \in TaskCells : tasks[c] > 0} = {}
    BY DEF Init
  <2>2. model.taskBuckets = {} /\ buckets = {}
    BY DEF Init, EmptyModel
  <2> QED BY <2>1, <2>2, FS_EmptySet DEF FinitelyMany
<1>3. AnsweredOnce /\ AnsweredWhole
  BY DEF Init, AnsweredOnce, AnsweredWhole
<1> QED BY <1>1, <1>2, <1>3 DEF PInv

\* A step of the other players: the page has no model yet.
LEMMA PlayersStep ==
  ASSUME PInv, loading \in {"asked", "counted"},
         UNCHANGED <<loading, buckets, model, cut, page>>,
         tasks' \in [TaskCells -> Nat], rewards' \in [RewardCells -> Nat],
         \E cell \in TaskCells : \A c \in TaskCells \ {cell} : tasks'[c] = tasks[c]
  PROVE  PInv'
PROOF
<1>1. model = EmptyModel
  BY DEF PInv, AnsweredOnce
<1>2. TypeOK'
  BY DEF PInv, TypeOK, page
<1>3. FinitelyMany'
  <2>1. PICK cell \in TaskCells : \A c \in TaskCells \ {cell} : tasks'[c] = tasks[c]
    OBVIOUS
  <2> DEFINE before == {c \in TaskCells : tasks[c] > 0}
             after == {c \in TaskCells : tasks'[c] > 0}
  <2>2. after \subseteq before \cup {cell}
    BY <2>1
  <2>3. IsFiniteSet(before \cup {cell})
    BY FS_AddElement DEF PInv, FinitelyMany
  <2>4. IsFiniteSet(after)
    <3> HIDE DEF before, after
    <3> QED BY <2>2, <2>3, FS_Subset
  <2> QED BY <2>4 DEF PInv, FinitelyMany
<1>4. AnsweredOnce' /\ AnsweredWhole'
  BY <1>1 DEF AnsweredOnce, AnsweredWhole, EmptyModel
<1> QED BY <1>2, <1>3, <1>4 DEF PInv

LEMMA TasksChange ==
  ASSUME PInv, NEW cell \in TaskCells, PostTask(cell) \/ DeleteTask(cell)
  PROVE  PInv'
PROOF
<1>1. tasks \in [TaskCells -> Nat] /\ rewards \in [RewardCells -> Nat]
  BY DEF PInv, TypeOK
<1>2. tasks[cell] \in Nat
  BY <1>1
<1>3. tasks' \in [TaskCells -> Nat]
  <2>1. CASE PostTask(cell)
    BY <1>1, <1>2, <2>1 DEF PostTask
  <2>2. CASE DeleteTask(cell)
    <3>1. tasks[cell] - 1 \in Nat
      BY <1>2, <2>2 DEF DeleteTask
    <3> QED BY <1>1, <2>2, <3>1 DEF DeleteTask
  <2> QED BY <2>1, <2>2
<1>4. \A c \in TaskCells \ {cell} : tasks'[c] = tasks[c]
  BY <1>1 DEF PostTask, DeleteTask
<1>5. /\ loading \in {"asked", "counted"}
      /\ UNCHANGED <<rewards, loading, buckets, model, cut, page>>
  BY DEF PostTask, DeleteTask
<1>6. rewards' \in [RewardCells -> Nat]
  BY <1>1, <1>5
<1> QED BY <1>3, <1>4, <1>5, <1>6, PlayersStep

LEMMA RewardsChange ==
  ASSUME PInv, NEW cell \in RewardCells, PostReward(cell)
  PROVE  PInv'
PROOF
<1>1. /\ loading \in {"asked", "counted"}
      /\ UNCHANGED <<tasks, loading, buckets, model, cut, page>>
  BY DEF PostReward
<1>2. rewards' \in [RewardCells -> Nat]
  <2>1. rewards \in [RewardCells -> Nat] /\ rewards[cell] \in Nat
    BY DEF PInv, TypeOK
  <2> QED BY <2>1 DEF PostReward
<1>3. model = EmptyModel
  BY <1>1 DEF PInv, AnsweredOnce
<1>4. TypeOK'
  BY <1>1, <1>2 DEF PInv, TypeOK, page
<1>5. FinitelyMany'
  BY <1>1 DEF PInv, FinitelyMany
<1>6. AnsweredOnce' /\ AnsweredWhole'
  BY <1>1, <1>3 DEF AnsweredOnce, AnsweredWhole, EmptyModel
<1> QED BY <1>4, <1>5, <1>6 DEF PInv

LEMMA TasksAnswered ==
  ASSUME PInv, NEW read \in SUBSET TaskAggregates(tasks), QueryTasks(read)
  PROVE  PInv'
PROOF
<1>1. /\ loading = "asked" /\ loading' = "counted" /\ buckets' = read
      /\ UNCHANGED <<tasks, rewards, model, ring, score, level>>
      /\ cut' = (cut \/ read # TaskAggregates(tasks))
  BY DEF QueryTasks, Read, tables, page
<1>2. read \subseteq TaskRows /\ IsFiniteSet(read)
  <2>1. /\ TaskAggregates(tasks) \subseteq TaskRows
        /\ IsFiniteSet(TaskAggregates(tasks))
    BY TaskAggregatesTyped DEF PInv, TypeOK, FinitelyMany
  <2> QED BY <2>1, FS_Subset
<1>3. model = EmptyModel
  BY <1>1 DEF PInv, AnsweredOnce
<1>4. TypeOK'
  BY <1>1, <1>2 DEF PInv, TypeOK
<1>5. FinitelyMany'
  BY <1>1, <1>2 DEF PInv, FinitelyMany
<1>6. AnsweredOnce' /\ AnsweredWhole'
  BY <1>1, <1>3 DEF AnsweredOnce, AnsweredWhole, EmptyModel
<1> QED BY <1>4, <1>5, <1>6 DEF PInv

LEMMA RewardsAnswered ==
  ASSUME PInv, NEW read \in SUBSET RewardAggregates(rewards), QueryRewards(read)
  PROVE  PInv'
PROOF
<1>1. /\ loading' = "over" /\ buckets' = {}
      /\ model' = [taskBuckets |-> buckets, rewardBuckets |-> read]
      /\ UNCHANGED <<tasks, rewards, ring, score, level>>
      /\ cut' = (cut \/ read # RewardAggregates(rewards))
  BY DEF QueryRewards, Read, tables, page
<1>2. model'.taskBuckets = buckets /\ model'.rewardBuckets = read
  BY <1>1
<1>3. read \subseteq RewardRows
  BY RewardGroupTyped DEF RewardAggregates
<1>4. TypeOK'
  BY <1>1, <1>2, <1>3 DEF PInv, TypeOK
<1>5. FinitelyMany'
  <2>1. IsFiniteSet(buckets') /\ IsFiniteSet(model'.taskBuckets)
    BY <1>1, <1>2, FS_EmptySet DEF PInv, FinitelyMany
  <2> QED BY <1>1, <2>1 DEF PInv, FinitelyMany
<1>6. AnsweredOnce'
  BY <1>1 DEF AnsweredOnce
<1>7. AnsweredWhole'
  <2>1. ~cut' => read = RewardAggregates(rewards)
    BY <1>1
  <2>2. RewardAggregates(rewards)' = RewardAggregates(rewards)
    BY <1>1 DEF RewardAggregates
  <2> QED BY <1>2, <2>1, <2>2 DEF AnsweredWhole
<1> QED BY <1>4, <1>5, <1>6, <1>7 DEF PInv

\* A step of the page alone, or the end of its request without an answer.
LEMMA PageStep ==
  ASSUME PInv, UNCHANGED <<tasks, rewards, model, cut>>, loading' = "over",
         buckets' \in {buckets, {}},
         ring' \in 0..LastRing, score' \in Int, level' \in 1..200
  PROVE  PInv'
PROOF
<1>1. TypeOK'
  BY DEF PInv, TypeOK
<1>2. FinitelyMany'
  <2>1. IsFiniteSet(buckets')
    BY FS_EmptySet DEF PInv, FinitelyMany
  <2> QED BY <2>1 DEF PInv, FinitelyMany
<1>3. AnsweredOnce'
  BY DEF AnsweredOnce
<1>4. AnsweredWhole'
  <2>1. RewardAggregates(rewards)' = RewardAggregates(rewards)
    BY DEF RewardAggregates
  <2> QED BY <2>1 DEF PInv, AnsweredWhole
<1> QED BY <1>1, <1>2, <1>3, <1>4 DEF PInv

LEMMA RequestFails ==
  ASSUME PInv, ModelUnavailable
  PROVE  PInv'
PROOF
<1>1. ring' \in 0..LastRing /\ score' \in Int /\ level' \in 1..200
  BY DEF PInv, TypeOK, ModelUnavailable, page
<1> QED BY <1>1, PageStep DEF ModelUnavailable, tables

LEMMA SetupChanges ==
  ASSUME PInv, NEW initialRing \in RingInputs, NEW initialScore \in Setups,
         NEW playerLevel \in Levels, UpdateCycleSetup(initialRing, initialScore, playerLevel)
  PROVE  PInv'
PROOF
<1>1. ring' \in 0..LastRing /\ score' \in Int /\ level' \in 1..200
  BY LengthFact, PredictionAssumption DEF UpdateCycleSetup
<1>2. loading' = "over"
  BY DEF UpdateCycleSetup
<1> QED BY <1>1, <1>2, PageStep DEF UpdateCycleSetup, tables

LEMMA EntryAdded ==
  ASSUME PInv, NEW task \in Compared, NEW resolution \in ResolutionsForTask(task),
         AddEntry(task, resolution, NoQualities)
  PROVE  PInv'
PROOF
<1>1. task \in Tasks
  BY PredictionAssumption
<1>2. PICK gained \in PageScores(task, resolution, NoQualities) : score' = score + gained
  BY DEF AddEntry
<1>3. gained \in Int
  BY <1>1, <1>2, PageScoresTyped
<1>4. score' \in Int
  BY <1>2, <1>3 DEF PInv, TypeOK
<1>5. ring' \in 0..LastRing
  BY LengthFact DEF AddEntry, RingLeft, PInv, TypeOK
<1>6. level' \in 1..200
  BY DEF AddEntry, PInv, TypeOK
<1>7. loading' = "over"
  BY DEF AddEntry
<1> QED BY <1>4, <1>5, <1>6, <1>7, PageStep DEF AddEntry, tables

\* What the predictions rest on (sqlite.go:186-229, app.mjs:462-472): the
\* model on the page is a set of finitely many well-formed groups, fetched at
\* most once, and unless a query broke off it has the group of every reward.
THEOREM PredictionInductive == Spec => []PInv
PROOF
<1>1. Init => PInv
  BY PredictionInit
<1>2. PInv /\ [Next]_vars => PInv'
  <2> SUFFICES ASSUME PInv, [Next]_vars PROVE PInv'
    OBVIOUS
  <2>1. CASE \E cell \in TaskCells : PostTask(cell) \/ DeleteTask(cell)
    BY <2>1, TasksChange
  <2>2. CASE \E cell \in RewardCells : PostReward(cell)
    BY <2>2, RewardsChange
  <2>3. CASE \E read \in SUBSET TaskAggregates(tasks) : QueryTasks(read)
    BY <2>3, TasksAnswered
  <2>4. CASE \E read \in SUBSET RewardAggregates(rewards) : QueryRewards(read)
    BY <2>4, RewardsAnswered
  <2>5. CASE ModelUnavailable
    BY <2>5, RequestFails
  <2>6. CASE \E initialRing \in RingInputs, initialScore \in Setups, playerLevel \in Levels :
               UpdateCycleSetup(initialRing, initialScore, playerLevel)
    BY <2>6, SetupChanges
  <2>7. CASE \E task \in Compared : \E resolution \in ResolutionsForTask(task) :
               AddEntry(task, resolution, NoQualities)
    BY <2>7, EntryAdded
  <2>8. CASE UNCHANGED vars
    <3>1. RewardAggregates(rewards)' = RewardAggregates(rewards)
      BY <2>8 DEF vars, tables, RewardAggregates
    <3> QED BY <2>8, <3>1 DEF vars, tables, page, PInv, TypeOK, FinitelyMany,
                              AnsweredOnce, AnsweredWhole
  <2> QED BY <2>1, <2>2, <2>3, <2>4, <2>5, <2>6, <2>7, <2>8 DEF Next
<1> QED BY <1>1, <1>2, PTL DEF Spec

\* The tables hold counts, the model only groups of existing rings, and the
\* page's ring never leaves the cycle (app.mjs:349, sqlite.go:188-229).
THEOREM PredictionTyped == Spec => []TypeOK
PROOF
<1>1. PInv => TypeOK
  BY DEF PInv
<1> QED BY <1>1, PredictionInductive, PTL

-----------------------------------------------------------------------------
(* What the page shows, by the three ways to a prediction.                 *)

\* The least and the greatest score somebody met.
LEMMA ScoresMet ==
  ASSUME NEW rows \in SUBSET TaskRows, IsFiniteSet(rows), rows # {}
  PROVE  LET met == {row.score : row \in rows} IN
         /\ Min(met) \in Int /\ Max(met) \in Int
         /\ \A row \in rows : row.score \in Min(met)..Max(met)
PROOF
<1> DEFINE met == {row.score : row \in rows}
           scoreOf == [row \in rows |-> row.score]
<1>1. met \in SUBSET Int
  BY PredictionAssumption DEF TaskRows
<1>2. scoreOf \in Surjection(rows, met)
  BY DEF Surjection
<1>3. IsFiniteSet(met)
  <2> HIDE DEF met, scoreOf
  <2> QED BY <1>2, FS_Surjection
<1>4. met # {} /\ \A row \in rows : row.score \in met
  OBVIOUS
<1>5. /\ Min(met) \in met /\ Max(met) \in met
      /\ \A y \in met : Min(met) <= y /\ y <= Max(met)
  <2> HIDE DEF met
  <2> QED BY <1>1, <1>3, <1>4, Extremes
<1> HIDE DEF met
<1>6. Min(met) \in Int /\ Max(met) \in Int
  BY <1>1, <1>5
<1>7. \A row \in rows : row.score \in Int /\ Min(met) <= row.score /\ row.score <= Max(met)
  BY <1>1, <1>4, <1>5
<1> QED BY <1>6, <1>7 DEF met

\* Whatever is drawn, the runs gain integers.
LEMMA DrawsTyped ==
  ASSUME NEW rows \in SUBSET TaskRows, IsFiniteSet(rows), NEW done \in 0..LastRing,
         NEW draws \in Draws(done, rows)
  PROVE  draws \in Totals
PROOF
<1>1. PICK lo \in Int, hi \in Int : \A row \in rows : row.score \in lo..hi
  <2>1. CASE rows = {}
    BY <2>1
  <2>2. CASE rows # {}
    BY <2>2, ScoresMet
  <2> QED BY <2>1, <2>2
<1>2. \A g \in Gains(done, rows) : g \in Int
  BY <1>1, GainsBounds
<1> QED BY <1>2 DEF Draws, Totals

\* Added to a score.
LEMMA TotalsTyped ==
  ASSUME NEW points \in Int, NEW draws \in Totals
  PROVE  [run \in 1..Runs |-> points + draws[run]] \in Totals
PROOF BY DEF Totals

Mean(totals) == Rounded(MapThenSumSet(LAMBDA run : totals[run], 1..Runs), Runs)

\* The mean of the runs lies where the runs lie.
LEMMA MeanBounds ==
  ASSUME NEW totals \in Totals, NEW lo \in Int, NEW hi \in Int,
         \A run \in 1..Runs : totals[run] \in lo..hi
  PROVE  Mean(totals) \in Int /\ lo <= Mean(totals) /\ Mean(totals) <= hi
PROOF
<1>1. /\ Sum(totals, 1..Runs) \in Int
      /\ lo * Runs <= Sum(totals, 1..Runs) /\ Sum(totals, 1..Runs) <= hi * Runs
  BY RunsFact, SumBounds
<1>2. Runs \in Nat \ {0}
  BY RunsFact
<1> QED BY <1>1, <1>2, RoundedBounds DEF Mean, Sum

LEMMA MeanTyped ==
  ASSUME NEW totals \in Totals
  PROVE  Mean(totals) \in Int
PROOF
<1>1. Sum(totals, 1..Runs) \in Int
  BY RunsFact, SumMonotone DEF Totals
<1>2. Runs \in Nat \ {0}
  BY RunsFact
<1>3. 2 * Sum(totals, 1..Runs) + Runs \in Int /\ 2 * Runs \in Nat \ {0}
  BY <1>1, <1>2
<1> QED BY <1>3, DivBounds DEF Mean, Sum, Rounded

LEMMA MeanMonotone ==
  ASSUME NEW a \in Totals, NEW b \in Totals, \A run \in 1..Runs : a[run] <= b[run]
  PROVE  Mean(a) <= Mean(b)
PROOF
<1>1. /\ Sum(a, 1..Runs) \in Int /\ Sum(b, 1..Runs) \in Int
      /\ Sum(a, 1..Runs) <= Sum(b, 1..Runs)
  BY RunsFact, SumMonotone DEF Totals
<1>2. Runs \in Nat \ {0}
  BY RunsFact
<1> QED BY <1>1, <1>2, RoundedMonotone DEF Mean, Sum

TotalsOf(points, draws) == [run \in 1..Runs |-> points + draws[run]]

\* The three ways to a prediction.
LEMMA ProjectionCases ==
  ASSUME NEW done \in 0..LastRing, NEW points, NEW lvl, NEW rows, NEW draws
  PROVE  LET shown == SimulateProjection(done, points, lvl, rows, draws) IN
         /\ done < MinPredictionRings => shown = UnavailableProjection
         /\ done >= MinPredictionRings /\ ~Simulates(done, rows) =>
              shown = FallbackProjection(done, points, lvl)
         /\ done >= MinPredictionRings /\ Simulates(done, rows) =>
              shown = Simulation(points, lvl, draws)
PROOF
<1>1. done \in Int /\ MinPredictionRings \in Int
  BY LengthFact, ProjectionAssumption
<1>2. CASE done < MinPredictionRings
  <2>1. ~(done >= MinPredictionRings)
    BY <1>1, <1>2
  <2> QED BY <1>2, <2>1 DEF SimulateProjection
<1>3. CASE ~(done < MinPredictionRings) /\ ~Simulates(done, rows)
  BY <1>3 DEF SimulateProjection
<1>4. CASE ~(done < MinPredictionRings) /\ Simulates(done, rows)
  BY <1>4 DEF SimulateProjection
<1> QED BY <1>2, <1>3, <1>4

LEMMA SimulationFields ==
  ASSUME NEW points, NEW lvl, NEW draws
  PROVE  LET shown  == Simulation(points, lvl, draws)
             totals == TotalsOf(points, draws) IN
         /\ shown.method = "simulation"
         /\ shown.expected = Mean(totals)
         /\ shown.p10 = Percentile(totals, 1)
         /\ shown.p50 = Percentile(totals, 5)
         /\ shown.p90 = Percentile(totals, 9)
         /\ shown.tier = RewardTier(lvl, Mean(totals))
         /\ shown.hits = TierHits(lvl, totals)
PROOF BY DEF Simulation, Mean, TotalsOf

\* What is drawn where the page simulates, and where it does not.
LEMMA DrawsPossible ==
  ASSUME PInv, NEW done \in 0..LastRing, NEW draws \in PossibleDraws(done)
  PROVE  /\ draws \in Totals
         /\ Simulates(done, model.taskBuckets) => draws \in Draws(done, model.taskBuckets)
PROOF
<1>1. model.taskBuckets \in SUBSET TaskRows /\ IsFiniteSet(model.taskBuckets)
  BY DEF PInv, TypeOK, FinitelyMany
<1>2. CASE Simulates(done, model.taskBuckets)
  <2>1. draws \in Draws(done, model.taskBuckets)
    BY <1>2 DEF PossibleDraws
  <2> QED BY <1>1, <2>1, DrawsTyped
<1>3. CASE ~Simulates(done, model.taskBuckets)
  BY <1>3 DEF PossibleDraws, Totals
<1> QED BY <1>2, <1>3

\* The score that is expected is a whole one.
LEMMA ExpectedTyped ==
  ASSUME NEW done \in 0..LastRing, NEW points \in Int, NEW lvl, NEW rows, NEW draws \in Totals
  PROVE  SimulateProjection(done, points, lvl, rows, draws).expected \in Int
PROOF
<1>1. done \in Int /\ MinPredictionRings \in Int /\ MinPredictionRings >= 1
  BY LengthFact, ProjectionAssumption
<1>2. CASE done < MinPredictionRings
  BY <1>2, ProjectionCases DEF UnavailableProjection
<1>3. CASE ~(done < MinPredictionRings) /\ ~Simulates(done, rows)
  <2>1. SimulateProjection(done, points, lvl, rows, draws)
          = FallbackProjection(done, points, lvl)
    BY <1>1, <1>3, ProjectionCases
  <2>2. done \in Nat \ {0} /\ points * LastRing \in Int
    BY <1>1, <1>3, LengthFact
  <2>3. 2 * (points * LastRing) + done \in Int /\ 2 * done \in Nat \ {0}
    BY <2>2
  <2>4. Rounded(points * LastRing, done) \in Int
    BY <2>3, DivBounds DEF Rounded
  <2> QED BY <2>1, <2>4 DEF FallbackProjection
<1>4. CASE ~(done < MinPredictionRings) /\ Simulates(done, rows)
  <2>1. SimulateProjection(done, points, lvl, rows, draws) = Simulation(points, lvl, draws)
    BY <1>1, <1>4, ProjectionCases
  <2>2. Mean(TotalsOf(points, draws)) \in Int
    BY TotalsTyped, MeanTyped DEF TotalsOf
  <2> QED BY <2>1, <2>2, SimulationFields
<1> QED BY <1>2, <1>3, <1>4

-----------------------------------------------------------------------------
(* What the predictions promise.                                           *)

\* The page simulates only when the bucket of every ring that remains has
\* enough samples, the buckets being the server's: both count them by the
\* same division (sqlite.go:189, model.mjs:149-155).
THEOREM Supported == Spec => []SimulationSupported
PROOF
<1>1. PInv => SimulationSupported
  <2> SUFFICES ASSUME PInv, Simulates(ring, model.taskBuckets),
                      NEW n \in (ring + 1)..LastRing
               PROVE  SampleCount({row \in model.taskBuckets : row.bucket = TaskBucket(n)})
                        >= MinBucketSamples
    BY DEF SimulationSupported
  <2>1. ring \in 0..LastRing
    BY DEF PInv, TypeOK
  <2>2. n - 1 - ring \in 0..(LastRing - ring - 1) /\ ring + (n - 1 - ring) = n - 1
    BY <2>1, LengthFact
  <2>3. TaskBucket(n) \in RemainingBuckets(ring)
    BY <2>2 DEF RemainingBuckets, TaskBucket
  <2> QED BY <2>3 DEF Simulates, Covered
<1> QED BY <1>1, PredictionInductive, PTL

\* With the last ring done every prediction is the score that was reached:
\* the average over all rings is that score, and a run that draws no ring
\* gains nothing (model.mjs:119-199).
THEOREM FinalScore == Spec => []FinalScoreKept
PROOF
<1>1. PInv => FinalScoreKept
  <2> SUFFICES ASSUME PInv, ring = LastRing, NEW draws \in PossibleDraws(ring)
               PROVE  /\ {Shown(draws).expected, Shown(draws).p10,
                          Shown(draws).p50, Shown(draws).p90} = {score}
                      /\ Shown(draws).tier = RewardTier(level, score)
                      /\ \A t \in Tiers :
                           Shown(draws).hits[t] = IF t = Shown(draws).tier THEN Runs ELSE 0
    BY DEF FinalScoreKept
  <2>1. ring \in 0..LastRing /\ score \in Int
    BY DEF PInv, TypeOK
  <2>2. ring >= MinPredictionRings /\ LastRing \in Nat \ {0}
    BY LengthFact, ProjectionAssumption
  <2>3. CASE ~Simulates(ring, model.taskBuckets)
    <3>1. Shown(draws) = FallbackProjection(ring, score, level)
      BY <2>1, <2>2, <2>3, ProjectionCases DEF Shown
    <3>2. Rounded(score * LastRing, LastRing) = score
      <4>1. score * LastRing \in Int /\ score * LastRing <= score * LastRing
        BY <2>1, <2>2
      <4>2. /\ Rounded(score * LastRing, LastRing) \in Int
            /\ score <= Rounded(score * LastRing, LastRing)
            /\ Rounded(score * LastRing, LastRing) <= score
        BY <2>1, <2>2, <4>1, RoundedBounds
      <4> QED BY <2>1, <4>2
    <3> QED BY <3>1, <3>2 DEF FallbackProjection
  <2>4. CASE Simulates(ring, model.taskBuckets)
    <3> DEFINE totals == TotalsOf(score, draws)
    <3>1. Shown(draws) = Simulation(score, level, draws)
      BY <2>1, <2>2, <2>4, ProjectionCases DEF Shown
    <3>2. draws \in [1..Runs -> {0}]
      BY <2>1, <2>4, DrawsPossible, GainsAtEnds DEF Draws
    <3>3. \A run \in 1..Runs : totals[run] = score
      BY <2>1, <3>2 DEF TotalsOf
    <3>4. totals \in Totals
      BY <2>1, <3>3 DEF TotalsOf, Totals
    <3>5. Mean(totals) = score
      <4>1. \A run \in 1..Runs : totals[run] \in score..score
        BY <2>1, <3>3
      <4>2. Mean(totals) \in Int /\ score <= Mean(totals) /\ Mean(totals) <= score
        <5> HIDE DEF totals
        <5> QED BY <2>1, <3>4, <4>1, MeanBounds
      <4> QED BY <2>1, <4>2
    <3>6. ValuesOf(totals) \subseteq {score}
      BY <3>3 DEF ValuesOf
    <3>7. /\ Percentile(totals, 1) = score /\ Percentile(totals, 5) = score
          /\ Percentile(totals, 9) = score
      <4> HIDE DEF totals
      <4> QED BY <3>4, <3>6, PercentileOrder
    <3>8. ASSUME NEW t \in Tiers
          PROVE  TierHits(level, totals)[t] = IF t = RewardTier(level, score) THEN Runs ELSE 0
      <4> DEFINE hitting == {run \in 1..Runs : RewardTier(level, totals[run]) = t}
      <4>1. TierHits(level, totals)[t] = Cardinality(hitting)
        BY DEF TierHits
      <4>2. t = RewardTier(level, score) => hitting = 1..Runs
        BY <3>3
      <4>3. t # RewardTier(level, score) => hitting = {}
        BY <3>3
      <4> HIDE DEF hitting
      <4> QED BY <4>1, <4>2, <4>3, RunsFact, FS_EmptySet
    <3> HIDE DEF totals
    <3> QED BY <3>1, <3>5, <3>7, <3>8, SimulationFields DEF totals
  <2> QED BY <2>3, <2>4
<1> QED BY <1>1, PredictionInductive, PTL

\* What is shown as a simulation was simulated.
LEMMA ShownSimulated ==
  ASSUME PInv, NEW draws \in PossibleDraws(ring), Shown(draws).method = "simulation"
  PROVE  /\ Simulates(ring, model.taskBuckets)
         /\ Shown(draws) = Simulation(score, level, draws)
PROOF
<1>1. ring \in 0..LastRing /\ ring \in Int /\ MinPredictionRings \in Int
  BY LengthFact, ProjectionAssumption DEF PInv, TypeOK
<1>2. ~(ring < MinPredictionRings)
  <2>1. ring < MinPredictionRings => Shown(draws) = UnavailableProjection
    BY <1>1, ProjectionCases DEF Shown
  <2> QED BY <2>1 DEF UnavailableProjection
<1>3. Simulates(ring, model.taskBuckets)
  <2>1. ~Simulates(ring, model.taskBuckets) =>
          Shown(draws) = FallbackProjection(ring, score, level)
    BY <1>1, <1>2, ProjectionCases DEF Shown
  <2> QED BY <2>1 DEF FallbackProjection
<1>4. Shown(draws) = Simulation(score, level, draws)
  BY <1>1, <1>2, <1>3, ProjectionCases DEF Shown
<1> QED BY <1>3, <1>4

\* A simulated range is ordered, and no wider than if every remaining ring
\* brought the least or the greatest score somebody met (model.mjs:167-191).
THEOREM Plausible == Spec => []RangePlausible
PROOF
<1>1. PInv => RangePlausible
  <2> DEFINE met == {row.score : row \in model.taskBuckets}
             left == LastRing - ring
  <2> SUFFICES ASSUME PInv, NEW draws \in PossibleDraws(ring),
                      Shown(draws).method = "simulation", left > 0
               PROVE  /\ Shown(draws).p10 <= Shown(draws).p50
                      /\ Shown(draws).p50 <= Shown(draws).p90
                      /\ {Shown(draws).p10, Shown(draws).p90, Shown(draws).expected}
                           \subseteq (score + left * Min(met))..(score + left * Max(met))
    BY DEF RangePlausible
  <2> DEFINE totals == TotalsOf(score, draws)
             lo == score + left * Min(met)
             hi == score + left * Max(met)
  <2>1. ring \in 0..LastRing /\ score \in Int /\ left \in Nat
    BY LengthFact DEF PInv, TypeOK
  <2>2. Shown(draws) = Simulation(score, level, draws)
    BY ShownSimulated
  <2>3. draws \in Totals /\ draws \in Draws(ring, model.taskBuckets)
    BY <2>1, ShownSimulated, DrawsPossible
  <2>4. model.taskBuckets \in SUBSET TaskRows /\ IsFiniteSet(model.taskBuckets)
    BY DEF PInv, TypeOK, FinitelyMany
  <2>5. \A run \in 1..Runs : draws[run] \in Gains(ring, model.taskBuckets)
    BY <2>3 DEF Draws
  <2>6. model.taskBuckets # {}
    <3>1. ring < LastRing
      BY <2>1, LengthFact
    <3>2. draws[1] \in Gains(ring, model.taskBuckets)
      BY <2>5, RunsFact
    <3> QED BY <2>1, <3>1, <3>2, GainsAtEnds
  <2>7. /\ Min(met) \in Int /\ Max(met) \in Int
        /\ \A row \in model.taskBuckets : row.score \in Min(met)..Max(met)
    BY <2>4, <2>6, ScoresMet
  <2>8. \A run \in 1..Runs : totals[run] \in lo..hi
    <3> TAKE run \in 1..Runs
    <3> DEFINE g == draws[run]
    <3>1. g \in Int /\ Min(met) * left <= g /\ g <= Max(met) * left
      BY <2>1, <2>5, <2>7, GainsBounds
    <3>2. totals[run] = score + g
      BY DEF TotalsOf
    <3> HIDE DEF met, left, g, totals
    <3>3. left * Min(met) = Min(met) * left /\ left * Max(met) = Max(met) * left
      BY <2>1, <2>7
    <3>4. left * Min(met) \in Int /\ left * Max(met) \in Int
      BY <2>1, <2>7
    <3> QED BY <2>1, <3>1, <3>2, <3>3, <3>4
  <2>9. lo \in Int /\ hi \in Int
    <3> HIDE DEF met, left
    <3> QED BY <2>1, <2>7
  <2>10. totals \in Totals
    BY <2>1, <2>3, TotalsTyped DEF TotalsOf
  <2> HIDE DEF totals, lo, hi
  <2>11. Mean(totals) \in lo..hi
    <3>1. Mean(totals) \in Int /\ lo <= Mean(totals) /\ Mean(totals) <= hi
      BY <2>8, <2>9, <2>10, MeanBounds
    <3> QED BY <2>9, <3>1
  <2>12. ValuesOf(totals) \subseteq lo..hi
    BY <2>8 DEF ValuesOf
  <2>13. /\ Percentile(totals, 1) \in lo..hi /\ Percentile(totals, 9) \in lo..hi
         /\ Percentile(totals, 1) <= Percentile(totals, 5)
         /\ Percentile(totals, 5) <= Percentile(totals, 9)
    BY <2>10, <2>12, PercentileOrder
  <2>14. /\ Shown(draws).p10 = Percentile(totals, 1)
         /\ Shown(draws).p50 = Percentile(totals, 5)
         /\ Shown(draws).p90 = Percentile(totals, 9)
         /\ Shown(draws).expected = Mean(totals)
    BY <2>2, SimulationFields DEF totals
  <2>15. {Shown(draws).p10, Shown(draws).p90, Shown(draws).expected} \subseteq lo..hi
    BY <2>11, <2>13, <2>14
  <2> QED BY <2>13, <2>14, <2>15 DEF lo, hi
<1> QED BY <1>1, PredictionInductive, PTL

\* A simulated run counts for the tier it ends in and for no other, so the
\* probabilities shown add up to that of the lowest tier (model.mjs:178-186).
THEOREM OneTierPerRun == Spec => []TiersExclusive
PROOF
<1>1. PInv => TiersExclusive
  <2> SUFFICES ASSUME PInv, NEW draws \in PossibleDraws(ring),
                      Shown(draws).method = "simulation"
               PROVE  MapThenSumSet(LAMBDA t : Shown(draws).hits[t], Tiers)
                        = Cardinality({run \in 1..Runs :
                                         score + draws[run] >= RewardThreshold(level, 90)})
    BY DEF TiersExclusive
  <2> DEFINE totals == TotalsOf(score, draws)
             hits == TierHits(level, totals)
             tierOf == [run \in 1..Runs |-> RewardTier(level, totals[run])]
  <2>1. ring \in 0..LastRing /\ score \in Int /\ level \in 1..200
    BY DEF PInv, TypeOK
  <2>2. draws \in Totals
    BY <2>1, DrawsPossible
  <2>3. Shown(draws).hits = hits
    BY ShownSimulated, SimulationFields
  <2>4. ASSUME NEW t \in Tiers PROVE hits[t] = Cardinality(Labelled(1..Runs, tierOf, {t}))
    <3>1. hits[t] = Cardinality({run \in 1..Runs : RewardTier(level, totals[run]) = t})
      BY DEF TierHits
    <3>2. Labelled(1..Runs, tierOf, {t})
            = {run \in 1..Runs : RewardTier(level, totals[run]) = t}
      BY DEF Labelled
    <3> QED BY <3>1, <3>2
  <2>5. \A run \in 1..Runs :
          tierOf[run] \in Tiers <=> score + draws[run] >= RewardThreshold(level, 90)
    <3> TAKE run \in 1..Runs
    <3>1. totals[run] = score + draws[run] /\ score + draws[run] \in Int
      BY <2>1, <2>2 DEF Totals, TotalsOf
    <3>2. tierOf[run] = RewardTier(level, score + draws[run])
      BY <3>1
    <3> DEFINE p == score + draws[run]
    <3> HIDE DEF tierOf, totals, p
    <3>3. level \in 1..200 /\ p \in Int
      BY <2>1, <3>1 DEF p
    <3>4. RewardTier(level, p) \in Tiers <=> p >= RewardThreshold(level, 90)
      BY <3>3, TierReached
    <3> QED BY <3>2, <3>4 DEF p
  <2> HIDE DEF hits, tierOf
  <2>6. Sum(hits, Tiers) = Cardinality(Labelled(1..Runs, tierOf, Tiers))
    BY <2>4, RunsFact, TablesFinite, SumOfClasses
  <2>7. Labelled(1..Runs, tierOf, Tiers)
          = {run \in 1..Runs : score + draws[run] >= RewardThreshold(level, 90)}
    BY <2>5 DEF Labelled
  <2>8. MapThenSumSet(LAMBDA t : Shown(draws).hits[t], Tiers) = Sum(hits, Tiers)
    BY <2>3 DEF Sum
  <2> QED BY <2>6, <2>7, <2>8
<1> QED BY <1>1, PredictionInductive, PTL

\* More points give no lower expectation, by whichever way it is made, when
\* the generator draws the same.
LEMMA MoreIsNotLess ==
  ASSUME NEW done \in 0..LastRing, NEW a \in Int, NEW b \in Int, a <= b, NEW lvl, NEW rows,
         NEW draws \in Totals
  PROVE  SimulateProjection(done, a, lvl, rows, draws).expected
           <= SimulateProjection(done, b, lvl, rows, draws).expected
PROOF
<1>1. done \in Int /\ MinPredictionRings \in Int /\ MinPredictionRings >= 1
  BY LengthFact, ProjectionAssumption
<1>2. CASE done < MinPredictionRings
  <2>1. /\ SimulateProjection(done, a, lvl, rows, draws) = UnavailableProjection
        /\ SimulateProjection(done, b, lvl, rows, draws) = UnavailableProjection
    BY <1>2, ProjectionCases
  <2> QED BY <2>1 DEF UnavailableProjection
<1>3. CASE ~(done < MinPredictionRings) /\ ~Simulates(done, rows)
  <2>1. /\ SimulateProjection(done, a, lvl, rows, draws) = FallbackProjection(done, a, lvl)
        /\ SimulateProjection(done, b, lvl, rows, draws) = FallbackProjection(done, b, lvl)
    BY <1>1, <1>3, ProjectionCases
  <2>2. /\ done \in Nat \ {0}
        /\ a * LastRing \in Int /\ b * LastRing \in Int
        /\ a * LastRing <= b * LastRing
    <3>1. (b - a) * LastRing >= 0 /\ (b - a) * LastRing = b * LastRing - a * LastRing
      BY LengthFact
    <3> QED BY <1>1, <1>3, <3>1, LengthFact
  <2>3. Rounded(a * LastRing, done) <= Rounded(b * LastRing, done)
    BY <2>2, RoundedMonotone
  <2> QED BY <2>1, <2>3 DEF FallbackProjection
<1>4. CASE ~(done < MinPredictionRings) /\ Simulates(done, rows)
  <2>1. /\ SimulateProjection(done, a, lvl, rows, draws) = Simulation(a, lvl, draws)
        /\ SimulateProjection(done, b, lvl, rows, draws) = Simulation(b, lvl, draws)
    BY <1>1, <1>4, ProjectionCases
  <2>2. TotalsOf(a, draws) \in Totals /\ TotalsOf(b, draws) \in Totals
    BY TotalsTyped DEF TotalsOf
  <2>3. \A run \in 1..Runs : TotalsOf(a, draws)[run] <= TotalsOf(b, draws)[run]
    BY DEF TotalsOf, Totals
  <2>4. Mean(TotalsOf(a, draws)) <= Mean(TotalsOf(b, draws))
    BY <2>2, <2>3, MeanMonotone
  <2> QED BY <2>1, <2>4, SimulationFields
<1> QED BY <1>2, <1>3, <1>4

\* Of two ways to end the ring the one that scores more is never shown with
\* the lower total, whatever the generator draws: it is seeded anew for each
\* (app.mjs:275-283, model.mjs:201-209).
THEOREM BetterOption == Spec => []BetterOptionNeverWorse
PROOF
<1>1. PInv => BetterOptionNeverWorse
  <2> SUFFICES ASSUME PInv, NEW task \in Compared, NEW a \in Options(task), NEW b \in Options(task),
                      OptionScore(task, a) <= OptionScore(task, b),
                      NEW first \in PossibleDraws(RingAfter(ring)), NEW draws \in OptionDraws(first)
               PROVE  OptionShown(task, a, first).expected <= OptionShown(task, b, draws).expected
    BY DEF BetterOptionNeverWorse
  <2>1. draws = first
    BY DEF OptionDraws
  <2>2. RingAfter(ring) \in 0..LastRing /\ score \in Int
    BY LengthFact DEF PInv, TypeOK, RingAfter
  <2>3. first \in Totals
    BY <2>2, DrawsPossible
  <2>4. \A option \in Options(task) : OptionScore(task, option) \in Int
    BY PredictionAssumption, PageScoresTyped DEF Options, OptionScore
  <2>5. /\ score + OptionScore(task, a) \in Int /\ score + OptionScore(task, b) \in Int
        /\ score + OptionScore(task, a) <= score + OptionScore(task, b)
    BY <2>2, <2>4
  <2> QED BY <2>1, <2>2, <2>3, <2>5, MoreIsNotLess DEF OptionShown, ProjectAfterResolution
<1> QED BY <1>1, PredictionInductive, PTL

\* Server and page agree on what is comparable: the reward estimate rests on
\* the very group in which the server files a reward of the player's level
\* and of the ten of the expected score (sqlite.go:210, api.go:238-249,
\* model.mjs:245-249).
THEOREM Comparable == Spec => []RewardsComparable
PROOF
<1>1. PInv => RewardsComparable
  <2> DEFINE expected(draws) == Shown(draws).expected
  <2> SUFFICES ASSUME PInv, model # EmptyModel, ~cut, NEW draws \in PossibleDraws(ring),
                      expected(draws) >= 10,
                      NEW cell \in RewardCells, rewards[cell] > 0, cell[1] = level,
                      cell[2] \div 10 = expected(draws) \div 10
               PROVE  RewardCandidates(model.rewardBuckets, level, expected(draws))
                        = {RewardGroup(cell)}
    BY DEF RewardsComparable
  <2> DEFINE e == expected(draws)
             band == {row \in model.rewardBuckets : row.levelBand = NearestLevelBand(level)}
             exact == {row \in band : row.scoreBucket = PageScoreBucket(e)}
  <2>1. e \in Int
    <3>1. ring \in 0..LastRing /\ score \in Int
      BY DEF PInv, TypeOK
    <3> QED BY <3>1, DrawsPossible, ExpectedTyped DEF Shown
  <2>2. model.rewardBuckets = RewardAggregates(rewards) /\ model.rewardBuckets \subseteq RewardRows
    BY DEF PInv, TypeOK, AnsweredWhole
  <2>3. RewardGroup(cell) \in model.rewardBuckets
    BY <2>2 DEF RewardAggregates
  <2>4. cell[2] \in Int /\ cell[2] >= 0
    <3>1. cell[2] \in Int
      BY PredictionAssumption DEF RewardCells
    <3> HIDE DEF e
    <3>2. cell[2] \div 10 = e \div 10 /\ e >= 10
      BY DEF e
    <3> QED BY <2>1, <3>1, <3>2
  <2> HIDE DEF e
  <2>5. ServerScoreBucket(cell[2]) = PageScoreBucket(e)
    <3>1. Quotient(cell[2], 10) = cell[2] \div 10
      BY <2>4 DEF Quotient
    <3>2. cell[2] \div 10 = e \div 10
      BY DEF e
    <3> QED BY <3>1, <3>2 DEF ServerScoreBucket, PageScoreBucket
  <2>6. /\ RewardGroup(cell).levelBand = NearestLevelBand(level)
        /\ RewardGroup(cell).scoreBucket = PageScoreBucket(e)
    BY <2>5 DEF RewardGroup, PlayerLevelBand, NearestLevelBand
  <2>7. RewardGroup(cell) \in exact
    BY <2>3, <2>6
  <2>8. \A row \in exact : row = RewardGroup(cell)
    <3> TAKE row \in exact
    <3>1. row \in RewardRows /\ RewardGroup(cell) \in RewardRows
      BY <2>2, <2>3
    <3>2. row.levelBand = RewardGroup(cell).levelBand /\ row.scoreBucket = RewardGroup(cell).scoreBucket
      BY <2>6
    <3> QED BY <3>1, <3>2 DEF RewardRows
  <2>9. exact = {RewardGroup(cell)}
    <3> HIDE DEF exact
    <3> QED BY <2>7, <2>8
  <2>10. RewardCandidates(model.rewardBuckets, level, e) = exact
    <3>1. exact # {}
      BY <2>7
    <3> QED BY <3>1 DEF RewardCandidates
  <2> QED BY <2>9, <2>10 DEF e
<1> QED BY <1>1, PredictionInductive, PTL
=============================================================================
