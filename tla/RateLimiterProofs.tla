------------------------- MODULE RateLimiterProofs -------------------------
(***************************************************************************)
(* For every limit, window and set of keys: the limiter's state is typed,  *)
(* a window's length of time never sees more than twice the limit, and a   *)
(* refusal always follows a full limit of admitted calls.                  *)
(***************************************************************************)
EXTENDS RateLimiter, FiniteSetTheorems, TLAPS

\* The calls of one window of one key.
InWindow(k, w) == {c \in admitted : c.key = k /\ c.window = w}

\* Windows of one key start a window's length apart.
Apart(v, w) == v = w \/ v + Window <= w \/ w + Window <= v

\* A call lies in the window it was counted in.
CallsInWindow ==
  \A c \in admitted : /\ c.window <= c.time
                      /\ c.time < c.window + Window
                      /\ c.time <= clock

\* The window of an earlier call is the running one, or one that ended
\* before the running one began.
WindowsBefore ==
  \A c \in admitted : LET start == items[c.key].windowStart IN
    start # 0 /\ (c.window = start \/ c.window + Window <= start)

WindowsApart ==
  \A c, d \in admitted : c.key = d.key => Apart(c.window, d.window)

\* n numbers the calls of a window, without a gap and up to the count.
NumbersUnique ==
  \A c, d \in admitted :
    c.key = d.key /\ c.window = d.window /\ c.n = d.n => c = d

NumbersRunToCount ==
  /\ \A c \in admitted :
       c.window = items[c.key].windowStart => c.n <= items[c.key].count
  /\ \A k \in Keys : items[k].windowStart # 0 =>
       \A n \in 1..items[k].count : \E c \in InWindow(k, items[k].windowStart) : c.n = n

IInv ==
  /\ TypeOK
  /\ IsFiniteSet(admitted)
  /\ \A k \in Keys : items[k].windowStart <= clock
  /\ CallsInWindow
  /\ WindowsBefore
  /\ WindowsApart
  /\ NumbersUnique
  /\ NumbersRunToCount
  /\ \A r \in refused : r.time <= clock
  /\ RefusedOnlyWhenFull

-----------------------------------------------------------------------------
\* A call that is let through keeps every part of the invariant; e is the
\* entry it leaves behind, of a new window or with the count one higher.
LEMMA AdmitStep ==
  ASSUME IInv, NEW k \in Keys, OpenWindow(k) \/ CountIn(k)
  PROVE  IInv'
PROOF
<1> USE LimiterAssumption
<1> DEFINE e == items'[k]
           call == [key |-> k, window |-> e.windowStart, n |-> e.count, time |-> clock]
<1>1. /\ items' = [items EXCEPT ![k] = e]
      /\ e \in [windowStart : Nat, count : 0..Limit]
      /\ e.count \in 1..Limit
      /\ e.windowStart \in Nat \ {0}
      /\ e.windowStart <= clock
      /\ clock < e.windowStart + Window
      /\ admitted' = admitted \cup {call}
      /\ refused' = refused /\ clock' = clock
  <2>1. CASE OpenWindow(k)
    BY <2>1 DEF OpenWindow, Admit, IInv, TypeOK
  <2>2. CASE CountIn(k)
    BY <2>2 DEF CountIn, Admit, Over, Exhausted, IInv, TypeOK
  <2> QED BY <2>1, <2>2
<1>2. \/ /\ e.count = 1
         /\ \/ items[k].windowStart = 0
            \/ items[k].windowStart + Window <= e.windowStart
      \/ /\ e.windowStart = items[k].windowStart
         /\ e.count = items[k].count + 1
  BY DEF OpenWindow, CountIn, Admit, Over, IInv, TypeOK
<1>3. items' \in [Keys -> [windowStart : Nat, count : 0..Limit]]
  BY <1>1 DEF IInv, TypeOK
<1>4. call \in Call
  BY <1>1 DEF IInv, TypeOK, Call
<1>5. TypeOK'
  BY <1>1, <1>3, <1>4 DEF IInv, TypeOK
<1>6. IsFiniteSet(admitted')
  BY <1>1, FS_AddElement DEF IInv
<1>7. \A j \in Keys : items'[j] = IF j = k THEN e ELSE items[j]
  BY <1>1 DEF IInv, TypeOK
<1>8. (\A j \in Keys : items[j].windowStart <= clock)'
  BY <1>1, <1>7 DEF IInv
<1>9. CallsInWindow'
  <2> SUFFICES ASSUME NEW c \in admitted'
               PROVE  /\ c.window <= c.time
                      /\ c.time < c.window + Window
                      /\ c.time <= clock
    BY <1>1 DEF CallsInWindow
  <2>1. CASE c \in admitted
    BY <2>1 DEF IInv, CallsInWindow
  <2>2. CASE c = call
    BY <2>2, <1>1 DEF IInv, TypeOK
  <2> QED BY <2>1, <2>2, <1>1
<1>10. \A c \in admitted : /\ c.window \in Nat \ {0} /\ c.key \in Keys /\ c.n \in 1..Limit
                           /\ c.time \in Nat
  BY DEF IInv, TypeOK, Call
<1>11. \A c \in admitted : c.key = k =>
         /\ items[k].windowStart # 0
         /\ c.window = items[k].windowStart \/ c.window + Window <= items[k].windowStart
  BY DEF IInv, WindowsBefore
<1>12. \A c \in admitted : c.key = k =>
         c.window = e.windowStart \/ c.window + Window <= e.windowStart
  BY <1>1, <1>2, <1>10, <1>11 DEF IInv, TypeOK
<1>13. WindowsBefore'
  <2> SUFFICES ASSUME NEW c \in admitted'
               PROVE  LET start == items'[c.key].windowStart IN
                      start # 0 /\ (c.window = start \/ c.window + Window <= start)
    BY DEF WindowsBefore
  <2>1. CASE c = call
    BY <2>1, <1>1, <1>7
  <2>2. CASE c \in admitted /\ c.key = k
    BY <2>2, <1>1, <1>7, <1>12
  <2>3. CASE c \in admitted /\ c.key # k
    BY <2>3, <1>7, <1>10 DEF IInv, WindowsBefore
  <2> QED BY <2>1, <2>2, <2>3, <1>1
<1>14. WindowsApart'
  <2> SUFFICES ASSUME NEW c \in admitted', NEW d \in admitted', c.key = d.key
               PROVE  Apart(c.window, d.window)
    BY DEF WindowsApart, Apart
  <2>1. CASE c \in admitted /\ d \in admitted
    BY <2>1 DEF IInv, WindowsApart
  <2>2. CASE c = call \/ d = call
    BY <2>2, <1>1, <1>12 DEF Apart
  <2> QED BY <2>1, <2>2, <1>1
<1>15. \A c \in admitted : c.key = k /\ c.window = e.windowStart => c.n < e.count
  <2> SUFFICES ASSUME NEW c \in admitted, c.key = k, c.window = e.windowStart
               PROVE  c.n < e.count
    OBVIOUS
  <2>1. e.windowStart = items[k].windowStart /\ e.count = items[k].count + 1
    BY <1>1, <1>2, <1>10, <1>11 DEF IInv, TypeOK
  <2>2. c.n <= items[k].count
    BY <2>1 DEF IInv, NumbersRunToCount
  <2> QED BY <2>1, <2>2, <1>1, <1>10 DEF IInv, TypeOK
<1>16. NumbersUnique'
  <2> SUFFICES ASSUME NEW c \in admitted', NEW d \in admitted',
                      c.key = d.key, c.window = d.window, c.n = d.n
               PROVE  c = d
    BY DEF NumbersUnique
  <2>1. CASE c \in admitted /\ d \in admitted
    BY <2>1 DEF IInv, NumbersUnique
  <2>2. CASE c = call /\ d \in admitted
    BY <2>2, <1>1, <1>15
  <2>3. CASE d = call /\ c \in admitted
    BY <2>3, <1>1, <1>15
  <2> QED BY <2>1, <2>2, <2>3, <1>1
<1>17. NumbersRunToCount'
  <2>1. ASSUME NEW c \in admitted', c.window = items'[c.key].windowStart
        PROVE  c.n <= items'[c.key].count
    <3>1. CASE c = call
      BY <3>1, <1>1, <1>7
    <3>2. CASE c \in admitted /\ c.key = k
      BY <3>2, <2>1, <1>1, <1>7, <1>10, <1>15
    <3>3. CASE c \in admitted /\ c.key # k
      BY <3>3, <2>1, <1>7, <1>10 DEF IInv, NumbersRunToCount
    <3> QED BY <3>1, <3>2, <3>3, <1>1
  <2>2. ASSUME NEW j \in Keys, items'[j].windowStart # 0, NEW n \in 1..items'[j].count
        PROVE  \E c \in admitted' : /\ c.key = j
                                    /\ c.window = items'[j].windowStart
                                    /\ c.n = n
    <3>1. CASE j # k
      BY <3>1, <2>2, <1>1, <1>7 DEF IInv, NumbersRunToCount, InWindow
    <3>2. CASE j = k /\ n = e.count
      <4>1. /\ call \in admitted' /\ call.key = j
            /\ call.window = items'[j].windowStart /\ call.n = n
        BY <3>2, <1>1
      <4> QED BY <4>1
    <3>3. CASE j = k /\ n # e.count
      <4>1. n \in 1..e.count
        BY <2>2, <3>3, <1>7
      <4>2. /\ e.windowStart = items[k].windowStart
            /\ n \in 1..items[k].count
        BY <4>1, <3>3, <1>1, <1>2 DEF IInv, TypeOK
      <4>3. \E c \in InWindow(k, items[k].windowStart) : c.n = n
        BY <4>2, <1>1 DEF IInv, NumbersRunToCount
      <4> QED BY <4>2, <4>3, <3>3, <1>1, <1>7 DEF InWindow
    <3> QED BY <3>1, <3>2, <3>3
  <2> QED BY <2>1, <2>2 DEF NumbersRunToCount, InWindow
<1>18. RefusedOnlyWhenFull'
  <2> SUFFICES ASSUME NEW r \in refused
               PROVE  Cardinality({c \in admitted' : /\ c.key = r.key
                                                     /\ r.time - Window < c.time
                                                     /\ c.time <= r.time}) >= Limit
    BY <1>1 DEF RefusedOnlyWhenFull
  <2> DEFINE S == {c \in admitted : /\ c.key = r.key
                                    /\ r.time - Window < c.time
                                    /\ c.time <= r.time}
             T == {c \in admitted' : /\ c.key = r.key
                                     /\ r.time - Window < c.time
                                     /\ c.time <= r.time}
  <2>1. S \subseteq T /\ T \subseteq admitted'
    BY <1>1
  <2>2. IsFiniteSet(T)
    BY <2>1, <1>6, FS_Subset
  <2>3. Cardinality(S) <= Cardinality(T) /\ IsFiniteSet(S)
    BY <2>1, <2>2, FS_Subset
  <2>4. Cardinality(S) >= Limit
    BY DEF IInv, RefusedOnlyWhenFull
  <2>5. Cardinality(S) \in Int /\ Cardinality(T) \in Int
    BY <2>2, <2>3, FS_CardinalityType
  <2> HIDE DEF S, T
  <2>6. Cardinality(T) >= Limit
    BY <2>3, <2>4, <2>5
  <2> QED BY <2>6 DEF T
<1>19. (\A r \in refused : r.time <= clock)'
  BY <1>1 DEF IInv
<1> QED BY <1>5, <1>6, <1>8, <1>9, <1>13, <1>14, <1>16, <1>17, <1>18, <1>19 DEF IInv

\* The calls of one window are at most as many as the limit, and as many as
\* the count when the window is the running one.
LEMMA WindowSize ==
  ASSUME IInv, NEW k \in Keys, NEW w
  PROVE  /\ IsFiniteSet(InWindow(k, w))
         /\ Cardinality(InWindow(k, w)) <= Limit
PROOF
<1> USE LimiterAssumption
<1> DEFINE S == InWindow(k, w)
           number == [c \in S |-> c.n]
<1>1. IsFiniteSet(S)
  BY FS_Subset DEF IInv, InWindow
<1>2. number \in Injection(S, 1..Limit)
  <2>1. number \in [S -> 1..Limit]
    BY DEF IInv, TypeOK, Call, InWindow
  <2>2. \A c, d \in S : number[c] = number[d] => c = d
    BY DEF IInv, NumbersUnique, InWindow
  <2> QED BY <2>1, <2>2 DEF Injection, IsInjective
<1>3. IsFiniteSet(1..Limit) /\ Cardinality(1..Limit) = Limit
  BY FS_Interval
<1>4. Cardinality(S) <= Cardinality(1..Limit)
  BY <1>2, <1>3, FS_Injection
<1> QED BY <1>1, <1>3, <1>4

\* A full window holds as many calls as the limit.
LEMMA FullWindow ==
  ASSUME IInv, NEW k \in Keys, items[k].windowStart # 0, items[k].count >= Limit
  PROVE  Cardinality(InWindow(k, items[k].windowStart)) >= Limit
PROOF
<1> USE LimiterAssumption
<1> DEFINE S == InWindow(k, items[k].windowStart)
           number == [c \in S |-> c.n]
<1>1. IsFiniteSet(S)
  BY WindowSize
<1>2. number \in Surjection(S, 1..Limit)
  <2>1. number \in [S -> 1..Limit]
    BY DEF IInv, TypeOK, Call, InWindow
  <2>2. items[k].count = Limit
    BY DEF IInv, TypeOK
  <2>3. \A n \in 1..Limit : \E c \in S : number[c] = n
    BY <2>2 DEF IInv, NumbersRunToCount
  <2> QED BY <2>1, <2>3 DEF Surjection
<1>3. IsFiniteSet(1..Limit) /\ Cardinality(1..Limit) = Limit
  BY FS_Interval
<1>4. Cardinality(1..Limit) <= Cardinality(S)
  BY <1>1, <1>2, FS_Surjection
<1> QED BY <1>3, <1>4

\* A refusal is preceded by a full window that began less than a window's
\* length ago.
LEMMA RefuseStep ==
  ASSUME IInv, NEW k \in Keys, Refuse(k)
  PROVE  IInv'
PROOF
<1> USE LimiterAssumption
<1> DEFINE w == items[k].windowStart
           refusal == [key |-> k, time |-> clock]
<1>1. /\ w \in Nat \ {0} /\ clock \in Nat
      /\ clock < w + Window
      /\ items[k].count >= Limit
      /\ refused' = refused \cup {refusal}
      /\ clock' = clock /\ items' = items /\ admitted' = admitted
  BY DEF Refuse, Over, Exhausted, IInv, TypeOK
<1>2. TypeOK'
  BY <1>1 DEF IInv, TypeOK
<1>3. CallsInWindow' /\ WindowsBefore' /\ WindowsApart' /\ NumbersUnique'
  BY <1>1 DEF IInv, CallsInWindow, WindowsBefore, WindowsApart, Apart, NumbersUnique
<1>4. NumbersRunToCount'
  BY <1>1 DEF IInv, NumbersRunToCount, InWindow
<1>5. RefusedOnlyWhenFull'
  <2> SUFFICES ASSUME NEW r \in refused'
               PROVE  Cardinality({c \in admitted : /\ c.key = r.key
                                                    /\ r.time - Window < c.time
                                                    /\ c.time <= r.time}) >= Limit
    BY <1>1 DEF RefusedOnlyWhenFull
  <2>1. CASE r \in refused
    BY <2>1 DEF IInv, RefusedOnlyWhenFull
  <2>2. CASE r = refusal
    <3> DEFINE S == InWindow(k, w)
               T == {c \in admitted : /\ c.key = r.key
                                      /\ r.time - Window < c.time
                                      /\ c.time <= r.time}
    <3>1. S \subseteq T
      <4> SUFFICES ASSUME NEW c \in S PROVE c \in T
        OBVIOUS
      <4>1. c \in admitted /\ c.key = k /\ c.window = w /\ c.time \in Nat
        BY DEF InWindow, IInv, TypeOK, Call
      <4>2. w <= c.time /\ c.time <= clock
        BY <4>1 DEF IInv, CallsInWindow
      <4> QED BY <4>1, <4>2, <2>2, <1>1
    <3>2. IsFiniteSet(T)
      BY FS_Subset DEF IInv
    <3>3. Cardinality(S) <= Cardinality(T) /\ IsFiniteSet(S)
      BY <3>1, <3>2, FS_Subset
    <3>4. Cardinality(S) \in Nat /\ Cardinality(T) \in Nat
      BY <3>2, <3>3, FS_CardinalityType
    <3>5. Cardinality(S) >= Limit
      BY <1>1, FullWindow
    <3> HIDE DEF S, T
    <3>6. Cardinality(T) >= Limit
      BY <3>3, <3>4, <3>5
    <3> QED BY <3>6 DEF T
  <2> QED BY <2>1, <2>2, <1>1
<1>6. (\A r \in refused : r.time <= clock)'
  BY <1>1 DEF IInv
<1>7. (\A j \in Keys : items[j].windowStart <= clock)'
  BY <1>1 DEF IInv
<1> QED BY <1>1, <1>2, <1>3, <1>4, <1>5, <1>6, <1>7 DEF IInv

-----------------------------------------------------------------------------
LEMMA InitInv == Init => IInv
PROOF
<1> SUFFICES ASSUME Init PROVE IInv
  OBVIOUS
<1> USE LimiterAssumption DEF Init, NoEntry
<1>1. TypeOK
  BY DEF TypeOK
<1>2. IsFiniteSet(admitted)
  BY FS_EmptySet
<1>3. CallsInWindow /\ WindowsBefore /\ WindowsApart /\ NumbersUnique
  BY DEF CallsInWindow, WindowsBefore, WindowsApart, NumbersUnique
<1>4. NumbersRunToCount /\ RefusedOnlyWhenFull
  BY DEF NumbersRunToCount, RefusedOnlyWhenFull
<1> QED BY <1>1, <1>2, <1>3, <1>4 DEF IInv

LEMMA NextInv == IInv /\ [Next]_vars => IInv'
PROOF
<1> SUFFICES ASSUME IInv, [Next]_vars PROVE IInv'
  OBVIOUS
<1> USE LimiterAssumption
<1>1. ASSUME NEW k \in Keys, OpenWindow(k) \/ CountIn(k) PROVE IInv'
  BY <1>1, AdmitStep
<1>2. ASSUME NEW k \in Keys, Refuse(k) PROVE IInv'
  BY <1>2, RefuseStep
<1>3. CASE Tick
  <2> USE <1>3 DEF Tick
  <2>1. TypeOK'
    BY DEF IInv, TypeOK
  <2>2. CallsInWindow'
    BY DEF IInv, TypeOK, Call, CallsInWindow
  <2>3. WindowsBefore' /\ WindowsApart' /\ NumbersUnique'
    BY DEF IInv, WindowsBefore, WindowsApart, Apart, NumbersUnique
  <2>4. NumbersRunToCount'
    BY DEF IInv, NumbersRunToCount, InWindow
  <2>5. RefusedOnlyWhenFull'
    BY DEF IInv, RefusedOnlyWhenFull
  <2>6. (\A k \in Keys : items[k].windowStart <= clock)'
    BY DEF IInv, TypeOK
  <2>7. (\A r \in refused : r.time <= clock)'
    BY DEF IInv, TypeOK
  <2> QED BY <2>1, <2>2, <2>3, <2>4, <2>5, <2>6, <2>7 DEF IInv
<1>4. CASE Restart
  <2> USE <1>4 DEF Restart, NoEntry
  <2>1. TypeOK'
    BY DEF IInv, TypeOK
  <2>2. IsFiniteSet(admitted)'
    BY FS_EmptySet
  <2>3. (CallsInWindow /\ WindowsBefore /\ WindowsApart /\ NumbersUnique)'
    BY DEF CallsInWindow, WindowsBefore, WindowsApart, NumbersUnique
  <2>4. (NumbersRunToCount /\ RefusedOnlyWhenFull)'
    BY DEF NumbersRunToCount, RefusedOnlyWhenFull
  <2>5. (\A k \in Keys : items[k].windowStart <= clock)'
    BY DEF IInv, TypeOK
  <2> QED BY <2>1, <2>2, <2>3, <2>4, <2>5 DEF IInv
<1>5. CASE UNCHANGED vars
  <2> USE <1>5 DEF vars
  <2>1. (TypeOK /\ IsFiniteSet(admitted) /\ CallsInWindow /\ WindowsBefore /\ WindowsApart)'
    BY DEF IInv, TypeOK, CallsInWindow, WindowsBefore, WindowsApart, Apart
  <2>2. (NumbersUnique /\ NumbersRunToCount /\ RefusedOnlyWhenFull)'
    BY DEF IInv, NumbersUnique, NumbersRunToCount, InWindow, RefusedOnlyWhenFull
  <2> QED BY <2>1, <2>2 DEF IInv
<1> QED BY <1>1, <1>2, <1>3, <1>4, <1>5 DEF Next

LEMMA Inductive == Spec => []IInv
PROOF
BY InitInv, NextInv, PTL DEF Spec

\* The limiter's state is typed: no entry counts beyond the limit
\* (ratelimit.go:25-41).
THEOREM Typed == Spec => []TypeOK
PROOF
<1>1. IInv => TypeOK
  BY DEF IInv
<1> QED BY <1>1, Inductive, PTL

\* A client below the limit never sees 429 (ratelimit.go:35).
THEOREM RefusalsJustified == Spec => []RefusedOnlyWhenFull
PROOF
<1>1. IInv => RefusedOnlyWhenFull
  BY DEF IInv
<1> QED BY <1>1, Inductive, PTL

\* Every stretch of time as long as a window meets at most two windows of a
\* key, so it lets at most twice the limit through (ratelimit.go:31-40).
THEOREM BurstBounded == Spec => []BurstBound
PROOF
<1> USE LimiterAssumption
<1>1. ASSUME IInv, NEW k \in Keys, NEW t \in 0..clock
      PROVE  Cardinality(AdmittedFrom(k, t)) <= 2 * Limit
  <2> DEFINE S == AdmittedFrom(k, t)
  <2>1. CASE S = {}
    <3>1. Cardinality(S) = 0
      BY <2>1, FS_EmptySet
    <3> QED BY <3>1
  <2>2. CASE S # {}
    <3>1. \A c \in S : /\ c \in admitted /\ c.key = k
                       /\ c.window \in Nat /\ c.time \in Nat
                       /\ t < c.window + Window /\ c.window < t + Window
      <4> SUFFICES ASSUME NEW c \in S
                   PROVE  /\ c \in admitted /\ c.key = k
                          /\ c.window \in Nat /\ c.time \in Nat
                          /\ t < c.window + Window /\ c.window < t + Window
        OBVIOUS
      <4>1. /\ c \in admitted /\ c.key = k /\ t <= c.time /\ c.time < t + Window
            /\ c.window \in Nat /\ c.time \in Nat /\ t \in Nat
        BY <1>1 DEF AdmittedFrom, IInv, TypeOK, Call
      <4>2. c.window <= c.time /\ c.time < c.window + Window
        BY <1>1, <4>1 DEF IInv, CallsInWindow
      <4> QED BY <4>1, <4>2
    <3>2. PICK c \in S : TRUE
      BY <2>2
    <3>3. \E d \in S : S \subseteq InWindow(k, c.window) \cup InWindow(k, d.window)
      <4>1. CASE \A d \in S : d.window = c.window
        BY <4>1, <3>1, <3>2 DEF InWindow
      <4>2. CASE \E d \in S : d.window # c.window
        <5>1. PICK d \in S : d.window # c.window
          BY <4>2
        <5>2. ASSUME NEW x \in S PROVE x.window = c.window \/ x.window = d.window
          <6>1. /\ Apart(x.window, c.window)
                /\ Apart(x.window, d.window)
                /\ Apart(c.window, d.window)
            BY <1>1, <3>1, <3>2, <5>1, <5>2 DEF IInv, WindowsApart
          <6>2. /\ x.window \in Nat /\ c.window \in Nat /\ d.window \in Nat /\ t \in Nat
                /\ t < x.window + Window /\ x.window < t + Window
                /\ t < c.window + Window /\ c.window < t + Window
                /\ t < d.window + Window /\ d.window < t + Window
            BY <3>1, <3>2, <5>1, <5>2
          <6> QED BY <6>1, <6>2, <5>1 DEF Apart
        <5> QED BY <5>1, <5>2, <3>1 DEF InWindow
      <4> QED BY <4>1, <4>2
    <3>4. PICK d \in S : S \subseteq InWindow(k, c.window) \cup InWindow(k, d.window)
      BY <3>3
    <3> DEFINE A == InWindow(k, c.window)
               B == InWindow(k, d.window)
    <3>5. /\ IsFiniteSet(A) /\ Cardinality(A) <= Limit
          /\ IsFiniteSet(B) /\ Cardinality(B) <= Limit
      BY <1>1, WindowSize
    <3>6. /\ IsFiniteSet(A \cup B) /\ IsFiniteSet(A \cap B)
          /\ Cardinality(A \cup B) = Cardinality(A) + Cardinality(B) - Cardinality(A \cap B)
      BY <3>5, FS_Union, FS_Intersection
    <3>7. Cardinality(S) <= Cardinality(A \cup B) /\ IsFiniteSet(S)
      BY <3>4, <3>6, FS_Subset
    <3>8. /\ Cardinality(A) \in Nat /\ Cardinality(B) \in Nat /\ Cardinality(S) \in Nat
          /\ Cardinality(A \cap B) \in Nat /\ Cardinality(A \cup B) \in Nat
      BY <3>5, <3>6, <3>7, FS_CardinalityType
    <3> HIDE DEF S, A, B
    <3>9. Cardinality(S) <= 2 * Limit
      BY <3>5, <3>6, <3>7, <3>8
    <3> QED BY <3>9 DEF S
  <2> QED BY <2>1, <2>2
<1>2. IInv => BurstBound
  BY <1>1 DEF BurstBound
<1> QED BY <1>2, Inductive, PTL
=============================================================================
