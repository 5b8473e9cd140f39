------------------------- MODULE BrokenTurnsProofs -------------------------
(***************************************************************************)
(* For every length of a cycle and of the history, and wherever the turns  *)
(* break off: the outbox, the cycle and the history agree, and the cycle   *)
(* and the history keep to their limits.                                   *)
(***************************************************************************)
EXTENDS BrokenTurns, FiniteSetTheorems, TLAPS

\* What a stored state is like when the identifiers below n have been drawn.
Sound(st, n) ==
  /\ st \in Storage
  /\ IsFiniteSet(st.entries) /\ IsFiniteSet(st.history)
  /\ \A x, y \in st.entries : x.id = y.id => x = y
  /\ \A g, h \in st.history : g.id = h.id => g = h
  /\ \A x \in st.entries : x.id < n
  /\ \A h \in st.history : h.id < n /\ \A x \in h.entries : x.id < n
  /\ \A p \in st.pending : p.id < n
  /\ \A p \in st.pending : p.kind = "task_delete" =>
       /\ \A id \in p.eventIds : id < n
       /\ \A x \in st.entries : x.id \notin p.eventIds
       /\ \A h \in st.history : \A x \in h.entries : x.id \notin p.eventIds
  /\ \A x \in st.entries : \A h \in st.history : x.id \notin IdsOf(h.entries)
  /\ st.initialRing + Cardinality(st.entries) <= LastRing
  /\ Cardinality(st.history) <= MaxHistory

\* The page's state is the stored one, or what that was before rings were
\* taken back by a turn that broke off.
Behind(st, v, n) ==
  /\ v \in View /\ IsFiniteSet(v.entries)
  /\ st.initialRing <= v.initialRing
  /\ IdsOf(st.entries) \subseteq IdsOf(v.entries)
  /\ \A x \in v.entries : x.id < n
  /\ \A x \in v.entries : \A h \in st.history : x.id \notin IdsOf(h.entries)

IInv ==
  /\ nextId \in Nat \ {0}
  /\ recorded \subseteq Nat /\ removed \subseteq Nat
  /\ shared \subseteq Nat /\ reported \subseteq Nat
  /\ \A id \in removed : id < nextId
  /\ Sound(storage, nextId)
  /\ Behind(storage, view, nextId)
  /\ OutboxRecorded
  /\ CyclesReported

-----------------------------------------------------------------------------
(* Cardinalities.                                                          *)

\* Cardinality as the instantiated module sees it.
LEMMA RepoCardinality == \A S : Repo!Cardinality(S) = Cardinality(S)
PROOF BY Zenon DEF Repo!Cardinality, Cardinality, Repo!IsFiniteSet, IsFiniteSet

\* Rings with identifiers of their own are no more than those of a set with
\* all their identifiers.
LEMMA FewerRings ==
  ASSUME NEW S, NEW T, IsFiniteSet(S), IsFiniteSet(T),
         \A x, y \in S : x.id = y.id => x = y,
         IdsOf(S) \subseteq IdsOf(T)
  PROVE  Cardinality(S) <= Cardinality(T)
PROOF
<1> DEFINE f == [x \in S |-> CHOOSE y \in T : y.id = x.id]
<1>1. ASSUME NEW x \in S PROVE f[x] \in T /\ f[x].id = x.id
  <2>1. \E y \in T : y.id = x.id
    BY DEF IdsOf
  <2> QED BY <2>1
<1>2. f \in [S -> T]
  BY <1>1
<1>3. \A x, y \in S : f[x] = f[y] => x = y
  BY <1>1
<1> HIDE DEF f
<1>4. f \in Injection(S, T)
  BY <1>2, <1>3 DEF Injection, IsInjective
<1> QED BY <1>4, FS_Injection

\* Of a finite history at most MaxHistory cycles are the newest: each has a
\* number of newer ones of its own, below MaxHistory.
LEMMA NewestBounded ==
  ASSUME NEW H, IsFiniteSet(H), \A h \in H : h.id \in Nat,
         \A g, h \in H : g.id = h.id => g = h
  PROVE  /\ Repo!Newest(H) \subseteq H
         /\ IsFiniteSet(Repo!Newest(H)) /\ Cardinality(Repo!Newest(H)) <= MaxHistory
PROOF
<1> DEFINE newer(h) == {g \in H : g.id > h.id}
           N == Repo!Newest(H)
           f == [h \in N |-> Cardinality(newer(h))]
<1>1. N = {h \in H : Cardinality(newer(h)) < MaxHistory}
  <2>1. \A h \in H : Repo!Cardinality({g \in H : g.id > h.id}) = Cardinality(newer(h))
    BY RepoCardinality
  <2> QED BY <2>1 DEF Repo!Newest
<1>2. \A h \in H : IsFiniteSet(newer(h)) /\ Cardinality(newer(h)) \in Nat
  BY FS_Subset, FS_CardinalityType
<1>3. MaxHistory \in Nat
  BY BrokenTurnsAssumption
<1>4. ASSUME NEW g \in H, NEW h \in H, g.id < h.id
      PROVE  Cardinality(newer(h)) # Cardinality(newer(g))
  <2>1. newer(h) \subseteq newer(g)
    BY <1>4
  <2>2. h \in newer(g) /\ h \notin newer(h)
    BY <1>4
  <2> HIDE DEF newer
  <2> QED BY <1>2, <2>1, <2>2, FS_Subset
<1> HIDE DEF newer, N
<1>5. f \in [N -> 0..(MaxHistory - 1)]
  BY <1>1, <1>2, <1>3
<1>6. \A g, h \in N : f[g] = f[h] => g = h
  BY <1>1, <1>4
<1> HIDE DEF f
<1>7. f \in Injection(N, 0..(MaxHistory - 1))
  BY <1>5, <1>6 DEF Injection, IsInjective
<1>8. IsFiniteSet(0..(MaxHistory - 1)) /\ Cardinality(0..(MaxHistory - 1)) = MaxHistory
  BY <1>3, FS_Interval
<1>9. IsFiniteSet(N) /\ Cardinality(N) <= MaxHistory
  BY <1>7, <1>8, FS_Injection
<1> QED BY <1>1, <1>9 DEF N

-----------------------------------------------------------------------------
(* The operations of the repository.                                       *)

LEMMA SoundLater ==
  ASSUME NEW n \in Nat, NEW m \in Nat, n <= m, NEW st, Sound(st, n)
  PROVE  Sound(st, m)
PROOF
<1>1. st \in Storage
  BY DEF Sound
<1>2. \A x \in st.entries : x.id \in Nat
  BY <1>1 DEF Storage, Entry
<1>3. \A h \in st.history : h.id \in Nat /\ \A x \in h.entries : x.id \in Nat
  BY <1>1 DEF Storage, Entry
<1>4. \A p \in st.pending : p.id \in Nat
  BY <1>1 DEF Storage, Request, RewardRequests
<1>5. \A p \in st.pending : p.kind = "task_delete" => p.eventIds \subseteq Nat
  BY <1>1 DEF Storage, Request, RewardRequests
<1>6. \A x \in st.entries : x.id < m
  BY <1>2 DEF Sound
<1>7. \A h \in st.history : h.id < m /\ \A x \in h.entries : x.id < m
  BY <1>3 DEF Sound
<1>8. \A p \in st.pending : p.id < m
  BY <1>4 DEF Sound
<1>9. \A p \in st.pending : p.kind = "task_delete" => \A id \in p.eventIds : id < m
  BY <1>5 DEF Sound
<1> QED BY <1>6, <1>7, <1>8, <1>9 DEF Sound

LEMMA BehindLater ==
  ASSUME NEW n \in Nat, NEW m \in Nat, n <= m, NEW st, NEW v, Behind(st, v, n)
  PROVE  Behind(st, v, m)
PROOF
<1>1. \A x \in v.entries : x.id \in Nat
  BY DEF Behind, View, Entry
<1> QED BY <1>1 DEF Behind

\* A load brings the page up to date.
LEMMA SeenIsBehind ==
  ASSUME NEW n, NEW st, Sound(st, n)
  PROVE  Behind(st, Seen(st), n)
PROOF
<1>1. st \in Storage
  BY DEF Sound
<1>2. Seen(st) \in View /\ Seen(st).entries = st.entries /\ Seen(st).initialRing = st.initialRing
  BY <1>1 DEF Storage, View, Seen
<1>3. st.initialRing <= st.initialRing
  BY <1>1, LastRingAssumption DEF Storage
<1> QED BY <1>2, <1>3 DEF Sound, Behind

LEMMA QueueEventSound ==
  ASSUME NEW n, NEW st, Sound(st, n),
         NEW event \in Request \cup RewardRequests, event.id < n,
         event.kind = "task_delete" =>
           /\ \A id \in event.eventIds : id < n
           /\ \A x \in st.entries : x.id \notin event.eventIds
           /\ \A h \in st.history : \A x \in h.entries : x.id \notin event.eventIds
  PROVE  LET after == Repo!QueueEvent(st, event) IN
         /\ Sound(after, n)
         /\ after.entries = st.entries /\ after.history = st.history
         /\ after.consent = st.consent /\ after.initialRing = st.initialRing
         /\ after.pending \subseteq st.pending \cup {event}
         /\ (\A p \in st.pending : p.id # event.id) => event \in after.pending
PROOF
<1> DEFINE after == Repo!QueueEvent(st, event)
<1>1. st \in Storage
  BY DEF Sound
<1>2. /\ after \in Storage
      /\ after.entries = st.entries /\ after.history = st.history
      /\ after.consent = st.consent /\ after.initialRing = st.initialRing
      /\ after.pending \subseteq st.pending \cup {event}
      /\ (\A p \in st.pending : p.id # event.id) => event \in after.pending
  BY <1>1 DEF Repo!QueueEvent, Storage
<1> HIDE DEF after
<1>3. Sound(after, n)
  BY <1>2 DEF Sound
<1> QED BY <1>2, <1>3 DEF after

LEMMA AddEntrySound ==
  ASSUME NEW n \in Nat, NEW st, Sound(st, n),
         NEW entry \in Entry, entry.id = n,
         st.initialRing + Cardinality(st.entries) < LastRing
  PROVE  LET after == Repo!AddEntry(st, entry) IN
         /\ Sound(after, n + 1)
         /\ after.entries = st.entries \cup {entry} /\ after.history = st.history
         /\ after.pending = st.pending
PROOF
<1> DEFINE after == Repo!AddEntry(st, entry)
<1>1. st \in Storage /\ Sound(st, n + 1)
  BY SoundLater DEF Sound
<1>2. /\ after \in Storage
      /\ after.entries = st.entries \cup {entry} /\ after.history = st.history
      /\ after.pending = st.pending /\ after.initialRing = st.initialRing
  BY <1>1 DEF Repo!AddEntry, Storage
<1> HIDE DEF after
<1>3. IsFiniteSet(after.entries) /\ Cardinality(after.entries) <= Cardinality(st.entries) + 1
  <2>1. IsFiniteSet(st.entries)
    BY DEF Sound
  <2>2. Cardinality(st.entries) \in Nat
    BY <2>1, FS_CardinalityType
  <2>3. /\ IsFiniteSet(st.entries \cup {entry})
        /\ Cardinality(st.entries \cup {entry}) \in
             {Cardinality(st.entries), Cardinality(st.entries) + 1}
    BY <2>1, FS_AddElement
  <2> QED BY <1>2, <2>2, <2>3
<1>4. after.initialRing + Cardinality(after.entries) <= LastRing
  <2>1. /\ st.initialRing \in Int /\ LastRing \in Int
        /\ Cardinality(st.entries) \in Nat /\ Cardinality(after.entries) \in Nat
    BY <1>1, <1>3, LastRingAssumption, FS_CardinalityType DEF Sound, Storage
  <2> QED BY <1>2, <1>3, <2>1
<1>5. ASSUME NEW p \in st.pending, p.kind = "task_delete" PROVE n \notin p.eventIds
  <2>1. \A id \in p.eventIds : id < n
    BY <1>5 DEF Sound
  <2> QED BY <2>1
<1>6. \A h \in st.history : n \notin IdsOf(h.entries)
  BY DEF Sound, IdsOf
<1>7. \A x \in st.entries : x.id # n
  BY DEF Sound
<1>8. \A x, y \in after.entries : x.id = y.id => x = y
  BY <1>2, <1>7 DEF Sound
<1>9. n < n + 1
  OBVIOUS
<1>10. Sound(after, n + 1)
  BY <1>1, <1>2, <1>3, <1>4, <1>5, <1>6, <1>8, <1>9 DEF Sound
<1> QED BY <1>2, <1>10 DEF after

\* What the operations that take rings back have in common.
TakesBack(st, after) ==
  /\ after \in Storage
  /\ after.history = st.history /\ after.initialRing <= st.initialRing
  /\ IdsOf(after.entries) \subseteq IdsOf(st.entries)
  /\ IsFiniteSet(after.entries)
  /\ \A x, y \in after.entries : x.id = y.id => x = y
  /\ after.pending \subseteq st.pending
  /\ \A p \in after.pending : p.kind = "task" =>
       p.id \notin IdsOf(st.entries) \ IdsOf(after.entries)

LEMMA TakesBackSound ==
  ASSUME NEW n, NEW st, Sound(st, n), NEW after, TakesBack(st, after)
  PROVE  Sound(after, n)
PROOF
<1>1. ASSUME NEW x \in after.entries PROVE \E y \in st.entries : y.id = x.id
  <2>1. x.id \in IdsOf(st.entries)
    BY DEF TakesBack, IdsOf
  <2> QED BY <2>1 DEF IdsOf
<1>2. after.initialRing + Cardinality(after.entries) <= LastRing
  <2>1. Cardinality(after.entries) <= Cardinality(st.entries)
    BY FewerRings DEF TakesBack, Sound
  <2>2. /\ Cardinality(st.entries) \in Nat /\ Cardinality(after.entries) \in Nat
        /\ st.initialRing \in Int /\ after.initialRing \in Int /\ LastRing \in Int
    BY FS_CardinalityType, LastRingAssumption DEF TakesBack, Sound, Storage
  <2>3. /\ st.initialRing + Cardinality(st.entries) <= LastRing
        /\ after.initialRing <= st.initialRing
    BY DEF Sound, TakesBack
  <2> QED BY <2>1, <2>2, <2>3
<1>3. ASSUME NEW p \in after.pending, p.kind = "task_delete"
      PROVE  \A x \in after.entries : x.id \notin p.eventIds
  BY <1>1, <1>3 DEF TakesBack, Sound
<1>4. \A x \in after.entries :
        x.id < n /\ \A h \in after.history : x.id \notin IdsOf(h.entries)
  BY <1>1 DEF TakesBack, Sound
<1> QED BY <1>2, <1>3, <1>4 DEF TakesBack, Sound

LEMMA UndoTakesBack ==
  ASSUME NEW n, NEW st, Sound(st, n), NEW last \in st.entries
  PROVE  LET after == Repo!UndoEntry(st, last) IN
         TakesBack(st, after) /\ \A x \in after.entries : x.id # last.id
PROOF
<1> DEFINE after == Repo!UndoEntry(st, last)
<1>1. st \in Storage /\ \A x, y \in st.entries : x.id = y.id => x = y
  BY DEF Sound
<1>2. /\ after \in Storage
      /\ after.entries = st.entries \ {last} /\ after.history = st.history
      /\ after.initialRing = st.initialRing
      /\ after.pending = {p \in st.pending : p.id # last.id}
  BY <1>1 DEF Repo!UndoEntry, Repo!Without, Storage
<1> HIDE DEF after
<1>3. \A x \in after.entries : x.id # last.id
  BY <1>1, <1>2
<1>4. after.initialRing <= st.initialRing
  BY <1>1, <1>2, LastRingAssumption DEF Storage
<1>5. IdsOf(st.entries) \ IdsOf(after.entries) \subseteq {last.id}
  BY <1>2 DEF IdsOf
<1>6. IsFiniteSet(after.entries)
  BY <1>2, FS_Subset DEF Sound
<1>7. IdsOf(after.entries) \subseteq IdsOf(st.entries)
  BY <1>2 DEF IdsOf
<1>8. TakesBack(st, after)
  BY <1>1, <1>2, <1>4, <1>5, <1>6, <1>7 DEF TakesBack
<1> QED BY <1>3, <1>8 DEF after

\* The rings that stay get numbers within the cycle.
LEMMA RenumberedRings ==
  ASSUME NEW entries \in SUBSET Entry, IsFiniteSet(entries),
         NEW ring \in 0..(LastRing - 1), ring + Cardinality(entries) <= LastRing,
         \A x, y \in entries : x.id = y.id => x = y
  PROVE  LET after == Repo!Renumbered(entries, ring) IN
         /\ after \in SUBSET Entry /\ IsFiniteSet(after)
         /\ IdsOf(after) = IdsOf(entries)
         /\ \A x, y \in after : x.id = y.id => x = y
PROOF
<1> DEFINE upTo(x) == {y \in entries : y.id <= x.id}
           again(x) == [x EXCEPT !.ringNumber = ring + Cardinality(upTo(x))]
           image == {again(x) : x \in entries}
           map == [x \in entries |-> again(x)]
<1>1. Repo!Renumbered(entries, ring) = image
  <2>1. \A x \in entries :
          again(x) = [x EXCEPT !.ringNumber =
                        ring + Repo!Cardinality({y \in entries : y.id <= x.id})]
    BY RepoCardinality
  <2> DEFINE theirs(x) == [x EXCEPT !.ringNumber =
                             ring + Repo!Cardinality({y \in entries : y.id <= x.id})]
  <2>2. Repo!Renumbered(entries, ring) = {theirs(x) : x \in entries}
    BY Zenon DEF Repo!Renumbered
  <2>3. \A x \in entries : again(x) = theirs(x)
    BY <2>1
  <2> HIDE DEF again, theirs
  <2> QED BY <2>2, <2>3
<1>2. ASSUME NEW x \in entries PROVE again(x) \in Entry /\ again(x).id = x.id
  <2>1. IsFiniteSet(upTo(x)) /\ Cardinality(upTo(x)) <= Cardinality(entries)
    BY FS_Subset
  <2>2. x \in upTo(x)
    BY DEF Entry
  <2> HIDE DEF upTo
  <2>3. Cardinality(upTo(x)) \in Nat \ {0} /\ Cardinality(entries) \in Nat
    BY <2>1, <2>2, FS_EmptySet, FS_CardinalityType
  <2>4. ring + Cardinality(upTo(x)) \in 1..LastRing
    BY <2>1, <2>3, LastRingAssumption
  <2> QED BY <2>4 DEF Entry
<1>3. map \in Surjection(entries, image)
  BY DEF Surjection
<1>4. IsFiniteSet(image)
  <2> HIDE DEF map, image
  <2> QED BY <1>3, FS_Surjection
<1> HIDE DEF again
<1>5. IdsOf(image) = IdsOf(entries)
  BY <1>2 DEF IdsOf
<1>6. \A x, y \in image : x.id = y.id => x = y
  BY <1>2
<1> QED BY <1>1, <1>2, <1>4, <1>5, <1>6

LEMMA DeleteTakesBack ==
  ASSUME NEW n, NEW st, Sound(st, n), NEW id \in Nat
  PROVE  LET after == Repo!DeleteEntry(st, id) IN
         TakesBack(st, after) /\ \A x \in after.entries : x.id # id
PROOF
<1> DEFINE after == Repo!DeleteEntry(st, id)
           kept == {x \in st.entries : x.id # id}
           again == Repo!Renumbered(kept, st.initialRing)
<1>1. st \in Storage /\ IsFiniteSet(st.entries)
  BY DEF Sound
<1>2. IsFiniteSet(kept) /\ Cardinality(kept) <= Cardinality(st.entries)
  BY <1>1, FS_Subset
<1>3. kept \in SUBSET Entry /\ st.initialRing \in 0..(LastRing - 1)
  BY <1>1 DEF Storage
<1>4. \A x, y \in kept : x.id = y.id => x = y
  BY DEF Sound
<1>5. IdsOf(kept) = IdsOf(st.entries) \ {id}
  BY DEF IdsOf
<1>6. after = [st EXCEPT !.entries = again, !.pending = {p \in st.pending : p.id # id}]
  BY DEF Repo!DeleteEntry, Repo!Without
<1> HIDE DEF kept
<1>7. st.initialRing + Cardinality(kept) <= LastRing
  <2>1. Cardinality(st.entries) \in Nat /\ Cardinality(kept) \in Nat
    BY <1>1, <1>2, FS_CardinalityType
  <2>2. st.initialRing + Cardinality(st.entries) <= LastRing
    BY DEF Sound
  <2> QED BY <1>2, <1>3, <2>1, <2>2, LastRingAssumption
<1>8. /\ again \in SUBSET Entry /\ IsFiniteSet(again) /\ IdsOf(again) = IdsOf(kept)
      /\ \A x, y \in again : x.id = y.id => x = y
  BY <1>2, <1>3, <1>4, <1>7, RenumberedRings
<1> HIDE DEF after, again
<1>9. /\ after \in Storage /\ after.entries = again /\ after.history = st.history
      /\ after.initialRing = st.initialRing
      /\ after.pending = {p \in st.pending : p.id # id}
  BY <1>1, <1>6, <1>8 DEF Storage
<1>10. \A x \in after.entries : x.id # id
  BY <1>5, <1>8, <1>9 DEF IdsOf
<1>11. after.initialRing <= st.initialRing
  BY <1>3, <1>9, LastRingAssumption
<1>12. TakesBack(st, after)
  BY <1>5, <1>8, <1>9, <1>11 DEF TakesBack
<1> QED BY <1>10, <1>12 DEF after

LEMMA ResetTakesBack ==
  ASSUME NEW n, NEW st, Sound(st, n)
  PROVE  LET after == Repo!ResetCurrent(st) IN
         TakesBack(st, after) /\ after.entries = {}
PROOF
<1> DEFINE after == Repo!ResetCurrent(st)
           some == {p \in st.pending : p.kind # "task" \/ p.id \notin IdsOf(st.entries)}
           a == [st EXCEPT !.pending = some]
           b == [a EXCEPT !.initialRing = 0]
           c == [b EXCEPT !.initialScore = 0]
           d == [c EXCEPT !.entries = {}]
<1>1. st \in Storage
  BY DEF Sound
<1>2. after = d
  BY DEF Repo!ResetCurrent, Repo!EmptyCycle, Repo!IdsOf, IdsOf
<1>3. a \in Storage /\ a.history = st.history /\ a.pending = some
  BY <1>1 DEF Storage
<1> HIDE DEF some, a
<1>4. b \in Storage /\ b.history = st.history /\ b.pending = some /\ b.initialRing = 0
  BY <1>3, LastRingAssumption DEF Storage
<1> HIDE DEF b
<1>5. c \in Storage /\ c.history = st.history /\ c.pending = some /\ c.initialRing = 0
  BY <1>4 DEF Storage
<1> HIDE DEF c
<1>6. /\ d \in Storage /\ d.history = st.history /\ d.pending = some /\ d.initialRing = 0
      /\ d.entries = {}
  BY <1>5 DEF Storage
<1> HIDE DEF d, after
<1>7. 0 <= st.initialRing
  BY <1>1, LastRingAssumption DEF Storage
<1>8. TakesBack(st, after)
  BY <1>2, <1>6, <1>7, FS_EmptySet DEF TakesBack, some, IdsOf
<1> QED BY <1>2, <1>6, <1>8 DEF after


LEMMA UpdateCurrentSound ==
  ASSUME NEW n, NEW st, Sound(st, n), NEW ring \in 0..(LastRing - 1),
         ring + Cardinality(st.entries) <= LastRing
  PROVE  LET after == Repo!UpdateCurrent(st, ring, 0) IN
         /\ Sound(after, n)
         /\ after.entries = st.entries /\ after.pending = st.pending
PROOF
<1> DEFINE after == Repo!UpdateCurrent(st, ring, 0)
           a == [st EXCEPT !.initialRing = ring]
<1>1. st \in Storage
  BY DEF Sound
<1>2. /\ after \in Storage /\ after.initialRing = ring
      /\ after.entries = st.entries /\ after.history = st.history
      /\ after.pending = st.pending
  <2>1. after = [a EXCEPT !.initialScore = 0]
    BY DEF Repo!UpdateCurrent
  <2>2. /\ a \in Storage /\ a.initialRing = ring
        /\ a.entries = st.entries /\ a.history = st.history /\ a.pending = st.pending
    BY <1>1 DEF Storage
  <2> HIDE DEF a
  <2> QED BY <2>1, <2>2 DEF Storage
<1> HIDE DEF after
<1>3. Sound(after, n)
  BY <1>2 DEF Sound
<1> QED BY <1>2, <1>3 DEF after

LEMMA SetConsentSound ==
  ASSUME NEW n, NEW st, Sound(st, n), NEW value \in Repo!Consents
  PROVE  LET after == Repo!SetConsent(st, value) IN
         /\ Sound(after, n)
         /\ after.entries = st.entries /\ after.pending = st.pending
PROOF
<1> DEFINE after == Repo!SetConsent(st, value)
<1>1. st \in Storage
  BY DEF Sound
<1>2. /\ after \in Storage /\ after.initialRing = st.initialRing
      /\ after.entries = st.entries /\ after.history = st.history
      /\ after.pending = st.pending
  BY <1>1 DEF Repo!SetConsent, Storage
<1> HIDE DEF after
<1>3. Sound(after, n)
  BY <1>2 DEF Sound
<1> QED BY <1>2, <1>3 DEF after

LEMMA DeleteHistorySound ==
  ASSUME NEW n, NEW st, Sound(st, n), NEW id
  PROVE  LET after == Repo!DeleteHistory(st, id) IN
         /\ Sound(after, n)
         /\ after.entries = st.entries /\ after.pending = st.pending
PROOF
<1> DEFINE after == Repo!DeleteHistory(st, id)
<1>1. st \in Storage /\ IsFiniteSet(st.history)
  BY DEF Sound
<1>2. /\ after \in Storage /\ after.initialRing = st.initialRing
      /\ after.entries = st.entries /\ after.history \subseteq st.history
      /\ after.pending = st.pending
  BY <1>1 DEF Repo!DeleteHistory, Storage
<1> HIDE DEF after
<1>3. IsFiniteSet(after.history) /\ Cardinality(after.history) <= Cardinality(st.history)
  BY <1>1, <1>2, FS_Subset
<1>4. Cardinality(after.history) <= MaxHistory
  <2>1. Cardinality(after.history) \in Nat /\ Cardinality(st.history) \in Nat
    BY <1>1, <1>3, FS_CardinalityType
  <2>2. Cardinality(st.history) <= MaxHistory /\ MaxHistory \in Nat
    BY BrokenTurnsAssumption DEF Sound
  <2> QED BY <1>3, <2>1, <2>2
<1>5. Sound(after, n)
  BY <1>2, <1>3, <1>4 DEF Sound
<1> QED BY <1>2, <1>5 DEF after

LEMMA RemovePendingSound ==
  ASSUME NEW n, NEW st, Sound(st, n), NEW id
  PROVE  LET after == Repo!RemovePendingEvent(st, id) IN
         /\ Sound(after, n)
         /\ after.initialRing = st.initialRing
         /\ after.entries = st.entries /\ after.history = st.history
         /\ after.pending \subseteq st.pending
PROOF
<1> DEFINE after == Repo!RemovePendingEvent(st, id)
<1>1. st \in Storage
  BY DEF Sound
<1>2. /\ after \in Storage /\ after.initialRing = st.initialRing
      /\ after.entries = st.entries /\ after.history = st.history
      /\ after.pending \subseteq st.pending
  BY <1>1 DEF Repo!RemovePendingEvent, Repo!Without, Storage
<1> HIDE DEF after
<1>3. Sound(after, n)
  BY <1>2 DEF Sound
<1> QED BY <1>2, <1>3 DEF after

\* The finished cycle takes its rings along, under a number of its own.
LEMMA CompleteCycleSound ==
  ASSUME NEW n \in Nat \ {0}, NEW st, Sound(st, n)
  PROVE  LET after == Repo!CompleteCycle(st, n) IN
         /\ Sound(after, n + 1)
         /\ after.entries = {} /\ after.pending = st.pending
PROOF
<1> DEFINE after == Repo!CompleteCycle(st, n)
           cycle == [id |-> n, entries |-> st.entries]
           all == st.history \cup {cycle}
           kept == Repo!Newest(all)
           a == [st EXCEPT !.history = kept]
           b == [a EXCEPT !.initialRing = 0]
           c == [b EXCEPT !.initialScore = 0]
           d == [c EXCEPT !.entries = {}]
<1>1. st \in Storage /\ IsFiniteSet(st.history) /\ Sound(st, n + 1)
  BY SoundLater DEF Sound
<1>2. after = d
  BY DEF Repo!CompleteCycle, Repo!EmptyCycle
<1>3. /\ cycle \in [id : Nat, entries : SUBSET Entry]
      /\ cycle.id = n /\ cycle.entries = st.entries
  BY <1>1 DEF Storage
<1> HIDE DEF cycle
<1>4. \A h \in st.history : h.id \in Nat /\ h.id < n
  BY <1>1 DEF Sound, Storage
<1>5. \A h \in st.history : h.id # n
  BY <1>4
<1>6. /\ IsFiniteSet(all) /\ \A h \in all : h.id \in Nat
      /\ \A g, h \in all : g.id = h.id => g = h
  BY <1>1, <1>3, <1>4, <1>5, FS_AddElement DEF Sound
<1>7. all \subseteq [id : Nat, entries : SUBSET Entry]
  BY <1>1, <1>3 DEF Storage
<1>8. kept \subseteq all /\ IsFiniteSet(kept) /\ Cardinality(kept) <= MaxHistory
  BY <1>6, NewestBounded
<1> HIDE DEF kept
<1>9. a \in Storage /\ a.history = kept /\ a.pending = st.pending
  BY <1>1, <1>7, <1>8 DEF Storage
<1> HIDE DEF a
<1>10. b \in Storage /\ b.history = kept /\ b.pending = st.pending /\ b.initialRing = 0
  BY <1>9, LastRingAssumption DEF Storage
<1> HIDE DEF b
<1>11. c \in Storage /\ c.history = kept /\ c.pending = st.pending /\ c.initialRing = 0
  BY <1>10 DEF Storage
<1> HIDE DEF c
<1>12. /\ d \in Storage /\ d.history = kept /\ d.pending = st.pending /\ d.initialRing = 0
       /\ d.entries = {}
  BY <1>11 DEF Storage
<1> HIDE DEF d
<1>13. \A h \in kept : h.id < n + 1 /\ \A x \in h.entries : x.id < n + 1
  BY <1>1, <1>3, <1>8 DEF Sound
<1>14. \A g, h \in kept : g.id = h.id => g = h
  BY <1>6, <1>8
<1>15. ASSUME NEW p \in st.pending, p.kind = "task_delete"
       PROVE  \A h \in kept : \A x \in h.entries : x.id \notin p.eventIds
  BY <1>3, <1>8, <1>15 DEF Sound
<1>16. d.initialRing + Cardinality(d.entries) <= LastRing
  BY <1>12, FS_EmptySet, LastRingAssumption
<1>17. IsFiniteSet(d.entries)
  BY <1>12, FS_EmptySet
<1> HIDE DEF all
<1>18. \A p \in d.pending : p.id < n + 1
  BY <1>1, <1>12 DEF Sound
<1>19. \A p \in d.pending : p.kind = "task_delete" => \A id \in p.eventIds : id < n + 1
  BY <1>1, <1>12 DEF Sound
<1>20. Sound(d, n + 1)
  BY <1>8, <1>12, <1>13, <1>14, <1>15, <1>16, <1>17, <1>18, <1>19 DEF Sound
<1> QED BY <1>2, <1>12, <1>20

-----------------------------------------------------------------------------
(* The steps.                                                              *)

\* What is left to see of a step once its stored state and the page are known.
LEMMA StepKeeps ==
  ASSUME IInv, nextId' \in Nat \ {0}, nextId <= nextId',
         Sound(storage', nextId'), Behind(storage', view', nextId'),
         recorded \subseteq recorded',
         recorded' \subseteq recorded \cup IdsOf(storage'.entries),
         reported \subseteq reported',
         reported' \subseteq reported
           \cup {p.id : p \in {e \in storage'.pending : e.kind = "reward"}},
         removed' \subseteq removed \cup IdsOf(storage.entries),
         \A id \in shared' : id \in shared \/ (id \in Nat /\ id - 1 \in reported'),
         \A p \in storage'.pending : p.kind = "task" => p.id \in recorded' \ removed'
  PROVE  IInv'
PROOF
<1>1. recorded' \subseteq Nat
  <2>1. IdsOf(storage'.entries) \subseteq Nat
    BY DEF Sound, Storage, Entry, IdsOf
  <2> QED BY <2>1 DEF IInv
<1>2. reported' \subseteq Nat
  <2>1. \A p \in storage'.pending : p.id \in Nat
    BY DEF Sound, Storage, Request, RewardRequests
  <2> QED BY <2>1 DEF IInv
<1>3. removed' \subseteq Nat /\ \A id \in removed' : id < nextId'
  <2>1. \A id \in IdsOf(storage.entries) : id \in Nat /\ id < nextId
    BY DEF IInv, Sound, Storage, Entry, IdsOf
  <2>2. \A id \in removed : id \in Nat /\ id < nextId
    BY DEF IInv
  <2>3. nextId \in Nat
    BY DEF IInv
  <2> QED BY <2>1, <2>2, <2>3
<1>4. shared' \subseteq Nat /\ CyclesReported'
  BY DEF IInv, CyclesReported
<1>5. OutboxRecorded'
  BY DEF OutboxRecorded
<1> QED BY <1>1, <1>2, <1>3, <1>4, <1>5 DEF IInv


\* Where a turn of one write and one of two writes break off.
LEMMA TurnOfOne ==
  ASSUME NEW w, NEW k, NEW rest, Turn(<<w>>, k, rest)
  PROVE  \/ k = 0 /\ storage' = storage /\ view' = rest
         \/ k = 1 /\ storage' = w /\ view' = Seen(w)
PROOF
<1>1. Len(<<w>>) = 1 /\ <<w>>[1] = w
  OBVIOUS
<1>2. k \in 0..1
  BY <1>1 DEF Turn
<1>3. CASE k = 0
  BY <1>1, <1>3 DEF Turn
<1>4. CASE k = 1
  <2>1. storage' = w
    BY <1>1, <1>4 DEF Turn
  <2>2. view' = Seen(storage')
    BY <1>1, <1>4 DEF Turn
  <2> QED BY <1>4, <2>1, <2>2
<1> QED BY <1>2, <1>3, <1>4

LEMMA TurnOfTwo ==
  ASSUME NEW v, NEW w, NEW k, NEW rest, Turn(<<v, w>>, k, rest)
  PROVE  \/ k = 0 /\ storage' = storage /\ view' = rest
         \/ k = 1 /\ storage' = v /\ view' = rest
         \/ k = 2 /\ storage' = w /\ view' = Seen(w)
PROOF
<1>1. Len(<<v, w>>) = 2 /\ <<v, w>>[1] = v /\ <<v, w>>[2] = w
  OBVIOUS
<1>2. k \in 0..2
  BY <1>1 DEF Turn
<1>3. CASE k = 0
  BY <1>1, <1>3 DEF Turn
<1>4. CASE k = 1
  BY <1>1, <1>4 DEF Turn
<1>5. CASE k = 2
  <2>1. storage' = w
    BY <1>1, <1>5 DEF Turn
  <2>2. view' = Seen(storage')
    BY <1>1, <1>5 DEF Turn
  <2> QED BY <1>5, <2>1, <2>2
<1> QED BY <1>2, <1>3, <1>4, <1>5

LEMMA TurnRemembers ==
  ASSUME NEW writes, NEW k, NEW rest, Turn(writes, k, rest)
  PROVE  /\ recorded \subseteq recorded'
         /\ recorded' \subseteq recorded \cup IdsOf(storage'.entries)
         /\ IdsOf(storage'.entries) \subseteq recorded'
         /\ reported \subseteq reported'
         /\ reported' \subseteq reported
              \cup {p.id : p \in {e \in storage'.pending : e.kind = "reward"}}
         /\ \A p \in storage'.pending : p.kind = "reward" => p.id \in reported'
PROOF BY DEF Turn

\* A turn that changes neither the rings nor the outbox.
LEMMA PlainTurn ==
  ASSUME IInv, NEW w, NEW k, Sound(w, nextId),
         w.entries = storage.entries, w.pending = storage.pending,
         Turn(<<w>>, k, view), UNCHANGED <<nextId, removed, shared>>
  PROVE  IInv'
PROOF
<1>1. /\ Sound(storage, nextId) /\ Behind(storage, view, nextId)
      /\ nextId \in Nat \ {0} /\ shared \subseteq Nat
  BY DEF IInv
<1>2. Sound(storage', nextId') /\ Behind(storage', view', nextId')
  BY <1>1, TurnOfOne, SeenIsBehind
<1>3. storage'.pending = storage.pending
  BY TurnOfOne
<1>4. \A p \in storage'.pending : p.kind = "task" => p.id \in recorded' \ removed'
  BY <1>3, TurnRemembers DEF IInv, OutboxRecorded
<1>5. nextId' \in Nat \ {0} /\ nextId <= nextId'
  BY <1>1
<1>6. removed' \subseteq removed \cup IdsOf(storage.entries)
  OBVIOUS
<1>7. \A id \in shared' : id \in shared
  OBVIOUS
<1> QED BY <1>2, <1>4, <1>5, <1>6, <1>7, TurnRemembers, StepKeeps

LEMMA UpdateCycleSetupKeeps ==
  ASSUME IInv, NEW ring \in RingInputs, NEW k, UpdateCycleSetup(ring, k)
  PROVE  IInv'
PROOF
<1>1. Sound(storage, nextId) /\ Behind(storage, view, nextId)
  BY DEF IInv
<1>2. ring \in 0..(LastRing - 1)
  BY BrokenTurnsAssumption
<1>3. ring + Cardinality(storage.entries) <= LastRing
  <2>1. Cardinality(storage.entries) <= Cardinality(view.entries)
    BY <1>1, FewerRings DEF Sound, Behind
  <2>2. Cardinality(storage.entries) \in Nat /\ Cardinality(view.entries) \in Nat
    BY <1>1, FS_CardinalityType DEF Sound, Behind
  <2>3. ring + Cardinality(view.entries) <= LastRing
    BY DEF UpdateCycleSetup, SetupFits
  <2> QED BY <1>2, <2>1, <2>2, <2>3, LastRingAssumption
<1> DEFINE w == Repo!UpdateCurrent(storage, ring, 0)
<1>4. Sound(w, nextId) /\ w.entries = storage.entries /\ w.pending = storage.pending
  BY <1>1, <1>2, <1>3, UpdateCurrentSound
<1>5. Turn(<<w>>, k, view) /\ UNCHANGED <<nextId, removed, shared>>
  BY DEF UpdateCycleSetup
<1> HIDE DEF w
<1> QED BY <1>4, <1>5, PlainTurn

LEMMA ChooseConsentKeeps ==
  ASSUME IInv, NEW value \in {"share", "local"}, NEW k, ChooseConsent(value, k)
  PROVE  IInv'
PROOF
<1> DEFINE w == Repo!SetConsent(storage, value)
<1>1. value \in Repo!Consents
  BY DEF Repo!Consents
<1>2. Sound(w, nextId) /\ w.entries = storage.entries /\ w.pending = storage.pending
  BY <1>1, SetConsentSound DEF IInv
<1>3. Turn(<<w>>, k, view) /\ UNCHANGED <<nextId, removed, shared>>
  BY DEF ChooseConsent
<1> HIDE DEF w
<1> QED BY <1>2, <1>3, PlainTurn

LEMMA DeleteHistoryKeeps ==
  ASSUME IInv, NEW id, NEW k, DeleteHistory(id, k)
  PROVE  IInv'
PROOF
<1> DEFINE w == Repo!DeleteHistory(storage, id)
<1>1. Sound(w, nextId) /\ w.entries = storage.entries /\ w.pending = storage.pending
  BY DeleteHistorySound DEF IInv
<1>2. Turn(<<w>>, k, view) /\ UNCHANGED <<nextId, removed, shared>>
  BY DEF DeleteHistory
<1> HIDE DEF w
<1> QED BY <1>1, <1>2, PlainTurn

LEMMA SentKeeps ==
  ASSUME IInv, NEW event, Sent(event)
  PROVE  IInv'
PROOF
<1>1. /\ Sound(storage, nextId) /\ Behind(storage, view, nextId)
      /\ nextId \in Nat \ {0}
  BY DEF IInv
<1>2. /\ storage' = Repo!RemovePendingEvent(storage, event.id)
      /\ UNCHANGED <<view, nextId, recorded, removed, shared, reported>>
  BY DEF Sent, histories
<1>3. /\ Sound(storage', nextId)
      /\ storage'.initialRing = storage.initialRing
      /\ storage'.entries = storage.entries /\ storage'.history = storage.history
      /\ storage'.pending \subseteq storage.pending
  BY <1>1, <1>2, RemovePendingSound
<1>4. Behind(storage', view', nextId')
  BY <1>1, <1>2, <1>3 DEF Behind
<1>5. \A p \in storage'.pending : p.kind = "task" => p.id \in recorded' \ removed'
  BY <1>2, <1>3 DEF IInv, OutboxRecorded
<1>6. nextId' \in Nat \ {0} /\ nextId <= nextId'
  BY <1>1, <1>2
<1>7. Sound(storage', nextId')
  BY <1>2, <1>3
<1> QED BY <1>2, <1>4, <1>5, <1>6, <1>7, StepKeeps

LEMMA OpenKeeps ==
  ASSUME IInv, Open
  PROVE  IInv'
PROOF
<1>1. Sound(storage, nextId) /\ nextId \in Nat \ {0}
  BY DEF IInv
<1>2. /\ view' = Seen(storage)
      /\ UNCHANGED <<storage, nextId, recorded, removed, shared, reported>>
  BY DEF Open, histories
<1>3. Sound(storage', nextId') /\ Behind(storage', view', nextId')
  BY <1>1, <1>2, SeenIsBehind
<1>4. \A p \in storage'.pending : p.kind = "task" => p.id \in recorded' \ removed'
  BY <1>2 DEF IInv, OutboxRecorded
<1>5. nextId' \in Nat \ {0} /\ nextId <= nextId'
  BY <1>1, <1>2
<1> QED BY <1>2, <1>3, <1>4, <1>5, StepKeeps


\* The stored ring number and the stored cycle stay within the cycle although
\* the guard looks at the page's state.
LEMMA AddEntryKeeps ==
  ASSUME IInv, NEW result \in Results, NEW k, AddEntry(result, k)
  PROVE  IInv'
PROOF
<1> DEFINE entry == [id |-> nextId, ringNumber |-> Ring(view) + 1, result |-> result]
           added == Repo!AddEntry(storage, entry)
           request == TaskRequest(nextId, Ring(view) + 1, result)
           queued == Repo!QueueEvent(added, request)
           rest == IF k = 0 THEN view ELSE Seen(added)
<1>1. /\ Sound(storage, nextId) /\ Behind(storage, view, nextId)
      /\ nextId \in Nat \ {0} /\ LastRing \in Nat \ {0}
  BY LastRingAssumption DEF IInv
<1>2. /\ Ring(view) \in 0..(LastRing - 1)
      /\ storage.initialRing + Cardinality(storage.entries) < LastRing
  <2>1. Cardinality(storage.entries) <= Cardinality(view.entries)
    BY <1>1, FewerRings DEF Sound, Behind
  <2>2. Cardinality(storage.entries) \in Nat /\ Cardinality(view.entries) \in Nat
    BY <1>1, FS_CardinalityType DEF Sound, Behind
  <2>3. view.initialRing \in 0..(LastRing - 1) /\ storage.initialRing \in 0..(LastRing - 1)
    BY <1>1 DEF Behind, View, Sound, Storage
  <2>4. storage.initialRing <= view.initialRing
    BY <1>1 DEF Behind
  <2>5. Ring(view) = view.initialRing + Cardinality(view.entries)
    BY <1>1, <2>2, <2>3 DEF AddEntry, CycleOpen, Ring
  <2>6. Ring(view) < LastRing
    BY DEF AddEntry, CycleOpen
  <2> QED BY <1>1, <2>1, <2>2, <2>3, <2>4, <2>5, <2>6
<1>3. entry \in Entry /\ entry.id = nextId
  <2>1. result \in RingResult
    BY BrokenTurnsAssumption
  <2> QED BY <1>1, <1>2, <2>1 DEF Entry
<1>4. /\ request \in Request \cup RewardRequests /\ request.id = nextId
      /\ request.kind = "task"
  <2>1. result \in RingResult
    BY BrokenTurnsAssumption
  <2>2. Ring(view) + 1 \in Nat
    BY <1>1, <1>2
  <2> QED BY <1>1, <2>1, <2>2 DEF Request, TaskRequest
<1>5. AddEntryWrites(entry) = <<added, queued>> \/ AddEntryWrites(entry) = <<added>>
  BY DEF AddEntryWrites
<1>6. /\ nextId' = nextId + 1 /\ UNCHANGED <<removed, shared>>
      /\ Turn(AddEntryWrites(entry), k, IF k = 0 THEN view ELSE Seen(AddEntryWrites(entry)[1]))
  BY DEF AddEntry
<1>7. Turn(<<added, queued>>, k, rest) \/ Turn(<<added>>, k, rest)
  <2>1. AddEntryWrites(entry)[1] = added
    BY <1>5
  <2> HIDE DEF added, queued, entry
  <2> QED BY <1>5, <1>6, <2>1
<1> HIDE DEF request, entry
<1>8. /\ Sound(added, nextId + 1) /\ added.entries = storage.entries \cup {entry}
      /\ added.pending = storage.pending
  BY <1>1, <1>2, <1>3, AddEntrySound
<1> HIDE DEF added
<1>9. /\ Sound(queued, nextId + 1) /\ queued.entries = added.entries
      /\ queued.pending \subseteq added.pending \cup {request}
  BY <1>1, <1>4, <1>8, QueueEventSound
<1> HIDE DEF queued
<1>10. /\ nextId' \in Nat \ {0} /\ nextId <= nextId' /\ nextId \in Nat
       /\ Sound(storage, nextId') /\ Behind(storage, view, nextId')
  BY <1>1, <1>6, SoundLater, BehindLater
<1>11. \/ storage' = storage /\ view' = view
       \/ storage' = added /\ view' = Seen(added)
       \/ storage' = queued /\ view' = Seen(queued)
  BY <1>7, TurnOfOne, TurnOfTwo
<1>12. Sound(storage', nextId') /\ Behind(storage', view', nextId')
  BY <1>6, <1>8, <1>9, <1>10, <1>11, SeenIsBehind
<1>13. /\ recorded \subseteq recorded'
       /\ recorded' \subseteq recorded \cup IdsOf(storage'.entries)
       /\ IdsOf(storage'.entries) \subseteq recorded'
       /\ reported \subseteq reported'
       /\ reported' \subseteq reported
            \cup {p.id : p \in {e \in storage'.pending : e.kind = "reward"}}
  BY <1>7, TurnRemembers
<1>14. nextId \notin removed'
  BY <1>1, <1>6 DEF IInv
<1>15. \A p \in storage'.pending : p.kind = "task" => p.id \in recorded' \ removed'
  <2>1. \A p \in storage.pending : p.kind = "task" => p.id \in recorded' \ removed'
    BY <1>6, <1>13 DEF IInv, OutboxRecorded
  <2>2. CASE storage' = queued
    <3>1. entry \in storage'.entries
      BY <1>8, <1>9, <2>2
    <3>2. nextId \in recorded'
      BY <1>3, <1>13, <3>1 DEF IdsOf
    <3> QED BY <1>4, <1>8, <1>9, <1>14, <2>1, <2>2, <3>2
  <2> QED BY <1>8, <1>11, <2>1, <2>2
<1>16. removed' \subseteq removed \cup IdsOf(storage.entries) /\ \A id \in shared' : id \in shared
  BY <1>6
<1> QED BY <1>10, <1>12, <1>13, <1>15, <1>16, StepKeeps

\* Wherever the turn breaks off, the rings are gone before their deletion waits.
LEMMA TakeBackKeeps ==
  ASSUME IInv, NEW st, TakesBack(storage, st), NEW eventIds \in SUBSET Nat,
         \A id \in eventIds : id < nextId,
         \A x \in st.entries : x.id \notin eventIds,
         \A h \in storage.history : \A x \in h.entries : x.id \notin eventIds,
         NEW k, TakeBack(st, eventIds, k)
  PROVE  IInv'
PROOF
<1> DEFINE request == DeleteRequest(nextId, eventIds)
           queued == Repo!QueueEvent(st, request)
<1>1. /\ Sound(storage, nextId) /\ Behind(storage, view, nextId)
      /\ nextId \in Nat \ {0}
  BY DEF IInv
<1>2. request \in Request \cup RewardRequests
  BY <1>1 DEF Request, DeleteRequest
<1>3. /\ request.id = nextId /\ request.kind = "task_delete"
      /\ request.eventIds = eventIds
  BY DEF DeleteRequest
<1>4. /\ nextId' = nextId + 1 /\ shared' = shared
      /\ removed' = removed \cup (IdsOf(storage.entries) \ IdsOf(storage'.entries))
      /\ Turn(TakeBackWrites(st, eventIds), k, view)
  BY DEF TakeBack
<1>5. Turn(<<st>>, k, view) \/ Turn(<<st, queued>>, k, view)
  BY <1>4 DEF TakeBackWrites
<1> HIDE DEF request
<1>6. /\ nextId' \in Nat \ {0} /\ nextId <= nextId' /\ nextId \in Nat
      /\ Sound(storage, nextId') /\ Behind(storage, view, nextId')
  BY <1>1, <1>4, SoundLater, BehindLater
<1>7. Sound(st, nextId) /\ st.history = storage.history
  BY <1>1, TakesBackSound DEF TakesBack
<1>8. Sound(st, nextId')
  BY <1>6, <1>7, SoundLater
<1>9. \A id \in eventIds : id < nextId'
  BY <1>1, <1>4
<1>10. request.id < nextId'
  BY <1>1, <1>3, <1>4
<1>11. /\ Sound(queued, nextId') /\ queued.entries = st.entries
       /\ queued.history = st.history /\ queued.initialRing = st.initialRing
       /\ queued.pending \subseteq st.pending \cup {request}
  BY <1>2, <1>3, <1>7, <1>8, <1>9, <1>10, QueueEventSound
<1> HIDE DEF queued
<1>12. \/ storage' = storage /\ view' = view
       \/ storage' = st /\ view' \in {view, Seen(st)}
       \/ storage' = queued /\ view' = Seen(queued)
  BY <1>5, TurnOfOne, TurnOfTwo
<1>13. Behind(st, view, nextId')
  <2>1. /\ view \in View /\ IsFiniteSet(view.entries)
        /\ IdsOf(st.entries) \subseteq IdsOf(view.entries)
        /\ \A x \in view.entries : x.id < nextId'
        /\ \A x \in view.entries : \A h \in st.history : x.id \notin IdsOf(h.entries)
    BY <1>6, <1>7 DEF Behind, TakesBack
  <2>2. /\ st.initialRing \in Int /\ storage.initialRing \in Int /\ view.initialRing \in Int
        /\ st.initialRing <= storage.initialRing /\ storage.initialRing <= view.initialRing
    BY <1>1, <1>6, LastRingAssumption DEF Sound, Behind, TakesBack, Storage, View
  <2> QED BY <2>1, <2>2 DEF Behind
<1>14. Sound(storage', nextId') /\ Behind(storage', view', nextId')
  BY <1>6, <1>8, <1>11, <1>12, <1>13, SeenIsBehind
<1>15. /\ recorded \subseteq recorded'
       /\ recorded' \subseteq recorded \cup IdsOf(storage'.entries)
       /\ reported \subseteq reported'
       /\ reported' \subseteq reported
            \cup {p.id : p \in {e \in storage'.pending : e.kind = "reward"}}
  BY <1>5, TurnRemembers
<1>16. \A p \in storage'.pending : p.kind = "task" => p.id \in recorded' \ removed'
  <2>1. \A p \in storage.pending : p.kind = "task" => p.id \in recorded' \ removed
    BY <1>15 DEF IInv, OutboxRecorded
  <2>2. CASE storage' = storage
    BY <1>4, <2>1, <2>2
  <2>3. CASE storage' # storage
    <3>1. storage'.entries = st.entries
      BY <1>11, <1>12, <2>3
    <3>2. \A p \in storage'.pending : p.kind = "task" => p \in st.pending
      BY <1>3, <1>11, <1>12, <2>3
    <3>3. \A p \in st.pending : p.kind = "task" =>
            p \in storage.pending /\ p.id \notin IdsOf(storage.entries) \ IdsOf(st.entries)
      BY DEF TakesBack
    <3> QED BY <1>4, <2>1, <3>1, <3>2, <3>3
  <2> QED BY <2>2, <2>3
<1>17. removed' \subseteq removed \cup IdsOf(storage.entries) /\ \A id \in shared' : id \in shared
  BY <1>4
<1> QED BY <1>6, <1>14, <1>15, <1>16, <1>17, StepKeeps


LEMMA UndoLastEntryKeeps ==
  ASSUME IInv, NEW k, UndoLastEntry(k)
  PROVE  IInv'
PROOF
<1>1. Sound(storage, nextId)
  BY DEF IInv
<1>2. PICK last \in storage.entries :
        TakeBack(Repo!UndoEntry(storage, last), {last.id}, k)
  BY DEF UndoLastEntry
<1> DEFINE st == Repo!UndoEntry(storage, last)
<1>3. TakesBack(storage, st) /\ \A x \in st.entries : x.id # last.id
  BY <1>1, UndoTakesBack
<1> HIDE DEF st
<1>4. last.id \in Nat /\ last.id < nextId
  BY <1>1 DEF Sound, Storage, Entry
<1>5. \A h \in storage.history : \A x \in h.entries : x.id # last.id
  BY <1>1 DEF Sound, IdsOf
<1>6. TakeBack(st, {last.id}, k)
  BY <1>2 DEF st
<1>7. \A id \in {last.id} : id < nextId
  BY <1>4
<1>8. {last.id} \in SUBSET Nat
  BY <1>4
<1>9. \A x \in st.entries : x.id \notin {last.id}
  BY <1>3
<1>10. \A h \in storage.history : \A x \in h.entries : x.id \notin {last.id}
  BY <1>5
<1> QED BY <1>3, <1>6, <1>7, <1>8, <1>9, <1>10, TakeBackKeeps

LEMMA DeleteEntryKeeps ==
  ASSUME IInv, NEW id \in IdsOf(view.entries), NEW k, DeleteEntry(id, k)
  PROVE  IInv'
PROOF
<1>1. Sound(storage, nextId) /\ Behind(storage, view, nextId)
  BY DEF IInv
<1>2. PICK seen \in view.entries : seen.id = id
  BY DEF IdsOf
<1>3. id \in Nat /\ id < nextId
  BY <1>1, <1>2 DEF Behind, View, Entry
<1>4. \A h \in storage.history : \A x \in h.entries : x.id # id
  BY <1>1, <1>2 DEF Behind, IdsOf
<1> DEFINE st == Repo!DeleteEntry(storage, id)
<1>5. TakesBack(storage, st) /\ \A x \in st.entries : x.id # id
  BY <1>1, <1>3, DeleteTakesBack
<1>6. TakeBack(st, {id}, k)
  BY DEF DeleteEntry
<1> HIDE DEF st
<1>7. {id} \in SUBSET Nat /\ \A i \in {id} : i < nextId
  BY <1>3
<1>8. \A x \in st.entries : x.id \notin {id}
  BY <1>5
<1>9. \A h \in storage.history : \A x \in h.entries : x.id \notin {id}
  BY <1>4
<1> QED BY <1>5, <1>6, <1>7, <1>8, <1>9, TakeBackKeeps

LEMMA ResetCycleKeeps ==
  ASSUME IInv, NEW k, ResetCycle(k)
  PROVE  IInv'
PROOF
<1> DEFINE st == Repo!ResetCurrent(storage)
           ids == IdsOf(view.entries)
<1>1. Sound(storage, nextId) /\ Behind(storage, view, nextId)
  BY DEF IInv
<1>2. TakesBack(storage, st) /\ st.entries = {}
  BY <1>1, ResetTakesBack
<1>3. TakeBack(st, ids, k)
  BY DEF ResetCycle
<1>4. ids \in SUBSET Nat /\ \A id \in ids : id < nextId
  BY <1>1 DEF Behind, View, Entry, IdsOf
<1>5. \A h \in storage.history : \A x \in h.entries : x.id \notin ids
  BY <1>1 DEF Behind, IdsOf
<1> HIDE DEF st, ids
<1>6. \A x \in st.entries : x.id \notin ids
  BY <1>2
<1> QED BY <1>2, <1>3, <1>4, <1>5, <1>6, TakeBackKeeps

\* The reward is queued first, so a cycle whose completion is stored has it.
LEMMA CompleteCycleKeeps ==
  ASSUME IInv, NEW k, CompleteCycle(k)
  PROVE  IInv'
PROOF
<1> DEFINE request == [kind |-> "reward", id |-> nextId]
           queued == Repo!QueueEvent(storage, request)
           reportedFirst == Repo!CompleteCycle(queued, nextId + 1)
           alone == Repo!CompleteCycle(storage, nextId + 1)
<1>1. /\ Sound(storage, nextId) /\ Behind(storage, view, nextId)
      /\ nextId \in Nat \ {0} /\ shared \subseteq Nat
  BY DEF IInv
<1>2. /\ nextId' = nextId + 2 /\ removed' = removed
      /\ shared' = IF view.consent = "share" /\ storage'.history # storage.history
                   THEN shared \cup {nextId + 1} ELSE shared
      /\ Turn(CompleteCycleWrites(request, nextId + 1), k, view)
  BY DEF CompleteCycle
<1>4. /\ nextId' \in Nat \ {0} /\ nextId <= nextId'
      /\ Sound(storage, nextId') /\ Behind(storage, view, nextId')
  BY <1>1, <1>2, SoundLater, BehindLater
<1>3. CASE view.consent = "share"
  <2>1. Turn(<<queued, reportedFirst>>, k, view)
    BY <1>2, <1>3 DEF CompleteCycleWrites
  <2>2. request \in Request \cup RewardRequests /\ request.id = nextId /\ request.kind = "reward"
    BY <1>1 DEF RewardRequests
  <2> HIDE DEF request
  <2>3. Sound(storage, nextId + 1) /\ request.id < nextId + 1
    BY <1>1, <2>2, SoundLater
  <2>4. \A p \in storage.pending : p.id # nextId
    BY <1>1 DEF Sound
  <2>5. /\ Sound(queued, nextId + 1) /\ queued.entries = storage.entries
        /\ queued.history = storage.history /\ queued.initialRing = storage.initialRing
        /\ queued.pending \subseteq storage.pending \cup {request}
        /\ request \in queued.pending
    BY <2>2, <2>3, <2>4, QueueEventSound
  <2> HIDE DEF queued
  <2>6. /\ Sound(reportedFirst, nextId + 2) /\ reportedFirst.pending = queued.pending
    <3>1. nextId + 1 \in Nat \ {0} /\ (nextId + 1) + 1 = nextId + 2
      BY <1>1
    <3> QED BY <2>5, <3>1, CompleteCycleSound
  <2> HIDE DEF reportedFirst
  <2>7. \/ storage' = storage /\ view' = view
        \/ storage' = queued /\ view' = view
        \/ storage' = reportedFirst /\ view' = Seen(reportedFirst)
    BY <2>1, TurnOfTwo
  <2>8. Sound(queued, nextId') /\ Behind(queued, view, nextId')
    <3>1. nextId + 1 \in Nat /\ nextId' \in Nat /\ nextId + 1 <= nextId'
      BY <1>1, <1>2
    <3>2. Sound(queued, nextId')
      BY <2>5, <3>1, SoundLater
    <3> QED BY <1>4, <2>5, <3>2 DEF Behind
  <2>9. Sound(storage', nextId') /\ Behind(storage', view', nextId')
    BY <1>2, <1>4, <2>6, <2>7, <2>8, SeenIsBehind
  <2>10. \A p \in storage'.pending : p \in storage.pending \/ p = request
    BY <2>5, <2>6, <2>7
  <2>11. storage'.history # storage.history => request \in storage'.pending
    BY <2>5, <2>6, <2>7
  <2>12. storage'.history # storage.history => nextId \in reported'
    BY <2>1, <2>2, <2>11, TurnRemembers
  <2>13. \A id \in shared' : id \in shared \/ (id \in Nat /\ id - 1 \in reported')
    BY <1>1, <1>2, <2>12
  <2>14. \A p \in storage'.pending : p.kind = "task" => p.id \in recorded' \ removed'
    BY <1>2, <2>1, <2>2, <2>10, TurnRemembers DEF IInv, OutboxRecorded
  <2>15. removed' \subseteq removed \cup IdsOf(storage.entries)
    BY <1>2
  <2> QED BY <1>4, <2>1, <2>9, <2>13, <2>14, <2>15, TurnRemembers, StepKeeps
<1>5. CASE view.consent # "share"
  <2>1. Turn(<<alone>>, k, view)
    BY <1>2, <1>5 DEF CompleteCycleWrites
  <2>2. Sound(alone, nextId + 2) /\ alone.pending = storage.pending
    <3>1. nextId + 1 \in Nat \ {0} /\ (nextId + 1) + 1 = nextId + 2
      BY <1>1
    <3>2. Sound(storage, nextId + 1)
      BY <1>1, SoundLater
    <3> QED BY <3>1, <3>2, CompleteCycleSound
  <2> HIDE DEF alone
  <2>3. \/ storage' = storage /\ view' = view
        \/ storage' = alone /\ view' = Seen(alone)
    BY <2>1, TurnOfOne
  <2>4. Sound(storage', nextId') /\ Behind(storage', view', nextId')
    BY <1>2, <1>4, <2>2, <2>3, SeenIsBehind
  <2>5. storage'.pending = storage.pending
    BY <2>2, <2>3
  <2>6. \A p \in storage'.pending : p.kind = "task" => p.id \in recorded' \ removed'
    BY <1>2, <2>1, <2>5, TurnRemembers DEF IInv, OutboxRecorded
  <2>7. /\ removed' \subseteq removed \cup IdsOf(storage.entries)
        /\ \A id \in shared' : id \in shared
    BY <1>2, <1>5
  <2> QED BY <1>4, <2>1, <2>4, <2>6, <2>7, TurnRemembers, StepKeeps
<1> QED BY <1>3, <1>5


-----------------------------------------------------------------------------
(* The invariant and what follows from it.                                 *)

LEMMA InitHolds == Init => IInv
PROOF
<1> SUFFICES ASSUME Init PROVE IInv
  OBVIOUS
<1> DEFINE st == Repo!DefaultState
<1>1. /\ st \in Storage /\ st.entries = {} /\ st.history = {} /\ st.pending = {}
      /\ st.initialRing = 0
  BY LastRingAssumption DEF Repo!DefaultState, Repo!Consents, Storage
<1>2. storage = st /\ view = Seen(st)
  BY DEF Init
<1> HIDE DEF st
<1>3. Sound(st, 1)
  BY <1>1, FS_EmptySet, LastRingAssumption, BrokenTurnsAssumption DEF Sound
<1>4. Behind(st, Seen(st), 1)
  BY <1>3, SeenIsBehind
<1>5. OutboxRecorded /\ CyclesReported
  BY <1>1, <1>2 DEF Init, OutboxRecorded, CyclesReported
<1> QED BY <1>2, <1>3, <1>4, <1>5 DEF Init, IInv

LEMMA NextKeeps == IInv /\ [Next]_vars => IInv'
PROOF
<1> SUFFICES ASSUME IInv, [Next]_vars PROVE IInv'
  OBVIOUS
<1>1. CASE Next
  <2>1. ASSUME NEW k \in 0..2, NEW result \in Results, AddEntry(result, k) PROVE IInv'
    BY <2>1, AddEntryKeeps
  <2>2. ASSUME NEW k \in 0..2, UndoLastEntry(k) PROVE IInv'
    BY <2>2, UndoLastEntryKeeps
  <2>3. ASSUME NEW k \in 0..2, NEW id \in IdsOf(view.entries), DeleteEntry(id, k)
        PROVE  IInv'
    BY <2>3, DeleteEntryKeeps
  <2>4. ASSUME NEW k \in 0..2, ResetCycle(k) PROVE IInv'
    BY <2>4, ResetCycleKeeps
  <2>5. ASSUME NEW k \in 0..2, CompleteCycle(k) PROVE IInv'
    BY <2>5, CompleteCycleKeeps
  <2>6. ASSUME NEW k \in 0..2, NEW ring \in RingInputs, UpdateCycleSetup(ring, k)
        PROVE  IInv'
    BY <2>6, UpdateCycleSetupKeeps
  <2>7. ASSUME NEW k \in 0..2, NEW value \in {"share", "local"}, ChooseConsent(value, k)
        PROVE  IInv'
    BY <2>7, ChooseConsentKeeps
  <2>8. ASSUME NEW k \in 0..2, NEW id \in IdsOf(storage.history), DeleteHistory(id, k)
        PROVE  IInv'
    BY <2>8, DeleteHistoryKeeps
  <2>9. ASSUME NEW event \in storage.pending, Sent(event) PROVE IInv'
    BY <2>9, SentKeeps
  <2>10. CASE Open
    BY <2>10, OpenKeeps
  <2> QED BY <1>1, <2>1, <2>2, <2>3, <2>4, <2>5, <2>6, <2>7, <2>8, <2>9, <2>10 DEF Next
<1>2. CASE UNCHANGED vars
  BY <1>2 DEF vars, histories, IInv, Sound, Behind, OutboxRecorded, CyclesReported
<1> QED BY <1>1, <1>2

LEMMA InvariantHolds == Spec => []IInv
PROOF
<1> QED BY InitHolds, NextKeeps, PTL DEF Spec

\* The state keeps its type: no sequence of broken turns numbers a ring beyond
\* the cycle (app.mjs:349, 359; storage.mjs:63).
THEOREM Typed == Spec => []TypeOK
PROOF
<1>1. IInv => TypeOK
  BY DEF IInv, Sound, Behind, TypeOK
<1> QED BY <1>1, InvariantHolds, PTL

\* A sample of the outbox is of a ring that was stored and not taken back
\* (app.mjs:360-363; storage.mjs:55, 64, 75).
THEOREM OutboxStaysRecorded == Spec => []OutboxRecorded
PROOF
<1>1. IInv => OutboxRecorded
  BY DEF IInv
<1> QED BY <1>1, InvariantHolds, PTL

\* No waiting deletion names a ring that is still shown
\* (app.mjs:400-401, 408-410, 416-417).
THEOREM DeletionsStayFinal == Spec => []DeletionsFinal
PROOF
<1>1. IInv => DeletionsFinal
  BY DEF IInv, Sound, DeletionsFinal, KeptIds, IdsOf
<1> QED BY <1>1, InvariantHolds, PTL

\* A cycle completed with consent has its reward queued (app.mjs:439-440).
THEOREM CyclesStayReported == Spec => []CyclesReported
PROOF
<1>1. IInv => CyclesReported
  BY DEF IInv
<1> QED BY <1>1, InvariantHolds, PTL

\* The stored cycle stays within its length although the guards look at what
\* an earlier turn left in `state` (app.mjs:349, 391).
THEOREM RingsStayWithinCycle == Spec => []RingsWithinCycle
PROOF
<1>1. IInv => RingsWithinCycle
  BY DEF IInv, Sound, RingsWithinCycle
<1> QED BY <1>1, InvariantHolds, PTL

\* The history keeps to its limit (storage.mjs:91).
THEOREM HistoryStaysBounded == Spec => []HistoryBounded
PROOF
<1>1. IInv => HistoryBounded
  BY DEF IInv, Sound, HistoryBounded
<1> QED BY <1>1, InvariantHolds, PTL
=============================================================================
