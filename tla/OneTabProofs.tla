---------------------------- MODULE OneTabProofs ----------------------------
(***************************************************************************)
(* What a single tab guarantees, for any number of activations, rings and  *)
(* cycles: its `state` is what localStorage holds, a cycle never has too   *)
(* many rings, and a ring that was taken back leaves nothing on the server *)
(* but what its deletion overtook.  With two tabs most of this fails.      *)
(***************************************************************************)
EXTENDS LifecycleProofs

OneTab == \A t, u \in Tabs : t = u

\* The tab's `state` is what is stored.
Fresh == \A t \in Tabs : view[t] = Seen(storage)

\* Rings have identifiers of their own, drawn before; none is a deletion's.
EntriesOwn ==
  /\ \A x, y \in storage.entries : x.id = y.id => x = y
  /\ \A x \in storage.entries : x.id < nextId
  /\ \A x \in storage.entries, p \in storage.pending :
       p.kind = "task_delete" => p.id # x.id

RetractedBefore == \A id \in retracted : id < nextId

\* The sample of a ring that was taken back is not in the outbox.
SamplesDropped ==
  \A p \in storage.pending : p.kind = "task" => p.id \notin retracted

\* A deletion names at least one ring, and no more than a cycle has.
DeletionsFit ==
  \A e \in Request : Underway(e) /\ e.kind = "task_delete" =>
    Cardinality(e.eventIds) \in 1..LastRing

CInv ==
  /\ RInv
  /\ Fresh
  /\ RingsWithinCycle
  /\ EntriesOwn
  /\ RetractedBefore
  /\ SamplesDropped
  /\ DeletionsFit

\* What a turn of the only tab makes of the stored state.
Alone ==
  /\ RingsWithinCycle'
  /\ EntriesOwn'
  /\ RetractedBefore'
  /\ SamplesDropped'
  /\ \A p \in storage'.pending \ storage.pending : p.kind = "task_delete" =>
       Cardinality(p.eventIds) \in 1..LastRing
  /\ \A p \in storage.pending : p.kind = "task_delete" => p \in storage'.pending
  /\ \A id \in retracted' \ retracted : AwaitsDeletion(id)'
  /\ NumberedInOrder(storage) /\ storage'.initialRing = storage.initialRing
       => NumberedInOrder(storage')
  /\ \A h \in storage'.history \ storage.history : Used(storage) >= LastRing
  /\ \A p \in storage'.pending \ storage.pending :
       p.kind = "reward" => Used(storage) >= LastRing
  /\ storage'.consent = storage.consent \/ UNCHANGED syncVars

\* The server has no row of the ring, and no request that would make one is
\* on its way; or the deletion came while one was.
Gone(id)     == id \notin IdsOf(tasks) /\ ~Outstanding(id)
Finished(id) == id \in overtaken \/ Gone(id)

\* A deletion is in the outbox until it is done.
DeletionsPending == \A id \in retracted : AwaitsDeletion(id) \/ Finished(id)

\* An answer for which a deletion leaves the outbox is given when it is done.
DeletionsAnswered ==
  \A f \in Flushes :
    wire[f].phase = "answer" /\ ~IsSample(wire[f].event) /\ Settles(wire[f].status) =>
      \A id \in wire[f].event.eventIds : Finished(id)

DInv == CInv /\ DeletionsPending /\ DeletionsAnswered

\* The server takes a whole cycle in one deletion; both are 100 in the code.
CycleFitsBatch == LastRing <= DeleteBatchLimit

-----------------------------------------------------------------------------
(* Rings and their numbers.                                                *)

\* Rings with identifiers of their own are no more than those of a set with
\* all their identifiers.
LEMMA FewerRings ==
  ASSUME NEW S, NEW T, IsFiniteSet(S), IsFiniteSet(T),
         \A x, y \in S : x.id = y.id => x = y,
         IdsOf(S) \subseteq IdsOf(T)
  PROVE  Cardinality(S) <= Cardinality(T)
PROOF
<1> DEFINE f == [x \in S |-> CHOOSE y \in T : y.id = x.id]
<1>1. ASSUME NEW x \in S PROVE f[x] \in T /\ f[x].id = x.id
  <2>1. \E y \in T : y.id = x.id
    BY DEF IdsOf
  <2> QED BY <2>1
<1>2. f \in Injection(S, T)
  <2>1. f \in [S -> T]
    BY <1>1
  <2>2. \A x, y \in S : f[x] = f[y] => x = y
    BY <1>1
  <2> HIDE DEF f
  <2> QED BY <2>1, <2>2 DEF Injection, IsInjective
<1> QED BY <1>2, FS_Injection

\* The identifiers of a finite set of rings are finitely many, no more than
\* the rings.
LEMMA IdsCounted ==
  ASSUME NEW S, IsFiniteSet(S)
  PROVE  IsFiniteSet(IdsOf(S)) /\ Cardinality(IdsOf(S)) <= Cardinality(S)
PROOF
<1> DEFINE map == [x \in S |-> x.id]
<1>1. map \in Surjection(S, IdsOf(S))
  BY DEF Surjection, IdsOf
<1> QED BY <1>1, FS_Surjection

\* Numbering again keeps the rings, their identifiers and their order.
LEMMA RenumberedInOrder ==
  ASSUME NEW entries \in SUBSET Entry, IsFiniteSet(entries),
         NEW ring \in RingsBefore,
         \A x, y \in entries : x.id = y.id => x = y
  PROVE  LET new == Repo!Renumbered(entries, ring) IN
         /\ \A z \in new : z.id \in IdsOf(entries)
         /\ \A x, y \in new : x.id = y.id => x = y
         /\ Cardinality(new) <= Cardinality(entries)
         /\ \A z \in new :
              z.ringNumber = ring + Cardinality({w \in new : w.id <= z.id})
PROOF
<1> DEFINE upTo(x) == {y \in entries : y.id <= x.id}
           again(x) == [x EXCEPT !.ringNumber = ring + Cardinality(upTo(x))]
           new == {again(x) : x \in entries}
<1>1. Repo!Renumbered(entries, ring) = new
  <2>1. \A x \in entries :
          again(x) = [x EXCEPT !.ringNumber =
                      ring + Repo!Cardinality({y \in entries : y.id <= x.id})]
    BY RepoCardinality
  <2> DEFINE theirs(x) == [x EXCEPT !.ringNumber =
                             ring + Repo!Cardinality({y \in entries : y.id <= x.id})]
  <2>2. Repo!Renumbered(entries, ring) = {theirs(x) : x \in entries}
    BY Zenon DEF Repo!Renumbered
  <2>3. \A x \in entries : again(x) = theirs(x)
    BY <2>1
  <2> HIDE DEF again, theirs
  <2> QED BY <2>2, <2>3
<1>2. new \in SUBSET Entry /\ IsFiniteSet(new)
  BY <1>1, RenumberedTyped
<1>3. ASSUME NEW x \in entries
      PROVE  again(x).id = x.id /\ again(x).ringNumber = ring + Cardinality(upTo(x))
  BY DEF Entry
<1> HIDE DEF again, upTo
<1>4. IdsOf(new) = IdsOf(entries)
  BY <1>3 DEF IdsOf
<1>5. \A x, y \in new : x.id = y.id => x = y
  BY <1>3
<1>6. Cardinality(new) <= Cardinality(entries)
  BY <1>2, <1>4, <1>5, FewerRings
<1>7. ASSUME NEW z \in new
      PROVE  z.ringNumber = ring + Cardinality({w \in new : w.id <= z.id})
  <2> DEFINE before == {w \in new : w.id <= z.id}
  <2>1. PICK x \in entries : z = again(x)
    BY DEF new
  <2>2. IsFiniteSet(before) /\ IsFiniteSet(upTo(x))
    BY <1>2, FS_Subset DEF upTo
  <2>3. IdsOf(before) = IdsOf(upTo(x))
    <3>1. z.id = x.id
      BY <1>3, <2>1
    <3>2. ASSUME NEW w \in before PROVE w.id \in IdsOf(upTo(x))
      <4>1. PICK y \in entries : w = again(y)
        OBVIOUS
      <4>2. w.id = y.id /\ y \in upTo(x)
        BY <1>3, <3>1, <4>1 DEF upTo
      <4> QED BY <4>2 DEF IdsOf
    <3>3. ASSUME NEW y \in upTo(x) PROVE y.id \in IdsOf(before)
      <4>1. y \in entries /\ y.id <= x.id
        BY DEF upTo
      <4>2. again(y) \in before /\ again(y).id = y.id
        BY <1>3, <3>1, <4>1
      <4> QED BY <4>2 DEF IdsOf
    <3> HIDE DEF before
    <3> QED BY <3>2, <3>3 DEF IdsOf
  <2>4. /\ \A v, w \in before : v.id = w.id => v = w
        /\ \A v, w \in upTo(x) : v.id = w.id => v = w
    BY <1>5 DEF upTo
  <2>5. /\ Cardinality(before) <= Cardinality(upTo(x))
        /\ Cardinality(upTo(x)) <= Cardinality(before)
    <3> HIDE DEF before
    <3> QED BY <2>2, <2>3, <2>4, FewerRings
  <2>6. Cardinality(before) \in Nat /\ Cardinality(upTo(x)) \in Nat
    BY <2>2, FS_CardinalityType
  <2>7. Cardinality(before) = Cardinality(upTo(x))
    <3> HIDE DEF before
    <3> QED BY <2>5, <2>6
  <2> QED BY <1>3, <2>1, <2>7
<1> HIDE DEF new
<1> QED BY <1>1, <1>4, <1>5, <1>6, <1>7 DEF IdsOf

-----------------------------------------------------------------------------
(* The turns of the only tab.                                              *)

\* The facts of a state that every turn starts from.
LEMMA CStart ==
  ASSUME CInv
  PROVE  /\ IInv /\ TypeOK
         /\ storage \in Storage /\ IsFiniteSet(storage.entries)
         /\ storage.entries \in SUBSET Entry /\ storage.initialRing \in RingsBefore
         /\ \A t \in Tabs : view[t] = Seen(storage)
         /\ nextId \in Nat
         /\ \A id \in retracted : id \in Nat /\ id < nextId
         /\ \A p \in storage.pending : p \in Request /\ p.id \in Nat /\ p.id < nextId
         /\ \A p \in storage.pending : p.kind = "task_delete" => p.eventIds \subseteq retracted
         /\ \A x \in storage.entries : x.id \in Nat /\ x.id < nextId
         /\ Cardinality(storage.entries) \in Nat
PROOF
<1>1. /\ IInv /\ TypeOK
      /\ storage \in Storage /\ IsFiniteSet(storage.entries)
      /\ nextId \in Nat /\ retracted \subseteq Nat
  BY DEF CInv, RInv, IInv, TypeOK, EntriesFinite
<1>2. \A p \in storage.pending : Sound(p)
  BY <1>1 DEF IInv, RequestsSound
<1>3. \A p \in storage.pending : p \in Request /\ p.id \in Nat /\ p.id < nextId
  BY <1>2 DEF Sound, Request
<1>4. \A p \in storage.pending : p.kind = "task_delete" => p.eventIds \subseteq retracted
  BY <1>2 DEF Sound
<1>5. storage.entries \in SUBSET Entry /\ storage.initialRing \in RingsBefore
  BY <1>1 DEF Storage
<1>6. \A x \in storage.entries : x.id \in Nat /\ x.id < nextId
  BY <1>5 DEF CInv, EntriesOwn, Entry
<1>7. Cardinality(storage.entries) \in Nat
  BY <1>1, FS_CardinalityType
<1> QED BY <1>1, <1>3, <1>4, <1>5, <1>6, <1>7 DEF CInv, Fresh, RetractedBefore

\* A turn that leaves the rings and the outbox as they are.
LEMMA KeepsRings ==
  ASSUME CInv, storage'.entries = storage.entries, storage'.pending = storage.pending,
         storage'.history \subseteq storage.history,
         Used(storage') <= LastRing,
         storage'.consent = storage.consent \/ UNCHANGED syncVars,
         UNCHANGED <<nextId, retracted>>
  PROVE  Alone
PROOF
<1>1. /\ RingsWithinCycle' /\ EntriesOwn' /\ RetractedBefore' /\ SamplesDropped'
  BY DEF CInv, RingsWithinCycle, EntriesOwn, RetractedBefore, SamplesDropped, Used
<1>2. NumberedInOrder(storage) /\ storage'.initialRing = storage.initialRing
        => NumberedInOrder(storage')
  BY DEF NumberedInOrder
<1> QED BY <1>1, <1>2 DEF Alone

LEMMA SettingsAlone ==
  ASSUME OneTab, CInv, NEW t \in Tabs,
         \/ OpenTab(t) \/ Refresh(t)
         \/ \E value \in {"share", "local"} : ChooseConsent(t, value)
         \/ \E ring \in RingInputs, score \in ScoreInputs : UpdateCycleSetup(t, ring, score)
         \/ \E id \in IdsOf(storage.history) : DeleteHistory(t, id)
  PROVE  Alone
PROOF
<1>1. /\ storage \in Storage /\ view[t] = Seen(storage)
      /\ Used(storage) <= LastRing
  BY CStart DEF CInv, RingsWithinCycle
<1>2. CASE OpenTab(t) \/ Refresh(t)
  <2>1. storage' = storage /\ UNCHANGED <<nextId, retracted>>
    BY <1>2 DEF OpenTab, Refresh, Refreshed, history
  <2> QED BY <1>1, <2>1, KeepsRings
<1>3. ASSUME NEW value, ChooseConsent(t, value) PROVE Alone
  <2>1. /\ storage' = [storage EXCEPT !.consent = value]
        /\ UNCHANGED syncVars /\ UNCHANGED <<nextId, retracted>>
    BY <1>3 DEF ChooseConsent, Refreshed, history, Repo!SetConsent
  <2>2. /\ storage'.entries = storage.entries /\ storage'.pending = storage.pending
        /\ storage'.history = storage.history /\ storage'.initialRing = storage.initialRing
    BY <1>1, <2>1 DEF Storage
  <2>3. Used(storage') = Used(storage)
    BY <2>2 DEF Used
  <2> QED BY <1>1, <2>1, <2>2, <2>3, KeepsRings
<1>4. ASSUME NEW ring \in RingInputs, NEW score \in ScoreInputs,
             UpdateCycleSetup(t, ring, score)
      PROVE  Alone
  <2> DEFINE r == Clamp(ring, 0, LastRing - 1)
             moved == [storage EXCEPT !.initialRing = r]
  <2>1. /\ storage' = [moved EXCEPT !.initialScore = score]
        /\ r + Cardinality(view[t].entries) <= LastRing
        /\ UNCHANGED <<nextId, retracted>>
    BY <1>4 DEF UpdateCycleSetup, Refreshed, history, Repo!UpdateCurrent
  <2> HIDE DEF r
  <2>2. /\ moved.initialRing = r /\ moved.entries = storage.entries
        /\ moved.pending = storage.pending /\ moved.history = storage.history
        /\ moved.consent = storage.consent
    BY <1>1 DEF Storage
  <2>3. DOMAIN moved = DOMAIN storage
    OBVIOUS
  <2> HIDE DEF moved
  <2>4. /\ storage'.initialRing = r /\ storage'.entries = storage.entries
        /\ storage'.pending = storage.pending /\ storage'.history = storage.history
        /\ storage'.consent = storage.consent
    BY <1>1, <2>1, <2>2, <2>3 DEF Storage
  <2>5. Used(storage') <= LastRing
    BY <1>1, <2>1, <2>4 DEF Used, Seen
  <2> QED BY <2>1, <2>4, <2>5, KeepsRings
<1>5. ASSUME NEW id \in IdsOf(storage.history), DeleteHistory(t, id) PROVE Alone
  <2>1. /\ storage' = [storage EXCEPT !.history = {h \in @ : h.id # id}]
        /\ UNCHANGED <<nextId, retracted>>
    BY <1>5 DEF DeleteHistory, Refreshed, history, Repo!DeleteHistory
  <2>2. /\ storage'.entries = storage.entries /\ storage'.pending = storage.pending
        /\ storage'.history \subseteq storage.history /\ storage'.consent = storage.consent
        /\ storage'.initialRing = storage.initialRing
    BY <1>1, <2>1 DEF Storage
  <2>3. Used(storage') = Used(storage)
    BY <2>2 DEF Used
  <2> QED BY <1>1, <2>1, <2>2, <2>3, KeepsRings
<1> QED BY <1>2, <1>3, <1>4, <1>5

\* QueueEvent, with an identifier just drawn, appends.
LEMMA QueueFresh ==
  ASSUME CInv, NEW st \in Storage, st.pending \subseteq storage.pending, NEW event,
         event.id = nextId
  PROVE  LET new == Repo!QueueEvent(st, event) IN
         /\ new.pending = st.pending \cup {event}
         /\ new.entries = st.entries /\ new.initialRing = st.initialRing
         /\ new.history = st.history /\ new.consent = st.consent
PROOF
<1>1. ~\E p \in st.pending : p.id = event.id
  BY CStart
<1> QED BY <1>1 DEF Repo!QueueEvent, Storage

LEMMA EmptyCycleFields ==
  ASSUME NEW st \in Storage
  PROVE  LET new == Repo!EmptyCycle(st) IN
         /\ new.initialRing = 0
         /\ new.history = st.history /\ new.consent = st.consent
PROOF BY DEF Repo!EmptyCycle, Storage

\* The ring that is added gets the number after the last one.
LEMMA AddEntryAlone ==
  ASSUME OneTab, CInv, NEW t \in Tabs, NEW result \in Results, AddEntry(t, result)
  PROVE  Alone
PROOF
<1> DEFINE entry == [id |-> nextId, ringNumber |-> Ring(view[t]) + 1, result |-> result]
           added == Repo!AddEntry(storage, entry)
           shared == added.consent = "share"
           request == TaskRequest(entry.id, entry.ringNumber, result)
           entries == storage.entries \cup {entry}
<1>1. /\ storage \in Storage /\ view[t] = Seen(storage)
      /\ IsFiniteSet(storage.entries) /\ nextId \in Nat
      /\ storage.initialRing \in Nat /\ LastRing \in Nat
      /\ Cardinality(storage.entries) \in Nat
      /\ \A x \in storage.entries : x.id \in Nat /\ x.id < nextId
      /\ \A p \in storage.pending : p.id \in Nat /\ p.id < nextId
      /\ \A id \in retracted : id \in Nat /\ id < nextId
  BY CStart, LastRingAssumption DEF RingsBefore
<1>2. /\ nextId' = nextId + 1 /\ retracted' = retracted
      /\ storage' = IF shared THEN Repo!QueueEvent(added, request) ELSE added
      /\ Ring(view[t]) < LastRing
  BY DEF AddEntry, Refreshed
<1>3. Used(storage) < LastRing /\ entry.ringNumber = Used(storage) + 1 /\ entry.id = nextId
  <2>1. Ring(view[t]) = IF Used(storage) < LastRing THEN Used(storage) ELSE LastRing
    BY <1>1 DEF Ring, Used, Seen
  <2> QED BY <1>1, <1>2, <2>1 DEF Used
<1>4. request.id = nextId /\ request.kind = "task"
  BY <1>3 DEF TaskRequest
<1> HIDE DEF entry, request
<1>5. /\ added.entries = entries /\ added.pending = storage.pending
      /\ added.initialRing = storage.initialRing /\ added.history = storage.history
      /\ added.consent = storage.consent
  BY <1>1 DEF Repo!AddEntry, Storage
<1>6. added \in [consent : Repo!Consents, initialRing : RingsBefore, initialScore : Int,
                 entries : {entries}, history : {storage.history},
                 pending : SUBSET Request]
  BY <1>1 DEF Repo!AddEntry, Storage
<1>7. /\ storage'.entries = entries /\ storage'.initialRing = storage.initialRing
      /\ storage'.history = storage.history /\ storage'.consent = storage.consent
      /\ storage.pending \subseteq storage'.pending
      /\ storage'.pending \subseteq storage.pending \cup {request}
  <2> HIDE DEF added
  <2>1. CASE shared
    <3>1. storage' = Repo!QueueEvent(added, request)
      BY <1>2, <2>1
    <3> QED BY <1>5, <1>6, <3>1 DEF Repo!QueueEvent
  <2>2. CASE ~shared
    BY <1>2, <1>5, <2>2
  <2> QED BY <2>1, <2>2
<1> HIDE DEF added, shared
<1>8. entry \notin storage.entries /\ IsFiniteSet(entries)
      /\ Cardinality(entries) = Cardinality(storage.entries) + 1
  <2>1. entry \notin storage.entries
    BY <1>1, <1>3
  <2> QED BY <1>1, <2>1, FS_AddElement
<1>9. RingsWithinCycle'
  BY <1>1, <1>3, <1>7, <1>8 DEF RingsWithinCycle, Used
<1>10. EntriesOwn'
  BY <1>1, <1>2, <1>3, <1>4, <1>7 DEF CInv, EntriesOwn
<1>11. RetractedBefore' /\ SamplesDropped'
  BY <1>1, <1>2, <1>4, <1>7 DEF CInv, RetractedBefore, SamplesDropped
<1>12. ASSUME NumberedInOrder(storage) PROVE NumberedInOrder(storage')
  <2>1. ASSUME NEW x \in storage.entries
        PROVE  x.ringNumber = storage.initialRing
                                + Cardinality({y \in entries : y.id <= x.id})
    <3>1. {y \in entries : y.id <= x.id} = {y \in storage.entries : y.id <= x.id}
      BY <1>1, <1>3
    <3> QED BY <1>12, <3>1 DEF NumberedInOrder
  <2>2. entry.ringNumber = storage.initialRing
                             + Cardinality({y \in entries : y.id <= entry.id})
    <3>1. {y \in entries : y.id <= entry.id} = entries
      BY <1>1, <1>3
    <3>2. entry.ringNumber = storage.initialRing + Cardinality(entries)
      BY <1>1, <1>3, <1>8 DEF Used
    <3> QED BY <3>1, <3>2
  <2> QED BY <1>7, <2>1, <2>2 DEF NumberedInOrder
<1> QED BY <1>2, <1>4, <1>7, <1>9, <1>10, <1>11, <1>12 DEF Alone

\* The rest of the turn of undo, delete and reset, when the identifiers are
\* those of rings the stored cycle has.
LEMMA TakeBackAlone ==
  ASSUME OneTab, CInv, NEW t \in Tabs, NEW st \in Storage, NEW eventIds \in SUBSET Nat,
         TakeBack(t, st, eventIds), retracted' = retracted \cup eventIds,
         eventIds \subseteq IdsOf(storage.entries),
         Used(st) <= LastRing,
         \A x, y \in st.entries : x.id = y.id => x = y,
         IdsOf(st.entries) \subseteq IdsOf(storage.entries),
         st.history = storage.history, st.consent = storage.consent,
         st.pending \subseteq storage.pending,
         \A p \in storage.pending : p.kind = "task_delete" => p \in st.pending,
         \A p \in st.pending : p.kind = "task" => p.id \notin eventIds,
         NumberedInOrder(storage) /\ st.initialRing = storage.initialRing
           => NumberedInOrder(st)
  PROVE  Alone
PROOF
<1> DEFINE request == DeleteRequest(nextId, eventIds)
<1>1. /\ IsFiniteSet(storage.entries) /\ nextId \in Nat
      /\ storage.initialRing \in Nat /\ LastRing \in Nat
      /\ Cardinality(storage.entries) \in Nat
      /\ storage.initialRing + Cardinality(storage.entries) <= LastRing
      /\ \A x \in storage.entries : x.id \in Nat /\ x.id < nextId
      /\ \A p \in storage.pending : p.id \in Nat /\ p.id < nextId
      /\ \A id \in retracted : id \in Nat /\ id < nextId
  BY CStart, LastRingAssumption DEF RingsBefore, CInv, RingsWithinCycle, Used
<1>2. \A id \in IdsOf(storage.entries) : id \in Nat /\ id < nextId
  BY <1>1 DEF IdsOf
<1>3. /\ nextId' = IF eventIds = {} THEN nextId ELSE nextId + 1
      /\ storage' = QueueTaskDeletion(st, eventIds)
  BY DEF TakeBack, Refreshed
<1>4. request.id = nextId /\ request.kind = "task_delete" /\ request.eventIds = eventIds
  BY DEF DeleteRequest
<1> HIDE DEF request
<1>5. /\ storage'.entries = st.entries /\ storage'.initialRing = st.initialRing
      /\ storage'.history = storage.history /\ storage'.consent = storage.consent
      /\ eventIds = {} => storage'.pending = st.pending
      /\ eventIds # {} => storage'.pending = st.pending \cup {request}
  <2>1. CASE eventIds = {}
    BY <1>3, <2>1 DEF QueueTaskDeletion
  <2>2. CASE eventIds # {}
    <3>1. storage' = Repo!QueueEvent(st, request)
      BY <1>3, <2>2 DEF QueueTaskDeletion, request
    <3> QED BY <1>4, <2>2, <3>1, QueueFresh
  <2> QED BY <2>1, <2>2
<1>6. nextId' \in Nat /\ nextId' >= nextId /\ (eventIds # {} => nextId' = nextId + 1)
  <2>1. nextId \in Nat
    BY <1>1
  <2>2. CASE eventIds = {}
    BY <1>3, <2>1, <2>2
  <2>3. CASE eventIds # {}
    <3>1. nextId' = nextId + 1
      BY <1>3, <2>3
    <3> QED BY <2>1, <3>1
  <2> QED BY <2>2, <2>3
<1>7. eventIds # {} => Cardinality(eventIds) \in 1..LastRing
  <2>1. /\ IsFiniteSet(eventIds)
        /\ Cardinality(eventIds) <= Cardinality(IdsOf(storage.entries))
        /\ Cardinality(IdsOf(storage.entries)) <= Cardinality(storage.entries)
    BY <1>1, IdsCounted, FS_Subset
  <2>2. Cardinality(eventIds) \in Nat /\ Cardinality(IdsOf(storage.entries)) \in Nat
    BY <1>1, <2>1, IdsCounted, FS_CardinalityType
  <2>3. eventIds # {} => Cardinality(eventIds) # 0
    BY <2>1, FS_EmptySet
  <2> QED BY <1>1, <2>1, <2>2, <2>3
<1>8. RingsWithinCycle'
  BY <1>5 DEF RingsWithinCycle, Used
<1>9. EntriesOwn'
  <2>1. \A x \in st.entries : x.id \in IdsOf(storage.entries) /\ x.id \in Nat /\ x.id < nextId
    BY <1>2 DEF IdsOf
  <2>2. \A id \in IdsOf(storage.entries), p \in storage.pending :
          p.kind = "task_delete" => p.id # id
    BY DEF CInv, EntriesOwn, IdsOf
  <2>3. ASSUME NEW x \in st.entries, NEW p \in storage'.pending, p.kind = "task_delete"
        PROVE  p.id # x.id
    <3>1. CASE p \in storage.pending
      BY <2>1, <2>2, <2>3, <3>1
    <3>2. CASE p = request
      BY <1>1, <1>4, <2>1, <3>2
    <3> QED BY <1>5, <2>3, <3>1, <3>2
  <2>4. \A x \in st.entries : x.id < nextId'
    BY <1>1, <1>6, <2>1
  <2> QED BY <1>5, <2>3, <2>4 DEF EntriesOwn
<1>10. RetractedBefore'
  <2>1. ASSUME NEW id \in eventIds PROVE id < nextId'
    <3>1. eventIds # {} /\ nextId' = nextId + 1
      BY <1>6
    <3> QED BY <1>1, <1>2, <3>1
  <2>2. ASSUME NEW id \in retracted PROVE id < nextId'
    <3>1. id \in Nat /\ id < nextId
      BY <1>1
    <3> QED BY <1>1, <1>6, <3>1
  <2> QED BY <2>1, <2>2 DEF RetractedBefore
<1>11. SamplesDropped'
  <2>1. ASSUME NEW p \in storage'.pending, p.kind = "task" PROVE p.id \notin retracted'
    <3>1. p \in st.pending /\ p \in storage.pending
      BY <1>4, <1>5, <2>1
    <3> QED BY <2>1, <3>1 DEF CInv, SamplesDropped
  <2> QED BY <2>1 DEF SamplesDropped
<1>12. \A id \in retracted' \ retracted : AwaitsDeletion(id)'
  <2>1. ASSUME NEW id \in eventIds PROVE AwaitsDeletion(id)'
    <3>1. request \in storage'.pending
      BY <1>5
    <3> QED BY <1>4, <3>1 DEF AwaitsDeletion
  <2> QED BY <2>1
<1>13. /\ \A p \in storage'.pending \ storage.pending :
            p.kind = "task_delete" /\ Cardinality(p.eventIds) \in 1..LastRing
       /\ \A p \in storage.pending : p.kind = "task_delete" => p \in storage'.pending
  BY <1>4, <1>5, <1>7
<1>14. NumberedInOrder(storage) /\ storage'.initialRing = storage.initialRing
         => NumberedInOrder(storage')
  BY <1>5 DEF NumberedInOrder
<1> QED BY <1>5, <1>8, <1>9, <1>10, <1>11, <1>12, <1>13, <1>14 DEF Alone

LEMMA UndoAlone ==
  ASSUME OneTab, CInv, NEW t \in Tabs, UndoLastEntry(t)
  PROVE  Alone
PROOF
<1>1. /\ storage \in Storage /\ IsFiniteSet(storage.entries)
      /\ storage.entries \in SUBSET Entry /\ storage.initialRing \in RingsBefore
      /\ \A x, y \in storage.entries : x.id = y.id => x = y
      /\ \A x \in storage.entries, p \in storage.pending :
           p.kind = "task_delete" => p.id # x.id
      /\ Used(storage) <= LastRing
      /\ storage.initialRing \in Nat /\ LastRing \in Nat
  BY CStart, LastRingAssumption DEF CInv, EntriesOwn, RingsWithinCycle, RingsBefore
<1>2. ASSUME NEW removed \in storage.entries, IsLast(removed, storage.entries),
             TakeBack(t, Repo!UndoEntry(storage, removed), {removed.id}),
             retracted' = retracted \cup {removed.id}
      PROVE  Alone
  <2> DEFINE less == [storage EXCEPT !.entries = @ \ {removed}]
             st == Repo!UndoEntry(storage, removed)
             kept == storage.entries \ {removed}
  <2>1. /\ less \in Storage /\ less.entries = kept /\ less.pending = storage.pending
        /\ less.initialRing = storage.initialRing /\ less.history = storage.history
        /\ less.consent = storage.consent
    BY <1>1 DEF Storage
  <2>2. st = [less EXCEPT !.pending = Repo!Without(@, {removed.id})]
    BY <1>1 DEF Repo!UndoEntry, Storage
  <2> HIDE DEF less
  <2>3. /\ st \in Storage /\ st.entries = kept /\ st.initialRing = storage.initialRing
        /\ st.pending = {p \in storage.pending : p.id \notin {removed.id}}
        /\ st.history = storage.history /\ st.consent = storage.consent
    <3> HIDE DEF st
    <3> QED BY <2>1, <2>2 DEF Storage, Repo!Without
  <2>4. TakeBack(t, st, {removed.id})
    BY <1>2
  <2> HIDE DEF st
  <2>5. removed.id \in Nat /\ removed.id \in IdsOf(storage.entries)
    BY <1>1 DEF Entry, IdsOf
  <2>6. Used(st) <= LastRing
    <3>1. Cardinality(kept) <= Cardinality(storage.entries)
      BY <1>1, FS_Subset
    <3>2. Cardinality(kept) \in Nat /\ Cardinality(storage.entries) \in Nat
      BY <1>1, FS_Subset, FS_CardinalityType
    <3> HIDE DEF kept
    <3> QED BY <1>1, <2>3, <3>1, <3>2 DEF Used
  <2>7. ASSUME NumberedInOrder(storage) PROVE NumberedInOrder(st)
    <3>1. ASSUME NEW x \in kept
          PROVE  {y \in kept : y.id <= x.id} = {y \in storage.entries : y.id <= x.id}
      <4>1. x.id \in Nat /\ removed.id \in Nat /\ x.id # removed.id /\ x.id <= removed.id
        BY <1>1, <1>2, <2>5 DEF Entry, IsLast
      <4> QED BY <4>1
    <3>2. ASSUME NEW x \in kept
          PROVE  x.ringNumber = storage.initialRing + Cardinality({y \in kept : y.id <= x.id})
      BY <2>7, <3>1 DEF NumberedInOrder
    <3> QED BY <2>3, <3>2 DEF NumberedInOrder
  <2>8. /\ \A x, y \in st.entries : x.id = y.id => x = y
        /\ IdsOf(st.entries) \subseteq IdsOf(storage.entries)
    BY <1>1, <2>3 DEF IdsOf
  <2>9. /\ st.pending \subseteq storage.pending
        /\ \A p \in storage.pending : p.kind = "task_delete" => p \in st.pending
        /\ \A p \in st.pending : p.kind = "task" => p.id \notin {removed.id}
    BY <1>1, <2>3
  <2> QED BY <1>2, <2>3, <2>4, <2>5, <2>6, <2>7, <2>8, <2>9, TakeBackAlone
<1>3. CASE Refresh(t)
  BY <1>3, SettingsAlone
<1> QED BY <1>2, <1>3 DEF UndoLastEntry

LEMMA DeleteAlone ==
  ASSUME OneTab, CInv, NEW t \in Tabs, NEW id \in IdsOf(view[t].entries),
         DeleteEntry(t, id)
  PROVE  Alone
PROOF
<1> DEFINE st == Repo!DeleteEntry(storage, id)
           kept == {x \in storage.entries : x.id # id}
           new == Repo!Renumbered(kept, storage.initialRing)
           less == [storage EXCEPT !.entries = new]
<1>1. /\ storage \in Storage /\ IsFiniteSet(storage.entries)
      /\ storage.entries \in SUBSET Entry /\ storage.initialRing \in RingsBefore
      /\ \A x, y \in storage.entries : x.id = y.id => x = y
      /\ \A x \in storage.entries, p \in storage.pending :
           p.kind = "task_delete" => p.id # x.id
      /\ Used(storage) <= LastRing
      /\ storage.initialRing \in Nat /\ LastRing \in Nat
      /\ view[t] = Seen(storage)
  BY CStart, LastRingAssumption DEF CInv, EntriesOwn, RingsWithinCycle, RingsBefore
<1>2. id \in IdsOf(storage.entries) /\ id \in Nat
  <2>1. id \in IdsOf(storage.entries)
    BY <1>1 DEF Seen
  <2> QED BY <1>1, <2>1 DEF IdsOf, Entry
<1>3. TakeBack(t, st, {id}) /\ retracted' = retracted \cup {id}
  BY DEF DeleteEntry
<1>4. kept \in SUBSET Entry /\ IsFiniteSet(kept) /\ IdsOf(kept) \subseteq IdsOf(storage.entries)
      /\ \A x, y \in kept : x.id = y.id => x = y
  BY <1>1, FS_Subset DEF IdsOf
<1>5. st = [storage EXCEPT !.entries = new, !.pending = Repo!Without(@, {id})]
  BY DEF Repo!DeleteEntry
<1>6. Cardinality(kept) <= Cardinality(storage.entries)
  BY <1>1, FS_Subset
<1> HIDE DEF kept
<1>7. new \in SUBSET Entry /\ IsFiniteSet(new)
  BY <1>1, <1>4, RenumberedTyped
<1>8. /\ \A z \in new : z.id \in IdsOf(kept)
      /\ \A x, y \in new : x.id = y.id => x = y
      /\ Cardinality(new) <= Cardinality(kept)
      /\ \A z \in new :
           z.ringNumber = storage.initialRing + Cardinality({w \in new : w.id <= z.id})
  BY <1>1, <1>4, RenumberedInOrder
<1> HIDE DEF new
<1>9. /\ less \in Storage /\ less.entries = new /\ less.pending = storage.pending
      /\ less.initialRing = storage.initialRing /\ less.history = storage.history
      /\ less.consent = storage.consent
  BY <1>1, <1>7 DEF Storage
<1>10. st = [less EXCEPT !.pending = Repo!Without(@, {id})]
  BY <1>1, <1>5 DEF Storage
<1> HIDE DEF less, st
<1>11. /\ st \in Storage /\ st.entries = new /\ st.initialRing = storage.initialRing
       /\ st.pending = {p \in storage.pending : p.id \notin {id}}
       /\ st.history = storage.history /\ st.consent = storage.consent
  BY <1>9, <1>10 DEF Storage, Repo!Without
<1>12. Used(st) <= LastRing
  <2>1. /\ Cardinality(new) \in Nat /\ Cardinality(kept) \in Nat
        /\ Cardinality(storage.entries) \in Nat
    BY <1>1, <1>4, <1>7, FS_CardinalityType
  <2> QED BY <1>1, <1>6, <1>8, <1>11, <2>1 DEF Used
<1>13. NumberedInOrder(st)
  BY <1>8, <1>11 DEF NumberedInOrder
<1>14. /\ \A x, y \in st.entries : x.id = y.id => x = y
       /\ IdsOf(st.entries) \subseteq IdsOf(storage.entries)
  <2>1. \A z \in new : z.id \in IdsOf(storage.entries)
    BY <1>4, <1>8
  <2>2. IdsOf(st.entries) \subseteq IdsOf(storage.entries)
    BY <1>11, <2>1, Zenon DEF IdsOf
  <2> QED BY <1>8, <1>11, <2>2
<1>15. /\ st.pending \subseteq storage.pending
       /\ \A p \in storage.pending : p.kind = "task_delete" => p \in st.pending
       /\ \A p \in st.pending : p.kind = "task" => p.id \notin {id}
  <2>1. \A p \in storage.pending : p.kind = "task_delete" => p.id # id
    BY <1>1, <1>2 DEF IdsOf
  <2> QED BY <1>11, <2>1
<1> QED BY <1>2, <1>3, <1>11, <1>12, <1>13, <1>14, <1>15, TakeBackAlone

LEMMA ResetAlone ==
  ASSUME OneTab, CInv, NEW t \in Tabs, ResetCycle(t)
  PROVE  Alone
PROOF
<1> DEFINE st == Repo!ResetCurrent(storage)
           dropped == IdsOf(storage.entries)
           less == [storage EXCEPT !.pending =
                      {p \in @ : p.kind # "task" \/ p.id \notin dropped}]
           empty == Repo!EmptyCycle(less)
<1>1. /\ storage \in Storage /\ storage.entries \in SUBSET Entry
      /\ view[t] = Seen(storage) /\ LastRing \in Nat
  BY CStart, LastRingAssumption
<1>2. TakeBack(t, st, dropped) /\ retracted' = retracted \cup dropped
  BY <1>1 DEF ResetCycle, Seen
<1>3. dropped \in SUBSET Nat
  BY <1>1 DEF IdsOf, Entry
<1>4. st = empty
  BY DEF Repo!ResetCurrent, Repo!IdsOf, IdsOf
<1> HIDE DEF dropped, st
<1>5. /\ less \in Storage /\ less.history = storage.history /\ less.consent = storage.consent
      /\ less.pending = {p \in storage.pending : p.kind # "task" \/ p.id \notin dropped}
  BY <1>1 DEF Storage
<1> HIDE DEF less
<1>6. /\ empty \in Storage /\ empty.entries = {} /\ empty.pending = less.pending
      /\ empty.initialRing = 0 /\ empty.history = less.history
      /\ empty.consent = less.consent
  BY <1>5, EmptyCycleTyped, EmptyCycleFields
<1> HIDE DEF empty
<1>7. Used(st) <= LastRing
  BY <1>1, <1>4, <1>6, FS_EmptySet DEF Used
<1>8. NumberedInOrder(st) /\ IdsOf(st.entries) = {}
  BY <1>4, <1>6 DEF NumberedInOrder, IdsOf
<1>9. /\ st.pending \subseteq storage.pending
      /\ \A p \in storage.pending : p.kind = "task_delete" => p \in st.pending
      /\ \A p \in st.pending : p.kind = "task" => p.id \notin dropped
  BY <1>4, <1>5, <1>6
<1>10. st \in Storage /\ st.history = storage.history /\ st.consent = storage.consent
       /\ st.entries = {} /\ dropped \subseteq IdsOf(storage.entries)
  BY <1>4, <1>5, <1>6 DEF dropped
<1> QED BY <1>2, <1>3, <1>7, <1>8, <1>9, <1>10, TakeBackAlone

\* A cycle that is completed has all its rings; the next one begins empty.
LEMMA CompleteAlone ==
  ASSUME OneTab, CInv, NEW t \in Tabs, CompleteCycle(t)
  PROVE  Alone
PROOF
<1> DEFINE shared == view[t].consent = "share"
           request == RewardRequest(nextId, Repo!TotalScore(view[t]))
           queued == IF shared THEN Repo!QueueEvent(storage, request) ELSE storage
           cycle == [id |-> nextId + 1, entries |-> queued.entries]
           filed == [queued EXCEPT !.history = Repo!Newest(@ \cup {cycle})]
           empty == Repo!EmptyCycle(filed)
<1>1. /\ storage \in Storage /\ view[t] = Seen(storage)
      /\ nextId \in Nat /\ LastRing \in Nat
      /\ storage.initialRing \in Nat /\ Cardinality(storage.entries) \in Nat
      /\ \A id \in retracted : id \in Nat /\ id < nextId
  BY CStart, LastRingAssumption DEF RingsBefore
<1>2. /\ storage' = empty /\ nextId' = nextId + 2 /\ retracted' = retracted
      /\ Ring(view[t]) >= LastRing
  BY DEF CompleteCycle, Refreshed, Repo!CompleteCycle
<1>3. Used(storage) >= LastRing
  <2>1. Used(view[t]) = Used(storage)
    BY <1>1 DEF Used, Seen
  <2>2. Used(storage) \in Nat
    BY <1>1 DEF Used
  <2> QED BY <1>1, <1>2, <2>1, <2>2 DEF Ring
<1>4. request.id = nextId /\ request.kind = "reward" /\ request \in Request
  <2> DEFINE inRange == Repo!TotalScore(view[t]) \in -1000..2000
  <2>1. inRange \in BOOLEAN
    OBVIOUS
  <2>2. request = [kind |-> "reward", id |-> nextId, inRange |-> inRange]
    BY DEF RewardRequest
  <2> HIDE DEF inRange, request
  <2> QED BY <1>1, <2>1, <2>2 DEF Request
<1> HIDE DEF request
<1>5. /\ queued \in Storage /\ queued.history = storage.history
      /\ queued.consent = storage.consent
      /\ storage.pending \subseteq queued.pending
      /\ queued.pending \subseteq storage.pending \cup {request}
  <2>1. CASE shared
    BY <1>1, <1>4, <2>1, QueueEventTyped, QueueFresh
  <2>2. CASE ~shared
    BY <1>1, <2>2
  <2> QED BY <2>1, <2>2
<1> HIDE DEF queued, shared
<1>6. cycle \in [id : Nat, entries : SUBSET Entry]
  BY <1>1, <1>5 DEF Storage
<1> HIDE DEF cycle
<1>7. filed \in Storage /\ filed.pending = queued.pending /\ filed.consent = queued.consent
  BY <1>5, <1>6 DEF Storage, Repo!Newest
<1> HIDE DEF filed
<1>8. /\ storage'.entries = {} /\ storage'.pending = queued.pending
      /\ storage'.initialRing = 0 /\ storage'.consent = storage.consent
  BY <1>2, <1>5, <1>7, EmptyCycleTyped, EmptyCycleFields
<1> HIDE DEF empty
<1>9. RingsWithinCycle'
  BY <1>1, <1>8, FS_EmptySet DEF RingsWithinCycle, Used
<1>10. EntriesOwn' /\ NumberedInOrder(storage')
  BY <1>8 DEF EntriesOwn, NumberedInOrder
<1>11. RetractedBefore' /\ SamplesDropped'
  BY <1>1, <1>2, <1>4, <1>5, <1>8 DEF CInv, RetractedBefore, SamplesDropped
<1> QED BY <1>2, <1>3, <1>4, <1>5, <1>8, <1>9, <1>10, <1>11 DEF Alone

-----------------------------------------------------------------------------
(* Every step of a single tab.                                             *)

\* What becomes of the stored state in a step.
LEMMA OneTabSteps ==
  ASSUME OneTab, CInv, [Next]_vars
  PROVE  \/ Alone /\ \E t \in Tabs : Turn(t, storage')
         \/ Fault
         \/ \E f \in Flushes : Receive(f)
         \/ \E f \in Flushes, status \in Statuses : Deliver(f, status)
PROOF
<1>1. IInv
  BY DEF CInv, RInv
<1>2. ASSUME NEW t \in Tabs, User(t) PROVE Fault \/ (Alone /\ Turn(t, storage'))
  <2>1. CASE CloseTab(t)
    BY <1>1, <2>1, FailuresAreFaults
  <2>2. ASSUME ~CloseTab(t) PROVE Alone
    BY <1>2, <2>2, SettingsAlone, AddEntryAlone, UndoAlone, DeleteAlone, ResetAlone,
       CompleteAlone DEF User
  <2>3. ASSUME ~CloseTab(t) PROVE Turn(t, storage')
    <3>1. PICK st : Turn(t, st)
      BY <1>1, <1>2, <2>3, UserTurns
    <3>2. storage' = st
      BY <3>1 DEF Turn, Refreshed
    <3> QED BY <3>1, <3>2
  <2> QED BY <2>1, <2>2, <2>3
<1>3. CASE \/ GoOffline \/ GoOnline
           \/ \E f \in Flushes : FetchFails(f) \/ Lose(f) \/ GatewayFails(f)
  BY <1>1, <1>3, FailuresAreFaults
<1>4. CASE UNCHANGED vars
  BY <1>4 DEF vars, Fault
<1> QED BY <1>2, <1>3, <1>4 DEF Next, Network

LEMMA AloneKeepsCInv ==
  ASSUME OneTab, CInv, Alone, NEW t \in Tabs, Turn(t, storage')
  PROVE  CInv'
PROOF
<1>1. RInv' /\ IInv
  BY TurnKeepsRInv DEF CInv, RInv
<1>2. RingsWithinCycle' /\ EntriesOwn' /\ RetractedBefore' /\ SamplesDropped'
  BY DEF Alone
<1>3. Fresh'
  <2>1. view \in [Tabs -> View] /\ view' = [view EXCEPT ![t] = Seen(storage')]
    BY <1>1 DEF IInv, TypeOK, Turn, Refreshed
  <2>2. \A u \in Tabs : view'[u] = Seen(storage')
    BY <2>1 DEF OneTab
  <2>3. Seen(storage)' = Seen(storage')
    BY DEF Seen
  <2> QED BY <2>2, <2>3 DEF Fresh
<1>4. DeletionsFit'
  <2>1. \A e : Underway(e)' => Underway(e) \/ e \in storage'.pending \ storage.pending
    BY <1>1, TurnRequests
  <2>2. ASSUME NEW e \in Request, Underway(e)', e.kind = "task_delete"
        PROVE  Cardinality(e.eventIds) \in 1..LastRing
    BY <2>1, <2>2 DEF Alone, CInv, DeletionsFit
  <2> QED BY <2>2 DEF DeletionsFit
<1> QED BY <1>1, <1>2, <1>3, <1>4 DEF CInv

\* What a step other than a turn of the user leaves as it is.
LEMMA RequestsStay ==
  ASSUME RInv,
         \/ Fault
         \/ \E f \in Flushes : Receive(f)
         \/ \E f \in Flushes, status \in Statuses : Deliver(f, status)
  PROVE  /\ UNCHANGED <<view, nextId, sampled, retracted>>
         /\ UNCHANGED <<storage.consent, storage.initialRing, storage.initialScore,
                        storage.entries, storage.history>>
         /\ storage'.pending \subseteq storage.pending
         /\ \A e : Underway(e)' => Underway(e)
PROOF
<1>1. IInv /\ storage \in Storage
  BY DEF RInv, IInv, TypeOK
<1>2. CASE Fault
  BY <1>2, FaultRequests DEF Fault, history
<1>3. ASSUME NEW f \in Flushes, Receive(f)
      PROVE  /\ UNCHANGED <<view, nextId, sampled, retracted>>
             /\ UNCHANGED <<storage.consent, storage.initialRing, storage.initialScore,
                            storage.entries, storage.history>>
             /\ storage'.pending \subseteq storage.pending
             /\ \A e : Underway(e)' => Underway(e)
  <2>1. CASE Settles(wire[f].status)
    <3>1. storage' = [storage EXCEPT !.pending = Repo!Without(@, {wire[f].event.id})]
      BY <1>3, <2>1 DEF Receive, Repo!RemovePendingEvent
    <3> QED BY <1>1, <1>3, <3>1, ReceiveRequests DEF Receive, Repo!Without, history, Storage
  <2>2. CASE ~Settles(wire[f].status)
    BY <1>1, <1>3, <2>2, ReceiveRequests DEF Receive, history
  <2> QED BY <2>1, <2>2
<1>4. ASSUME NEW f \in Flushes, NEW status \in Statuses, Deliver(f, status)
      PROVE  /\ UNCHANGED <<storage, view, nextId, sampled, retracted>>
             /\ \A e : Underway(e)' => Underway(e)
  BY <1>1, <1>4, DeliverRequests DEF Deliver
<1> QED BY <1>2, <1>3, <1>4

LEMMA OthersKeepCInv ==
  ASSUME CInv, RInv',
         \/ Fault
         \/ \E f \in Flushes : Receive(f)
         \/ \E f \in Flushes, status \in Statuses : Deliver(f, status)
  PROVE  CInv'
PROOF
<1>1. /\ UNCHANGED <<view, nextId, sampled, retracted>>
      /\ UNCHANGED <<storage.consent, storage.initialRing, storage.initialScore,
                     storage.entries, storage.history>>
      /\ storage'.pending \subseteq storage.pending
      /\ \A e : Underway(e)' => Underway(e)
  BY RequestsStay DEF CInv
<1>2. Fresh'
  BY <1>1 DEF CInv, Fresh, Seen
<1>3. RingsWithinCycle' /\ EntriesOwn' /\ RetractedBefore' /\ SamplesDropped'
  BY <1>1 DEF CInv, RingsWithinCycle, Used, EntriesOwn, RetractedBefore, SamplesDropped
<1>4. DeletionsFit'
  BY <1>1 DEF CInv, DeletionsFit
<1> QED BY <1>2, <1>3, <1>4 DEF CInv

LEMMA InitCInv == Init => CInv
PROOF
<1> SUFFICES ASSUME Init PROVE CInv
  OBVIOUS
<1>1. /\ storage.entries = {} /\ storage.pending = {} /\ storage.initialRing = 0
      /\ retracted = {} /\ view = [t \in Tabs |-> Seen(storage)]
  BY DEF Init, Repo!DefaultState
<1>2. RingsWithinCycle
  BY <1>1, FS_EmptySet, LastRingAssumption DEF RingsWithinCycle, Used
<1>3. \A e : ~Underway(e)
  BY DEF Init, Underway, Repo!DefaultState, Waiting, Idle, Silence
<1> QED BY <1>1, <1>2, <1>3, InitRInv
        DEF CInv, Fresh, EntriesOwn, RetractedBefore, SamplesDropped, DeletionsFit

LEMMA NextCInv == OneTab /\ CInv /\ [Next]_vars => CInv'
PROOF
<1> SUFFICES ASSUME OneTab, CInv, [Next]_vars PROVE CInv'
  OBVIOUS
<1>1. RInv'
  BY NextRInv DEF CInv
<1> QED BY <1>1, OneTabSteps, AloneKeepsCInv, OthersKeepCInv

-----------------------------------------------------------------------------
(* Rings taken back.                                                       *)

\* No turn puts a sample of a ring that was taken back on its way.
LEMMA TurnOutstanding ==
  ASSUME CInv, SamplesDropped', NEW t \in Tabs, Turn(t, storage'),
         NEW id \in retracted, Outstanding(id)'
  PROVE  Outstanding(id)
PROOF
<1>1. TypeOK /\ storage' \in Storage /\ id \in retracted'
  BY CStart DEF Turn
<1>2. \A f \in Flushes :
        \/ flush'[f] = flush[f] /\ wire'[f] = wire[f]
        \/ flush'[f] = Idle /\ wire'[f] = Silence
        \/ /\ flush'[f].event \in storage'.pending
           /\ flush'[f].rest \subseteq storage'.pending
           /\ wire'[f] = Posted(flush'[f].event)
  <2>1. CASE FlushPendingEvents(t, storage')
    BY <1>1, <2>1, FlushTyped
  <2>2. CASE UNCHANGED syncVars
    BY <2>2 DEF syncVars
  <2> QED BY <2>1, <2>2 DEF Turn
<1>3. \A p \in storage'.pending : ~(p.kind = "task" /\ p.id = id)
  BY <1>1 DEF SamplesDropped
<1>4. ASSUME NEW f \in Flushes, wire'[f].phase = "request",
             wire'[f].event.kind = "task", wire'[f].event.id = id
      PROVE  Outstanding(id)
  <2>1. CASE wire'[f] = wire[f]
    BY <1>4, <2>1 DEF Outstanding
  <2>2. wire'[f] # Silence
    BY <1>4 DEF Silence
  <2>3. CASE flush'[f].event \in storage'.pending /\ wire'[f] = Posted(flush'[f].event)
    BY <1>3, <1>4, <2>3 DEF Posted
  <2> QED BY <1>2, <2>1, <2>2, <2>3
<1>5. ASSUME NEW f \in Flushes, Waiting(f)',
             NEW e \in flush'[f].rest, e.kind = "task", e.id = id
      PROVE  Outstanding(id)
  <2>1. CASE flush'[f] = flush[f]
    BY <1>5, <2>1 DEF Outstanding, Waiting
  <2>2. flush'[f] # Idle
    BY <1>5 DEF Idle, Waiting
  <2>3. CASE flush'[f].rest \subseteq storage'.pending
    BY <1>3, <1>5, <2>3
  <2> QED BY <1>2, <2>1, <2>2, <2>3
<1> QED BY <1>4, <1>5 DEF Outstanding

\* Nor does any other step.
LEMMA OthersOutstanding ==
  ASSUME IInv,
         \/ Fault
         \/ \E f \in Flushes : Receive(f)
         \/ \E f \in Flushes, status \in Statuses : Deliver(f, status),
         NEW id, Outstanding(id)'
  PROVE  Outstanding(id)
PROOF
<1>1. TypeOK /\ wire \in [Flushes -> Transfer] /\ flush \in [Flushes -> Activation]
  BY DEF IInv, TypeOK
<1>2. CASE Fault
  <2>1. ASSUME NEW f \in Flushes, wire'[f].phase = "request" PROVE wire'[f] = wire[f]
    <3>1. wire'[f] # Silence /\ wire'[f] # Answer(wire[f].event, "error")
      BY <2>1 DEF Silence, Answer
    <3> QED BY <1>2, <3>1 DEF Fault
  <2>2. ASSUME NEW f \in Flushes, Waiting(f)' PROVE flush'[f] = flush[f]
    BY <1>2, <2>2 DEF Fault, Waiting, Idle
  <2> QED BY <2>1, <2>2 DEF Outstanding, Waiting
<1>3. ASSUME NEW f \in Flushes, Receive(f) PROVE Outstanding(id)
  <2>1. flush[f].tab \in Tabs /\ flush[f].rest \in SUBSET Request /\ Waiting(f)
    BY <1>1, <1>3 DEF Receive, Waiting, Activation, Idle
  <2>2. /\ \A g \in Flushes : g # f => flush'[g] = flush[g] /\ wire'[g] = wire[g]
        /\ \/ flush'[f] = Idle /\ wire'[f] = Silence
           \/ /\ flush'[f].event \in flush[f].rest
              /\ flush'[f].rest \subseteq flush[f].rest
              /\ wire'[f] = Posted(flush'[f].event)
    BY <1>1, <1>3, <2>1, LoopTyped DEF Receive
  <2>3. ASSUME NEW g \in Flushes, wire'[g].phase = "request",
               wire'[g].event.kind = "task", wire'[g].event.id = id
        PROVE  Outstanding(id)
    <3>1. CASE g # f
      BY <2>2, <2>3, <3>1 DEF Outstanding
    <3>2. CASE g = f
      BY <2>1, <2>2, <2>3, <3>2 DEF Outstanding, Silence, Posted
    <3> QED BY <3>1, <3>2
  <2>4. ASSUME NEW g \in Flushes, Waiting(g)',
               NEW e \in flush'[g].rest, e.kind = "task", e.id = id
        PROVE  Outstanding(id)
    <3>1. CASE g # f
      BY <2>2, <2>4, <3>1 DEF Outstanding, Waiting
    <3>2. CASE g = f
      BY <2>1, <2>2, <2>4, <3>2 DEF Outstanding, Waiting, Idle
    <3> QED BY <3>1, <3>2
  <2> QED BY <2>3, <2>4 DEF Outstanding
<1>4. ASSUME NEW f \in Flushes, NEW status \in Statuses, Deliver(f, status)
      PROVE  Outstanding(id)
  <2>1. \A g \in Flushes : wire'[g].phase = "request" => wire'[g] = wire[g]
    BY <1>1, <1>4 DEF Deliver, Reply, Silence, Answer
  <2>2. flush' = flush
    BY <1>4 DEF Deliver
  <2> QED BY <2>1, <2>2 DEF Outstanding, Waiting
<1> QED BY <1>2, <1>3, <1>4

\* What is finished stays finished.
LEMMA FinishedStays ==
  ASSUME OneTab, CInv, [Next]_vars, NEW id \in retracted, Finished(id)
  PROVE  Finished(id)'
PROOF
<1>1. IInv /\ overtaken \subseteq overtaken'
  BY OneTabSteps DEF CInv, RInv, Turn, Fault, Receive, Deliver, history
<1>2. ASSUME Gone(id) PROVE Gone(id)'
  <2>1. ~Outstanding(id)'
    BY <1>1, <1>2, OneTabSteps, TurnOutstanding, OthersOutstanding DEF Gone, Alone
  <2>2. id \notin IdsOf(tasks)'
    <3>1. CASE \/ \E t \in Tabs : Turn(t, storage')
               \/ Fault
               \/ \E f \in Flushes : Receive(f)
      BY <1>2, <3>1 DEF Turn, Fault, Receive, serverVars, Gone
    <3>2. ASSUME NEW f \in Flushes, NEW status \in Statuses, Deliver(f, status)
          PROVE  id \notin IdsOf(tasks)'
      <4>1. /\ wire[f].phase = "request" /\ Handle(wire[f].event, status)
            /\ ~(wire[f].event.kind = "task" /\ wire[f].event.id = id)
        BY <1>2, <3>2 DEF Deliver, Gone, Outstanding
      <4>2. tasks' \subseteq tasks \/ (wire[f].event.kind = "task"
                                       /\ tasks' = tasks \cup {TaskRow(wire[f].event)})
        BY <4>1 DEF Handle, TaskEvent, RewardEvent, DeleteTaskEvents, serverVars
      <4>3. TaskRow(wire[f].event).id = wire[f].event.id
        BY DEF TaskRow
      <4> QED BY <1>2, <4>1, <4>2, <4>3 DEF Gone, IdsOf
    <3> QED BY <3>1, <3>2, OneTabSteps
  <2> QED BY <2>1, <2>2 DEF Gone
<1> QED BY <1>1, <1>2 DEF Finished

\* The server carries out a deletion it is sent, unless it is at fault: all it
\* names is gone, or on its way and then overtaken.
LEMMA DeliverFinishes ==
  ASSUME OneTab, CycleFitsBatch, CInv, [Next]_vars,
         NEW f \in Flushes, NEW status \in Statuses, Deliver(f, status),
         ~IsSample(wire[f].event), Settles(status),
         NEW id \in wire[f].event.eventIds
  PROVE  Finished(id)'
PROOF
<1> DEFINE event == wire[f].event
<1>1. IInv /\ Underway(event) /\ event \in Request
  <2>1. IInv /\ Underway(event)
    BY DEF CInv, RInv, Deliver, Underway
  <2> QED BY <2>1, UnderwaySound
<1>2. event.kind = "task_delete" /\ DeleteTaskEvents(event, status)
  BY DEF IsSample, Deliver, Handle
<1>3. Cardinality(event.eventIds) \in 1..LastRing
  BY <1>1, <1>2 DEF CInv, DeletionsFit
<1>4. ValidDelete(event)
  BY <1>3, LastRingAssumption, DeleteBatchAssumption DEF CycleFitsBatch, ValidDelete
<1>5. status = "ok" /\ tasks' = {row \in tasks : row.id \notin event.eventIds}
  BY <1>2, <1>4 DEF DeleteTaskEvents, Settles
<1>6. id \notin IdsOf(tasks)'
  BY <1>5 DEF IdsOf
<1>7. CASE Outstanding(id)
  BY <1>5, <1>7 DEF Deliver, Finished
<1>8. CASE ~Outstanding(id)
  <2>1. ~Outstanding(id)'
    BY <1>1, <1>8, OthersOutstanding
  <2> QED BY <1>6, <2>1 DEF Finished, Gone
<1> QED BY <1>7, <1>8

\* An answer that settles is given by the server, in the step that delivers
\* the request.
LEMMA AnswersGiven ==
  ASSUME OneTab, CInv, [Next]_vars, NEW f \in Flushes,
         wire'[f].phase = "answer", Settles(wire'[f].status)
  PROVE  \/ wire'[f] = wire[f]
         \/ \E status \in Statuses :
              Deliver(f, status) /\ wire'[f] = Answer(wire[f].event, status)
PROOF
<1>1. /\ IInv /\ TypeOK /\ wire \in [Flushes -> Transfer]
      /\ flush \in [Flushes -> Activation]
  BY DEF CInv, RInv, IInv, TypeOK
<1>2. ASSUME NEW t \in Tabs, Turn(t, storage') PROVE wire'[f] = wire[f]
  <2>1. CASE FlushPendingEvents(t, storage')
    <3>1. storage' \in Storage
      BY <1>2 DEF Turn
    <3>2. \/ wire'[f] = wire[f] \/ wire'[f] = Silence
          \/ wire'[f] = Posted(flush'[f].event)
      BY <1>1, <2>1, <3>1, FlushTyped
    <3> QED BY <3>2 DEF Silence, Posted
  <2>2. CASE UNCHANGED syncVars
    BY <2>2 DEF syncVars
  <2> QED BY <1>2, <2>1, <2>2 DEF Turn
<1>3. CASE Fault
  <2>1. wire'[f] # Silence
    BY DEF Silence
  <2>2. wire'[f] # Answer(wire[f].event, "error")
    BY DEF Answer, Settles
  <2> QED BY <1>3, <2>1, <2>2 DEF Fault
<1>4. ASSUME NEW g \in Flushes, Receive(g) PROVE wire'[f] = wire[f]
  <2>1. flush[g].tab \in Tabs /\ flush[g].rest \in SUBSET Request
    BY <1>1, <1>4 DEF Receive, Waiting, Activation, Idle
  <2>2. /\ \A h \in Flushes : h # g => wire'[h] = wire[h]
        /\ wire'[g] = Silence \/ wire'[g] = Posted(flush'[g].event)
    BY <1>1, <1>4, <2>1, LoopTyped DEF Receive
  <2> QED BY <2>2 DEF Silence, Posted
<1>5. ASSUME NEW g \in Flushes, NEW status \in Statuses, Deliver(g, status)
      PROVE  \/ wire'[f] = wire[f]
             \/ g = f /\ wire'[f] = Answer(wire[f].event, status)
  BY <1>1, <1>5 DEF Deliver, Reply, Silence
<1> QED BY <1>2, <1>3, <1>4, <1>5, OneTabSteps

\* A deletion leaves the outbox only for an answer, and then it is done.
LEMMA PendingStays ==
  ASSUME OneTab, DInv, [Next]_vars, NEW id \in retracted, AwaitsDeletion(id)
  PROVE  AwaitsDeletion(id)' \/ Finished(id)
PROOF
<1>1. PICK p \in storage.pending : p.kind = "task_delete" /\ id \in p.eventIds
  BY DEF AwaitsDeletion
<1>2. CASE p \in storage'.pending
  BY <1>1, <1>2 DEF AwaitsDeletion
<1>3. CASE Alone
  BY <1>1, <1>3 DEF Alone, AwaitsDeletion
<1>4. CASE Fault \/ \E f \in Flushes, status \in Statuses : Deliver(f, status)
  BY <1>1, <1>2, <1>4 DEF Fault, Deliver
<1>5. ASSUME NEW f \in Flushes, Receive(f), p \notin storage'.pending
      PROVE  Finished(id)
  <2>1. CInv /\ RInv /\ IInv /\ storage \in Storage
    BY DEF DInv, CInv, RInv, IInv, TypeOK
  <2>2. Settles(wire[f].status) /\ p.id = wire[f].event.id /\ wire[f].phase = "answer"
    BY <1>1, <1>5, <2>1 DEF Receive, Repo!RemovePendingEvent, Repo!Without, Storage
  <2>3. Underway(p) /\ Underway(wire[f].event)
    BY <2>2 DEF Underway
  <2>4. p = wire[f].event
    BY <2>1, <2>2, <2>3, UnderwaySound DEF RInv, OneRequestPerId
  <2> QED BY <1>1, <2>2, <2>4 DEF DInv, DeletionsAnswered, IsSample
<1>6. CInv
  BY DEF DInv
<1> QED BY <1>2, <1>3, <1>4, <1>5, <1>6, OneTabSteps

LEMMA NextDInv == OneTab /\ CycleFitsBatch /\ DInv /\ [Next]_vars => DInv'
PROOF
<1> SUFFICES ASSUME OneTab, CycleFitsBatch, DInv, [Next]_vars PROVE DInv'
  OBVIOUS
<1>1. CInv /\ CInv' /\ IInv
  BY NextCInv DEF DInv, CInv, RInv
<1>2. \A id \in retracted : Finished(id) => Finished(id)'
  BY <1>1, FinishedStays
<1>3. DeletionsPending'
  <2>1. ASSUME NEW id \in retracted PROVE AwaitsDeletion(id)' \/ Finished(id)'
    BY <1>2, PendingStays DEF DInv, DeletionsPending
  <2>2. ASSUME NEW id \in retracted' \ retracted PROVE AwaitsDeletion(id)'
    BY <1>1, <2>2, OneTabSteps DEF Alone, Fault, Receive, Deliver, history
  <2> QED BY <2>1, <2>2 DEF DeletionsPending
<1>4. DeletionsAnswered'
  <2> SUFFICES ASSUME NEW f \in Flushes, wire'[f].phase = "answer",
                      ~IsSample(wire'[f].event), Settles(wire'[f].status),
                      NEW id \in wire'[f].event.eventIds
               PROVE  Finished(id)'
    BY DEF DeletionsAnswered
  <2>1. CASE wire'[f] = wire[f]
    <3>1. Sound(wire[f].event)
      BY <1>1, <2>1 DEF IInv, RequestsSound
    <3>2. id \in retracted
      BY <2>1, <3>1 DEF Sound, IsSample
    <3> QED BY <1>2, <2>1, <3>2 DEF DInv, DeletionsAnswered
  <2>2. ASSUME NEW status \in Statuses, Deliver(f, status),
               wire'[f] = Answer(wire[f].event, status)
        PROVE  Finished(id)'
    BY <1>1, <2>2, DeliverFinishes DEF Answer
  <2>3. \/ wire'[f] = wire[f]
        \/ \E status \in Statuses :
             Deliver(f, status) /\ wire'[f] = Answer(wire[f].event, status)
    BY <1>1, AnswersGiven
  <2> QED BY <2>1, <2>2, <2>3
<1> QED BY <1>1, <1>3, <1>4 DEF DInv

LEMMA InitDInv == Init => DInv
PROOF
<1> SUFFICES ASSUME Init PROVE DInv
  OBVIOUS
<1>1. DeletionsPending /\ DeletionsAnswered
  BY DEF Init, DeletionsPending, DeletionsAnswered, Silence
<1> QED BY <1>1, InitCInv DEF DInv

-----------------------------------------------------------------------------
(* The theorems.                                                           *)

\* The strengthenings hold in every reachable state of a single tab.
THEOREM OneTabInductive ==
  ASSUME OneTab
  PROVE  Spec => []CInv
PROOF
<1>1. CInv /\ [Next]_vars => CInv'
  BY NextCInv
<1> QED BY <1>1, InitCInv, PTL DEF Spec

\* And with deletions that fit a batch, so does what keeps a ring that was
\* taken back from staying on the server: its deletion is still in the outbox,
\* or an answer to it is on its way, or the row is gone for good
\* (app.mjs:397-430, api.go:138-163).
THEOREM DeletionsInductive ==
  ASSUME OneTab, CycleFitsBatch
  PROVE  Spec => []DInv
PROOF
<1>1. DInv /\ [Next]_vars => DInv'
  BY NextDInv
<1> QED BY <1>1, InitDInv, PTL DEF Spec

\* A single tab never records more rings than a cycle has, whatever is typed
\* into the initial-ring field and whatever is undone or deleted in between:
\* the guards of addEntry and of updateCycleSetup read a `state` that is what
\* is stored (app.mjs:349, 391).
THEOREM WithinCycle ==
  ASSUME OneTab
  PROVE  Spec => []RingsWithinCycle
PROOF
<1>1. CInv => RingsWithinCycle
  BY DEF CInv
<1>2. Spec => []CInv
  BY OneTabInductive
<1> QED BY <1>1, <1>2, PTL

\* Every deletion a single tab queues is one the server accepts, if a batch
\* holds a cycle: resetting a full cycle is not answered with 400
\* (app.mjs:423, api.go:144).
THEOREM Acceptable ==
  ASSUME OneTab, CycleFitsBatch
  PROVE  Spec => []DeletionsAcceptable
PROOF
<1>1. CInv => DeletionsAcceptable
  <2> SUFFICES ASSUME CInv PROVE DeletionsAcceptable
    OBVIOUS
  <2>1. ASSUME NEW p \in storage.pending, p.kind = "task_delete" PROVE ValidDelete(p)
    <3>1. p \in Request /\ Underway(p)
      BY CStart DEF Underway
    <3>2. Cardinality(p.eventIds) \in 1..LastRing
      BY <2>1, <3>1 DEF CInv, DeletionsFit
    <3> QED BY <3>2, LastRingAssumption, DeleteBatchAssumption
            DEF CycleFitsBatch, ValidDelete
  <2> QED BY <2>1 DEF DeletionsAcceptable
<1>2. Spec => []CInv
  BY OneTabInductive
<1> QED BY <1>1, <1>2, PTL

\* With a single tab a ring the user took back is never left on the server
\* without a deletion waiting for it, unless a POST of it was still on its way
\* when the deletion was carried out: no other loss, fault, retry or restart
\* leaves an orphan (app.mjs:397-430, 474-487).
THEOREM Orphans ==
  ASSUME OneTab, CycleFitsBatch
  PROVE  Spec => []OrphansOnlyOvertaken
PROOF
<1>1. DInv => OrphansOnlyOvertaken
  BY DEF DInv, DeletionsPending, OrphansOnlyOvertaken, Finished, Gone
<1>2. Spec => []DInv
  BY DeletionsInductive
<1> QED BY <1>1, <1>2, PTL

\* In a single tab recording, undoing and deleting keep the rings of the cycle
\* numbered one after the other: undo takes the last one, delete numbers the
\* others again, and the number of a new one is one more than the rings there
\* are (storage.mjs:59-66, app.mjs:359).
THEOREM InOrder ==
  ASSUME OneTab
  PROVE  Spec => RingsStayInOrder
PROOF
<1> DEFINE Kept == NumberedInOrder(storage) /\ storage'.initialRing = storage.initialRing
                     => NumberedInOrder(storage')
<1>1. CInv /\ [Next]_vars => Kept
  <2> SUFFICES ASSUME CInv, [Next]_vars PROVE Kept
    OBVIOUS
  <2>1. CASE Alone
    BY <2>1 DEF Alone
  <2>2. CASE UNCHANGED <<storage.initialRing, storage.entries>>
    BY <2>2 DEF NumberedInOrder
  <2> QED BY <2>1, <2>2, OneTabSteps, RequestsStay DEF CInv
<1>2. Spec => []CInv
  BY OneTabInductive
<1> QED BY <1>1, <1>2, PTL DEF Spec, RingsStayInOrder

\* A single tab files a cycle, and queues the sample of its reward, only when
\* the stored cycle has all its rings (app.mjs:434).
THEOREM FullCycles ==
  ASSUME OneTab
  PROVE  Spec => OnlyFullCyclesComplete
PROOF
<1> DEFINE Full == /\ \A h \in storage'.history \ storage.history : Used(storage) >= LastRing
                   /\ \A p \in storage'.pending \ storage.pending :
                        p.kind = "reward" => Used(storage) >= LastRing
<1>1. CInv /\ [Next]_vars => Full
  <2> SUFFICES ASSUME CInv, [Next]_vars PROVE Full
    OBVIOUS
  <2>1. CASE Alone
    BY <2>1 DEF Alone
  <2>2. CASE UNCHANGED storage.history /\ storage'.pending \subseteq storage.pending
    BY <2>2
  <2> QED BY <2>1, <2>2, OneTabSteps, RequestsStay DEF CInv
<1>2. Spec => []CInv
  BY OneTabInductive
<1> QED BY <1>1, <1>2, PTL DEF Spec, OnlyFullCyclesComplete

\* A loop sends a sample only under the consent it is given.
LEMMA LoopConsents ==
  ASSUME wire \in [Flushes -> Transfer], NEW f \in Flushes, NEW t, NEW consent, NEW rest,
         Loop(f, t, consent, rest),
         NEW g \in Flushes, wire'[g] # wire[g],
         wire'[g].phase = "request", IsSample(wire'[g].event)
  PROVE  consent = "share"
PROOF
<1>1. wire'[f] # Silence \/ g # f
  BY DEF Silence
<1>2. CASE wire' = [wire EXCEPT ![f] = Silence]
  BY <1>1, <1>2
<1>3. ASSUME NEW e \in rest, MaySend(e, consent), wire' = [wire EXCEPT ![f] = Posted(e)]
      PROVE  consent = "share"
  <2>1. wire'[g].event = e
    BY <1>3 DEF Posted
  <2> QED BY <1>3, <2>1 DEF MaySend, IsSample
<1> QED BY <1>2, <1>3 DEF Loop

\* A single tab puts a request with a sample on the network only while the
\* stored consent is to share, however long ago the flush that sends it began:
\* each iteration reads a `state` that is what is stored (app.mjs:478).  With
\* two tabs it is not so, as the run two_tabs_consent shows.
THEOREM SentWithConsent ==
  ASSUME OneTab
  PROVE  Spec => SamplesSentWithConsent
PROOF
<1> DEFINE Consented ==
      \A f \in Flushes :
        (wire'[f] # wire[f] /\ wire'[f].phase = "request" /\ IsSample(wire'[f].event))
          => storage.consent = "share"
<1>1. CInv /\ [Next]_vars => Consented
  <2> SUFFICES ASSUME CInv, [Next]_vars, NEW f \in Flushes, wire'[f] # wire[f],
                      wire'[f].phase = "request", IsSample(wire'[f].event)
               PROVE  storage.consent = "share"
    OBVIOUS
  <2>1. /\ wire \in [Flushes -> Transfer] /\ flush \in [Flushes -> Activation]
        /\ \A t \in Tabs : view[t] = Seen(storage)
    BY CStart DEF TypeOK
  <2>2. ASSUME NEW t \in Tabs, Alone, Turn(t, storage') PROVE storage.consent = "share"
    <3>1. ~UNCHANGED syncVars
      BY DEF syncVars
    <3>2. storage'.consent = storage.consent
      BY <2>2, <3>1 DEF Alone
    <3>3. PICK g \in Free : Loop(g, t, storage'.consent, storage'.pending)
      BY <2>2, <3>1 DEF Turn, FlushPendingEvents
    <3>4. storage'.consent = "share"
      BY <2>1, <3>3, LoopConsents DEF Free
    <3> QED BY <3>2, <3>4
  <2>3. ASSUME NEW g \in Flushes, Receive(g) PROVE storage.consent = "share"
    <3>1. flush[g].tab \in Tabs
      BY <2>1, <2>3 DEF Receive, Waiting, Activation, Idle
    <3>2. view[flush[g].tab].consent = "share"
      BY <2>1, <2>3, LoopConsents DEF Receive
    <3> QED BY <2>1, <3>1, <3>2 DEF Seen
  <2>4. CASE Fault
    <3>1. wire'[f] # Silence /\ wire'[f] # Answer(wire[f].event, "error")
      BY DEF Silence, Answer
    <3> QED BY <2>4, <3>1 DEF Fault
  <2>5. ASSUME NEW g \in Flushes, NEW status \in Statuses, Deliver(g, status)
        PROVE  FALSE
    <3>1. wire'[f] = wire[f] \/ wire'[f] = Silence \/ wire'[f] = Answer(wire[g].event, status)
      BY <2>1, <2>5 DEF Deliver, Reply
    <3>2. wire'[f] # Silence /\ wire'[f] # Answer(wire[g].event, status)
      BY DEF Silence, Answer
    <3> QED BY <3>1, <3>2
  <2> QED BY <2>2, <2>3, <2>4, <2>5, OneTabSteps
<1>2. Spec => []CInv
  BY OneTabInductive
<1> QED BY <1>1, <1>2, PTL DEF Spec, SamplesSentWithConsent
=============================================================================
