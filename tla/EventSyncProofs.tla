-------------------------- MODULE EventSyncProofs --------------------------
(***************************************************************************)
(* For any number of tabs, of activations of flushPendingEvents and of     *)
(* rings: the state of EventSync is typed, and no sample is lost.          *)
(***************************************************************************)
EXTENDS EventSync, FiniteSetTheorems, TLAPS

\* What every request in the outbox, in an activation or on the network has:
\* its identifier was drawn before, and a deletion is no sample and names
\* only entries the user took back.
Sound(e) ==
  /\ e \in Request
  /\ e.id < nextId
  /\ e.kind = "task_delete" => e.id \notin sampled /\ e.eventIds \subseteq retracted

RequestsSound ==
  /\ \A p \in storage.pending : Sound(p)
  /\ \A f \in Flushes : Waiting(f) =>
       Sound(flush[f].event) /\ \A e \in flush[f].rest : Sound(e)
  /\ \A f \in Flushes : wire[f].phase # "idle" => Sound(wire[f].event)

\* An answer that settles a sample is true: the row is there, unless a
\* deletion has removed it since, or the server has refused it.
AnswersTrue ==
  \A f \in Flushes :
    wire[f].phase = "answer" /\ IsSample(wire[f].event) /\ Settles(wire[f].status) =>
      wire[f].event.id \in retracted \cup StoredIds \cup refused

\* The arrays of entries are finite.
EntriesFinite ==
  /\ IsFiniteSet(storage.entries)
  /\ \A t \in Tabs : IsFiniteSet(view[t].entries)

SampledBefore == \A id \in sampled : id < nextId

IInv ==
  /\ TypeOK
  /\ EntriesFinite
  /\ SampledBefore
  /\ RequestsSound
  /\ AnswersTrue
  /\ NoSampleLost

-----------------------------------------------------------------------------
\* The loop of flushPendingEvents leaves its activation over, or waiting for
\* a request that was among the ones it was given.
LEMMA LoopTyped ==
  ASSUME TypeOK, NEW f \in Flushes, NEW t \in Tabs, NEW consent,
         NEW rest \in SUBSET Request, Loop(f, t, consent, rest)
  PROVE  /\ flush' \in [Flushes -> Activation]
         /\ wire' \in [Flushes -> Transfer]
         /\ \A g \in Flushes : g # f => flush'[g] = flush[g] /\ wire'[g] = wire[g]
         /\ \/ flush'[f] = Idle /\ wire'[f] = Silence
            \/ /\ flush'[f].event \in rest
               /\ flush'[f].rest \subseteq rest
               /\ wire'[f] = Posted(flush'[f].event)
PROOF
<1>1. CASE flush' = [flush EXCEPT ![f] = Idle] /\ wire' = [wire EXCEPT ![f] = Silence]
  BY <1>1 DEF TypeOK, Activation, Transfer
<1>2. ASSUME NEW e \in rest,
             flush' = [flush EXCEPT ![f] = [phase |-> "waiting", tab |-> t, event |-> e,
                                            rest |-> {x \in rest : x.id > e.id}]],
             wire' = [wire EXCEPT ![f] = Posted(e)]
      PROVE  /\ flush' \in [Flushes -> Activation]
             /\ wire' \in [Flushes -> Transfer]
             /\ \A g \in Flushes : g # f => flush'[g] = flush[g] /\ wire'[g] = wire[g]
             /\ flush'[f].event \in rest
             /\ flush'[f].rest \subseteq rest
             /\ wire'[f] = Posted(flush'[f].event)
  <2> DEFINE a == [phase |-> "waiting", tab |-> t, event |-> e,
                   rest |-> {x \in rest : x.id > e.id}]
  <2>1. a \in Activation
    BY DEF Activation
  <2>2. Posted(e) \in Transfer
    BY DEF Posted, Transfer
  <2>3. flush' = [flush EXCEPT ![f] = a]
    BY <1>2
  <2>4. a.event = e /\ a.rest \subseteq rest
    OBVIOUS
  <2> HIDE DEF a
  <2> QED BY <2>1, <2>2, <2>3, <2>4, <1>2 DEF TypeOK
<1> QED BY <1>1, <1>2 DEF Loop

\* The same of the call of flushPendingEvents that ends a handler's turn.
LEMMA FlushTyped ==
  ASSUME TypeOK, NEW t \in Tabs, NEW st \in Storage, FlushPendingEvents(t, st)
  PROVE  /\ flush' \in [Flushes -> Activation]
         /\ wire' \in [Flushes -> Transfer]
         /\ \A f \in Flushes :
              \/ flush'[f] = flush[f] /\ wire'[f] = wire[f]
              \/ flush'[f] = Idle /\ wire'[f] = Silence
              \/ /\ flush'[f].event \in st.pending
                 /\ flush'[f].rest \subseteq st.pending
                 /\ wire'[f] = Posted(flush'[f].event)
PROOF
<1>1. CASE UNCHANGED syncVars
  BY <1>1 DEF TypeOK, syncVars
<1>2. ASSUME NEW f \in Free, Loop(f, t, st.consent, st.pending)
      PROVE  /\ flush' \in [Flushes -> Activation]
             /\ wire' \in [Flushes -> Transfer]
             /\ \A g \in Flushes : g # f => flush'[g] = flush[g] /\ wire'[g] = wire[g]
             /\ \/ flush'[f] = Idle /\ wire'[f] = Silence
                \/ /\ flush'[f].event \in st.pending
                   /\ flush'[f].rest \subseteq st.pending
                   /\ wire'[f] = Posted(flush'[f].event)
  <2>1. f \in Flushes /\ st.pending \in SUBSET Request
    BY DEF Free, Storage
  <2> QED BY <2>1, <1>2, LoopTyped
<1> QED BY <1>1, <1>2 DEF FlushPendingEvents, Free

\* A turn that leaves a typed storage leaves typed views of it.
LEMMA RefreshedTyped ==
  ASSUME TypeOK, NEW t \in Tabs, NEW st \in Storage, Refreshed(t, st)
  PROVE  /\ storage' = st
         /\ view' \in [Tabs -> View]
         /\ view'[t].entries = st.entries
         /\ \A u \in Tabs : u # t => view'[u] = view[u]
PROOF
<1>1. Seen(st) \in View /\ Seen(st).entries = st.entries
  BY DEF Seen, View, Storage
<1> QED BY <1>1 DEF Refreshed, TypeOK

-----------------------------------------------------------------------------
\* Cardinality as the instantiated module sees it.
LEMMA RepoCardinality == \A S : Repo!Cardinality(S) = Cardinality(S)
PROOF BY Zenon DEF Repo!Cardinality, Cardinality, Repo!IsFiniteSet, IsFiniteSet

\* What the repository's operations make of a typed state: it stays typed,
\* its entries stay finite, and of the outbox they drop what they name.
LEMMA RenumberedTyped ==
  ASSUME NEW entries \in SUBSET Entry, IsFiniteSet(entries),
         NEW ring \in RingsBefore
  PROVE  /\ Repo!Renumbered(entries, ring) \in SUBSET Entry
         /\ IsFiniteSet(Repo!Renumbered(entries, ring))
PROOF
<1> DEFINE upTo(x) == {y \in entries : y.id <= x.id}
           new(x) == [x EXCEPT !.ringNumber = ring + Cardinality(upTo(x))]
           image == {new(x) : x \in entries}
           map == [x \in entries |-> new(x)]
<1>1. Repo!Renumbered(entries, ring) = image
  <2>1. \A x \in entries :
          new(x) = [x EXCEPT !.ringNumber =
                      ring + Repo!Cardinality({y \in entries : y.id <= x.id})]
    BY RepoCardinality
  <2> HIDE DEF new
  <2> QED BY Zenon, <2>1 DEF Repo!Renumbered
<1>2. ASSUME NEW x \in entries PROVE new(x) \in Entry
  <2>1. Cardinality(upTo(x)) \in Nat
    BY FS_Subset, FS_CardinalityType
  <2>2. ring \in Nat
    BY LastRingAssumption DEF RingsBefore
  <2>3. ring + Cardinality(upTo(x)) \in Nat
    BY <2>1, <2>2
  <2> HIDE DEF upTo
  <2> QED BY <2>3 DEF Entry
<1>3. map \in Surjection(entries, image)
  BY DEF Surjection
<1>4. IsFiniteSet(image)
  <2> HIDE DEF map, image
  <2> QED BY <1>3, FS_Surjection
<1> HIDE DEF new
<1> QED BY <1>1, <1>2, <1>4

LEMMA QueueEventTyped ==
  ASSUME NEW st \in Storage, NEW event \in Request
  PROVE  LET new == Repo!QueueEvent(st, event) IN
         /\ new \in Storage
         /\ new.entries = st.entries
         /\ st.pending \subseteq new.pending
         /\ new.pending \subseteq st.pending \cup {event}
         /\ event.id \in IdsOf(new.pending)
PROOF
BY DEF Repo!QueueEvent, Storage, IdsOf

LEMMA EmptyCycleTyped ==
  ASSUME NEW st \in Storage
  PROVE  LET new == Repo!EmptyCycle(st) IN
         new \in Storage /\ new.entries = {} /\ new.pending = st.pending
PROOF
<1>1. 0 \in RingsBefore
  BY LastRingAssumption DEF RingsBefore
<1> DEFINE a == [st EXCEPT !.initialRing = 0]
           b == [a EXCEPT !.initialScore = 0]
           c == [b EXCEPT !.entries = {}]
<1>2. a \in Storage /\ a.pending = st.pending
  BY <1>1 DEF Storage
<1> HIDE DEF a
<1>3. b \in Storage /\ b.pending = st.pending
  BY <1>2 DEF Storage
<1> HIDE DEF b
<1>4. c \in Storage /\ c.pending = st.pending /\ c.entries = {}
  BY <1>3 DEF Storage
<1>5. Repo!EmptyCycle(st) = c
  BY DEF Repo!EmptyCycle, a, b
<1> QED BY <1>4, <1>5
-----------------------------------------------------------------------------
\* A request stays sound when identifiers are drawn, samples with them are
\* queued and entries are taken back.
LEMMA SoundStays ==
  ASSUME nextId \in Nat, nextId' \in Nat, nextId' >= nextId,
         retracted \subseteq retracted',
         \A id \in sampled' \ sampled : id >= nextId
  PROVE  \A e : Sound(e) => Sound(e)'
PROOF
<1>1. ASSUME NEW e, Sound(e) PROVE e.id \in Nat
  BY <1>1 DEF Sound, Request
<1> QED BY <1>1 DEF Sound

\* What the turns of a tab that leave the stored state st have in common.
\* Identifiers of new requests and samples are fresh; of the requests one at
\* most is new; a request that is gone is of a ring taken back; and a turn
\* reports a sample or takes rings back.
Turn(t, st) ==
  /\ st \in Storage /\ IsFiniteSet(st.entries)
  /\ Refreshed(t, st)
  /\ FlushPendingEvents(t, st) \/ UNCHANGED syncVars
  /\ open' \subseteq Tabs
  /\ UNCHANGED <<online, refused, overtaken, serverVars>>
  /\ nextId' \in Nat /\ nextId' >= nextId
  /\ sampled \subseteq sampled' /\ sampled' \subseteq Nat
  /\ \A id \in sampled' \ sampled :
       id >= nextId /\ id < nextId' /\ id \in IdsOf(st.pending)
  /\ retracted \subseteq retracted' /\ retracted' \subseteq Nat
  /\ \A p \in st.pending \ storage.pending : Sound(p)' /\ p.id >= nextId
  /\ \A p, q \in st.pending \ storage.pending : p = q
  /\ \A id \in IdsOf(storage.pending) : id \in IdsOf(st.pending) \cup retracted'
  /\ \/ sampled' = sampled
     \/ retracted' = retracted /\ sampled' = sampled \cup {nextId}

LEMMA TurnKeepsIInv ==
  ASSUME IInv, NEW t \in Tabs, NEW st, Turn(t, st)
  PROVE  IInv'
PROOF
<1>0. /\ \A p \in st.pending \ storage.pending : Sound(p)'
      /\ \A id \in IdsOf(storage.pending) : id \in IdsOf(st.pending) \cup retracted'
  BY DEF Turn
<1>1. /\ TypeOK /\ nextId \in Nat
      /\ st \in Storage /\ IsFiniteSet(st.entries)
      /\ Refreshed(t, st) /\ (FlushPendingEvents(t, st) \/ UNCHANGED syncVars)
      /\ open' \subseteq Tabs /\ UNCHANGED <<online, refused, overtaken, serverVars>>
      /\ nextId' \in Nat /\ nextId' >= nextId
      /\ sampled \subseteq sampled' /\ sampled' \subseteq Nat
      /\ \A id \in sampled' \ sampled :
           id >= nextId /\ id < nextId' /\ id \in IdsOf(st.pending)
      /\ retracted \subseteq retracted' /\ retracted' \subseteq Nat
  BY DEF IInv, TypeOK, Turn
<1>2. /\ storage' = st
      /\ view' \in [Tabs -> View]
      /\ view'[t].entries = st.entries
      /\ \A u \in Tabs : u # t => view'[u] = view[u]
  BY <1>1, RefreshedTyped
<1>3. /\ flush' \in [Flushes -> Activation]
      /\ wire' \in [Flushes -> Transfer]
      /\ \A f \in Flushes :
           \/ flush'[f] = flush[f] /\ wire'[f] = wire[f]
           \/ flush'[f] = Idle /\ wire'[f] = Silence
           \/ /\ flush'[f].event \in st.pending
              /\ flush'[f].rest \subseteq st.pending
              /\ wire'[f] = Posted(flush'[f].event)
  <2>1. CASE FlushPendingEvents(t, st)
    BY <1>1, <2>1, FlushTyped
  <2>2. CASE UNCHANGED syncVars
    BY <1>1, <2>2 DEF TypeOK, syncVars
  <2> QED BY <1>1, <2>1, <2>2
<1>4. TypeOK'
  BY <1>1, <1>2, <1>3 DEF TypeOK, serverVars
<1>5. EntriesFinite'
  BY <1>1, <1>2 DEF IInv, EntriesFinite
<1>6. SampledBefore'
  <2>1. ASSUME NEW id \in sampled PROVE id < nextId'
    BY <1>1 DEF IInv, TypeOK, SampledBefore
  <2> QED BY <1>1, <2>1 DEF SampledBefore
<1>7. \A e : Sound(e) => Sound(e)'
  BY <1>1, SoundStays
<1>8. RequestsSound'
  <2>1. \A p \in st.pending : Sound(p)'
    BY <1>0, <1>7 DEF IInv, RequestsSound
  <2>2. \A p \in storage'.pending : Sound(p)'
    BY <1>2, <2>1
  <2>3. ASSUME NEW f \in Flushes, Waiting(f)'
        PROVE  /\ Sound(flush[f].event)'
               /\ \A e \in flush'[f].rest : Sound(e)'
    BY <1>3, <1>7, <2>1, <2>3 DEF IInv, RequestsSound, Waiting, Idle, Sound
  <2>4. ASSUME NEW f \in Flushes, wire'[f].phase # "idle"
        PROVE  Sound(wire[f].event)'
    BY <1>3, <1>7, <2>1, <2>4 DEF IInv, RequestsSound, Silence, Posted, Sound
  <2> QED BY <2>2, <2>3, <2>4 DEF RequestsSound
<1>9. AnswersTrue'
  <2>1. ASSUME NEW f \in Flushes, wire'[f].phase = "answer" PROVE wire'[f] = wire[f]
    BY <1>3, <2>1 DEF Silence, Posted
  <2>2. StoredIds' = StoredIds
    BY <1>1 DEF StoredIds, serverVars
  <2> QED BY <1>1, <2>1, <2>2 DEF IInv, AnswersTrue
<1>10. NoSampleLost'
  <2>1. StoredIds' = StoredIds
    BY <1>1 DEF StoredIds, serverVars
  <2>2. IdsOf(storage.pending)' = IdsOf(st.pending)
    BY <1>2
  <2> QED BY <1>0, <1>1, <2>1, <2>2 DEF IInv, NoSampleLost
<1> QED BY <1>4, <1>5, <1>6, <1>8, <1>9, <1>10 DEF IInv
\* A turn that leaves the outbox and the histories as they are.
LEMMA QuietTurn ==
  ASSUME IInv, NEW t \in Tabs, NEW st \in Storage, IsFiniteSet(st.entries),
         st.pending = storage.pending,
         Refreshed(t, st), FlushPendingEvents(t, st) \/ UNCHANGED syncVars,
         open' \subseteq Tabs, UNCHANGED <<online, nextId, history, serverVars>>
  PROVE  Turn(t, st)
PROOF
<1>1. /\ nextId \in Nat /\ nextId' = nextId
      /\ sampled' = sampled /\ retracted' = retracted
      /\ sampled \subseteq Nat /\ retracted \subseteq Nat
      /\ UNCHANGED <<refused, overtaken>>
  BY DEF IInv, TypeOK, history
<1> QED BY <1>1 DEF Turn

LEMMA UserSettings ==
  ASSUME IInv, NEW t \in Tabs,
         \/ OpenTab(t) \/ Refresh(t)
         \/ \E value \in {"share", "local"} : ChooseConsent(t, value)
         \/ \E ring \in RingInputs, score \in ScoreInputs : UpdateCycleSetup(t, ring, score)
         \/ \E id \in IdsOf(storage.history) : DeleteHistory(t, id)
  PROVE  \E s : Turn(t, s)
PROOF
<1>1. /\ storage \in Storage /\ IsFiniteSet(storage.entries)
      /\ open \subseteq Tabs
  BY DEF IInv, TypeOK, EntriesFinite
<1>2. CASE OpenTab(t)
  BY <1>1, <1>2, QuietTurn DEF OpenTab
<1>3. CASE Refresh(t)
  BY <1>1, <1>3, QuietTurn DEF Refresh
<1>4. ASSUME NEW value \in {"share", "local"}, ChooseConsent(t, value) PROVE \E s : Turn(t, s)
  <2> DEFINE st == Repo!SetConsent(storage, value)
  <2>1. st \in Storage /\ st.entries = storage.entries /\ st.pending = storage.pending
    BY <1>1 DEF Storage, Repo!SetConsent, Repo!Consents
  <2>2. Refreshed(t, st)
    BY <1>4 DEF ChooseConsent
  <2> HIDE DEF st
  <2> QED BY <1>1, <1>4, <2>1, <2>2, QuietTurn DEF ChooseConsent
<1>5. ASSUME NEW ring \in RingInputs, NEW score \in ScoreInputs,
             UpdateCycleSetup(t, ring, score)
      PROVE  \E s : Turn(t, s)
  <2> DEFINE r == Clamp(ring, 0, LastRing - 1)
             st == Repo!UpdateCurrent(storage, r, score)
  <2>1. r \in RingsBefore
    BY SyncAssumption, LastRingAssumption DEF Clamp, RingsBefore
  <2>2. Refreshed(t, st)
    BY <1>5 DEF UpdateCycleSetup
  <2> HIDE DEF r
  <2>3. score \in Int
    BY SyncAssumption
  <2>4. [storage EXCEPT !.initialRing = r] \in Storage
    BY <1>1, <2>1 DEF Storage
  <2>5. st \in Storage /\ st.entries = storage.entries /\ st.pending = storage.pending
    BY <1>1, <2>3, <2>4 DEF Storage, Repo!UpdateCurrent
  <2> HIDE DEF st
  <2> QED BY <1>1, <1>5, <2>2, <2>5, QuietTurn DEF UpdateCycleSetup
<1>6. ASSUME NEW id \in IdsOf(storage.history), DeleteHistory(t, id) PROVE \E s : Turn(t, s)
  <2> DEFINE st == Repo!DeleteHistory(storage, id)
  <2>1. st \in Storage /\ st.entries = storage.entries /\ st.pending = storage.pending
    BY <1>1 DEF Storage, Repo!DeleteHistory
  <2>2. Refreshed(t, st)
    BY <1>6 DEF DeleteHistory
  <2> HIDE DEF st
  <2> QED BY <1>1, <1>6, <2>1, <2>2, QuietTurn DEF DeleteHistory
<1> QED BY <1>2, <1>3, <1>4, <1>5, <1>6
\* The number of a ring is a natural number: arrays of entries are finite.
LEMMA RingTyped ==
  ASSUME NEW v \in View, IsFiniteSet(v.entries)
  PROVE  Ring(v) \in Nat
PROOF
<1>1. v.initialRing \in Nat /\ LastRing \in Nat
  BY LastRingAssumption DEF View, RingsBefore
<1>2. Cardinality(v.entries) \in Nat
  BY FS_CardinalityType
<1>3. Used(v) \in Nat
  BY <1>1, <1>2 DEF Used
<1> QED BY <1>1, <1>3 DEF Ring

\* A recorded ring, and the sample of it, bear a fresh identifier.
LEMMA UserAddEntry ==
  ASSUME IInv, NEW t \in Tabs, NEW result \in Results, AddEntry(t, result)
  PROVE  \E s : Turn(t, s)
PROOF
<1> DEFINE entry == [id |-> nextId, ringNumber |-> Ring(view[t]) + 1, result |-> result]
           added == Repo!AddEntry(storage, entry)
           shared == added.consent = "share"
           request == TaskRequest(entry.id, entry.ringNumber, result)
           st == IF shared THEN Repo!QueueEvent(added, request) ELSE added
<1>1. /\ storage \in Storage /\ IsFiniteSet(storage.entries)
      /\ view[t] \in View /\ IsFiniteSet(view[t].entries)
      /\ nextId \in Nat /\ open \subseteq Tabs
      /\ sampled \subseteq Nat /\ retracted \subseteq Nat
  BY DEF IInv, TypeOK, EntriesFinite
<1>2. /\ nextId' = nextId + 1
      /\ Refreshed(t, st)
      /\ FlushPendingEvents(t, st)
      /\ sampled' = IF shared THEN sampled \cup {nextId} ELSE sampled
      /\ UNCHANGED <<open, online, retracted, refused, overtaken, serverVars>>
  BY DEF AddEntry
<1>3. Ring(view[t]) + 1 \in Nat /\ result \in RingResult
  BY <1>1, RingTyped, SyncAssumption
<1>4. entry \in Entry /\ request \in Request /\ request.id = nextId
      /\ request.kind = "task"
  BY <1>1, <1>3 DEF Entry, TaskRequest, Request
<1> HIDE DEF entry, request
<1>5. /\ added \in Storage /\ added.entries = storage.entries \cup {entry}
      /\ added.pending = storage.pending
  BY <1>1, <1>4 DEF Repo!AddEntry, Storage
<1>6. IsFiniteSet(added.entries)
  BY <1>1, <1>5, FS_AddElement
<1> HIDE DEF added
<1>7. /\ st \in Storage
      /\ st.entries = added.entries
      /\ storage.pending \subseteq st.pending
      /\ shared => st.pending \subseteq storage.pending \cup {request}
                   /\ nextId \in IdsOf(st.pending)
      /\ ~shared => st.pending = storage.pending
  <2>1. CASE shared
    BY <1>4, <1>5, <2>1, QueueEventTyped
  <2>2. CASE ~shared
    BY <1>5, <2>2
  <2> QED BY <2>1, <2>2
<1> HIDE DEF st, shared
<1>8. \A p : p = request => Sound(p)' /\ p.id >= nextId
  BY <1>1, <1>2, <1>4 DEF Sound
<1>9. /\ \A p \in st.pending \ storage.pending : Sound(p)' /\ p.id >= nextId
      /\ \A p, q \in st.pending \ storage.pending : p = q
  BY <1>7, <1>8
<1>10. \A id \in sampled' \ sampled :
         id >= nextId /\ id < nextId' /\ id \in IdsOf(st.pending)
  BY <1>1, <1>2, <1>7
<1>11. nextId' \in Nat /\ nextId' >= nextId
  BY <1>1, <1>2
<1>12. \A id \in IdsOf(storage.pending) : id \in IdsOf(st.pending)
  BY <1>7 DEF IdsOf
<1>13. sampled \subseteq sampled' /\ sampled' \subseteq Nat
  BY <1>1, <1>2
<1>14. Turn(t, st)
  BY <1>1, <1>2, <1>6, <1>7, <1>9, <1>10, <1>11, <1>12, <1>13 DEF Turn
<1> QED BY <1>14
\* So do a reward and a finished cycle.
LEMMA UserCompleteCycle ==
  ASSUME IInv, NEW t \in Tabs, CompleteCycle(t)
  PROVE  \E s : Turn(t, s)
PROOF
<1> DEFINE shared == view[t].consent = "share"
           request == RewardRequest(nextId, Repo!TotalScore(view[t]))
           queued == IF shared THEN Repo!QueueEvent(storage, request) ELSE storage
           st == Repo!CompleteCycle(queued, nextId + 1)
<1>1. /\ storage \in Storage /\ IsFiniteSet(storage.entries)
      /\ nextId \in Nat /\ open \subseteq Tabs
      /\ sampled \subseteq Nat /\ retracted \subseteq Nat
  BY DEF IInv, TypeOK, EntriesFinite
<1>2. /\ nextId' = nextId + 2
      /\ Refreshed(t, st)
      /\ FlushPendingEvents(t, st)
      /\ sampled' = IF shared THEN sampled \cup {nextId} ELSE sampled
      /\ UNCHANGED <<open, online, retracted, refused, overtaken, serverVars>>
  BY DEF CompleteCycle
<1>3. request \in Request /\ request.id = nextId /\ request.kind = "reward"
  <2> DEFINE inRange == Repo!TotalScore(view[t]) \in -1000..2000
  <2>1. inRange \in BOOLEAN
    OBVIOUS
  <2>2. request = [kind |-> "reward", id |-> nextId, inRange |-> inRange]
    BY DEF RewardRequest
  <2> HIDE DEF inRange, request
  <2> QED BY <1>1, <2>1, <2>2 DEF Request
<1> HIDE DEF request
<1>4. /\ queued \in Storage
      /\ storage.pending \subseteq queued.pending
      /\ shared => queued.pending \subseteq storage.pending \cup {request}
                   /\ nextId \in IdsOf(queued.pending)
      /\ ~shared => queued.pending = storage.pending
  <2>1. CASE shared
    BY <1>1, <1>3, <2>1, QueueEventTyped
  <2>2. CASE ~shared
    BY <1>1, <2>2
  <2> QED BY <2>1, <2>2
<1> HIDE DEF queued
<1>5. st \in Storage /\ st.entries = {} /\ st.pending = queued.pending
  <2> DEFINE cycle == [id |-> nextId + 1, entries |-> queued.entries]
             filed == [queued EXCEPT !.history = Repo!Newest(@ \cup {cycle})]
  <2>1. cycle \in [id : Nat, entries : SUBSET Entry]
    BY <1>1, <1>4 DEF Storage
  <2> HIDE DEF cycle
  <2>2. filed \in Storage /\ filed.pending = queued.pending
    BY <1>4, <2>1 DEF Storage, Repo!Newest
  <2>3. st = Repo!EmptyCycle(filed)
    BY DEF Repo!CompleteCycle, cycle
  <2> HIDE DEF filed
  <2> QED BY <2>2, <2>3, EmptyCycleTyped
<1> HIDE DEF st, shared
<1>6. IsFiniteSet(st.entries)
  BY <1>5, FS_EmptySet
<1>7. \A p : p = request => Sound(p)' /\ p.id >= nextId
  BY <1>1, <1>2, <1>3 DEF Sound
<1>8. /\ \A p \in st.pending \ storage.pending : Sound(p)' /\ p.id >= nextId
      /\ \A p, q \in st.pending \ storage.pending : p = q
  BY <1>4, <1>5, <1>7
<1>9. \A id \in sampled' \ sampled :
        id >= nextId /\ id < nextId' /\ id \in IdsOf(st.pending)
  BY <1>1, <1>2, <1>4, <1>5
<1>10. nextId' \in Nat /\ nextId' >= nextId
  BY <1>1, <1>2
<1>11. \A id \in IdsOf(storage.pending) : id \in IdsOf(st.pending)
  BY <1>4, <1>5 DEF IdsOf
<1>12. sampled \subseteq sampled' /\ sampled' \subseteq Nat
  BY <1>1, <1>2
<1>13. Turn(t, st)
  BY <1>1, <1>2, <1>5, <1>6, <1>8, <1>9, <1>10, <1>11, <1>12 DEF Turn
<1> QED BY <1>13

\* The rest of the turn of undo, delete and reset: what they drop from the
\* outbox the user has taken back, and the deletion is not a sample.
LEMMA TakeBackTurn ==
  ASSUME IInv, NEW t \in Tabs, NEW st \in Storage, IsFiniteSet(st.entries),
         NEW eventIds \in SUBSET Nat, TakeBack(t, st, eventIds),
         retracted \subseteq retracted', retracted' \subseteq Nat,
         eventIds \subseteq retracted',
         st.pending \subseteq storage.pending,
         \A id \in IdsOf(storage.pending) : id \in IdsOf(st.pending) \cup retracted'
  PROVE  \E s : Turn(t, s)
PROOF
<1> DEFINE request == DeleteRequest(nextId, eventIds)
           queued == QueueTaskDeletion(st, eventIds)
<1>1. /\ nextId \in Nat /\ open \subseteq Tabs /\ sampled \subseteq Nat
  BY DEF IInv, TypeOK
<1>2. /\ nextId' = IF eventIds = {} THEN nextId ELSE nextId + 1
      /\ Refreshed(t, queued)
      /\ FlushPendingEvents(t, queued)
      /\ UNCHANGED <<open, online, sampled, refused, overtaken, serverVars>>
  BY DEF TakeBack
<1>3. /\ request \in Request /\ request.id = nextId
      /\ request.kind = "task_delete" /\ request.eventIds = eventIds
  BY <1>1 DEF DeleteRequest, Request
<1> HIDE DEF request
<1>4. /\ queued \in Storage
      /\ queued.entries = st.entries
      /\ st.pending \subseteq queued.pending
      /\ eventIds # {} => queued.pending \subseteq st.pending \cup {request}
      /\ eventIds = {} => queued.pending = st.pending
  <2>1. CASE eventIds = {}
    BY <2>1 DEF QueueTaskDeletion
  <2>2. CASE eventIds # {}
    <3>1. queued = Repo!QueueEvent(st, request)
      BY <2>2 DEF QueueTaskDeletion, request
    <3> HIDE DEF queued
    <3> QED BY <1>3, <2>2, <3>1, QueueEventTyped
  <2> QED BY <2>1, <2>2
<1> HIDE DEF queued
<1>5. \A p : p = request /\ eventIds # {} => Sound(p)' /\ p.id >= nextId
  <2>1. nextId \notin sampled
    BY <1>1 DEF IInv, SampledBefore
  <2>2. ASSUME eventIds # {}
        PROVE  nextId < nextId' /\ nextId \notin sampled' /\ eventIds \subseteq retracted'
    <3>1. nextId' = nextId + 1
      BY <1>2, <2>2
    <3>2. sampled' = sampled
      BY <1>2
    <3>3. nextId < nextId'
      BY <1>1, <3>1
    <3> QED BY <2>1, <3>2, <3>3
  <2>3. \A p : p = request /\ eventIds # {} => Sound(p)'
    BY <1>3, <2>2 DEF Sound
  <2>4. request.id >= nextId
    BY <1>1, <1>3
  <2> QED BY <2>3, <2>4
<1>6. /\ \A p \in queued.pending \ storage.pending : Sound(p)' /\ p.id >= nextId
      /\ \A p, q \in queued.pending \ storage.pending : p = q
  BY <1>4, <1>5
<1>7. nextId' \in Nat /\ nextId' >= nextId
  BY <1>1, <1>2
<1>8. \A id \in IdsOf(storage.pending) : id \in IdsOf(queued.pending) \cup retracted'
  BY <1>4 DEF IdsOf
<1>9. sampled' = sampled
  BY <1>2
<1>10. Turn(t, queued)
  BY <1>1, <1>2, <1>4, <1>6, <1>7, <1>8, <1>9 DEF Turn
<1> QED BY <1>10

LEMMA UserTakesBack ==
  ASSUME IInv, NEW t \in Tabs,
         \/ UndoLastEntry(t)
         \/ \E id \in IdsOf(view[t].entries) : DeleteEntry(t, id)
         \/ ResetCycle(t)
  PROVE  \E s : Turn(t, s)
PROOF
<1>1. /\ storage \in Storage /\ IsFiniteSet(storage.entries)
      /\ storage.entries \in SUBSET Entry /\ view[t].entries \in SUBSET Entry
      /\ storage.initialRing \in RingsBefore
      /\ retracted \subseteq Nat
  BY DEF IInv, TypeOK, EntriesFinite, Storage, View
<1>2. \A S \in SUBSET Entry : IdsOf(S) \subseteq Nat
  BY DEF Entry, IdsOf
<1>3. ASSUME NEW removed \in storage.entries,
             TakeBack(t, Repo!UndoEntry(storage, removed), {removed.id}),
             retracted' = retracted \cup {removed.id}
      PROVE  \E s : Turn(t, s)
  <2> DEFINE st == Repo!UndoEntry(storage, removed)
             less == [storage EXCEPT !.entries = @ \ {removed}]
  <2>1. removed.id \in Nat
    BY <1>1 DEF Entry
  <2>2. /\ less \in Storage /\ less.entries = storage.entries \ {removed}
        /\ less.pending = storage.pending
    BY <1>1 DEF Storage
  <2>3. st = [less EXCEPT !.pending = Repo!Without(@, {removed.id})]
    BY <1>1 DEF Repo!UndoEntry, Storage
  <2> HIDE DEF less, st
  <2>4. st \in Storage /\ st.entries = storage.entries \ {removed}
        /\ st.pending = {p \in storage.pending : p.id \notin {removed.id}}
    BY <2>2, <2>3 DEF Storage, Repo!Without
  <2>5. IsFiniteSet(st.entries)
    BY <1>1, <2>4, FS_Subset
  <2>6. \A id \in IdsOf(storage.pending) : id \in IdsOf(st.pending) \cup retracted'
    BY <1>3, <2>4 DEF IdsOf
  <2>7. TakeBack(t, st, {removed.id})
    BY <1>3 DEF st
  <2>8. {removed.id} \in SUBSET Nat /\ retracted \subseteq retracted'
        /\ retracted' \subseteq Nat /\ {removed.id} \subseteq retracted'
    BY <1>1, <1>3, <2>1
  <2> QED BY <2>4, <2>5, <2>6, <2>7, <2>8, TakeBackTurn
<1>4. ASSUME NEW id \in IdsOf(view[t].entries), DeleteEntry(t, id) PROVE \E s : Turn(t, s)
  <2> DEFINE st == Repo!DeleteEntry(storage, id)
             kept == {x \in storage.entries : x.id # id}
             new == Repo!Renumbered(kept, storage.initialRing)
             less == [storage EXCEPT !.entries = new]
  <2>1. id \in Nat
    BY <1>1, <1>2
  <2>2. kept \in SUBSET Entry /\ IsFiniteSet(kept)
    BY <1>1, FS_Subset
  <2> HIDE DEF kept
  <2>3. new \in SUBSET Entry /\ IsFiniteSet(new)
    BY <1>1, <2>2, RenumberedTyped
  <2>4. st = [storage EXCEPT !.entries = new, !.pending = Repo!Without(@, {id})]
    BY DEF Repo!DeleteEntry, kept
  <2> HIDE DEF new
  <2>5. less \in Storage /\ less.entries = new /\ less.pending = storage.pending
    BY <1>1, <2>3 DEF Storage
  <2>6. st = [less EXCEPT !.pending = Repo!Without(@, {id})]
    BY <1>1, <2>4 DEF Storage
  <2> HIDE DEF less, st
  <2>7. st \in Storage /\ st.entries = new
        /\ st.pending = {p \in storage.pending : p.id \notin {id}}
    BY <2>5, <2>6 DEF Storage, Repo!Without
  <2>8. retracted' = retracted \cup {id} /\ TakeBack(t, st, {id})
    BY <1>4 DEF DeleteEntry, st
  <2>9. \A i \in IdsOf(storage.pending) : i \in IdsOf(st.pending) \cup retracted'
    BY <2>7, <2>8 DEF IdsOf
  <2>10. {id} \in SUBSET Nat /\ retracted \subseteq retracted'
         /\ retracted' \subseteq Nat /\ {id} \subseteq retracted'
    BY <1>1, <2>1, <2>8
  <2> QED BY <2>3, <2>7, <2>8, <2>9, <2>10, TakeBackTurn
<1>5. CASE ResetCycle(t)
  <2> DEFINE st == Repo!ResetCurrent(storage)
             eventIds == IdsOf(view[t].entries)
             dropped == IdsOf(storage.entries)
             less == [storage EXCEPT !.pending =
                        {p \in @ : p.kind # "task" \/ p.id \notin dropped}]
  <2>1. less \in Storage
        /\ less.pending = {p \in storage.pending : p.kind # "task" \/ p.id \notin dropped}
    BY <1>1 DEF Storage
  <2>2. st = Repo!EmptyCycle(less)
    BY DEF Repo!ResetCurrent, Repo!IdsOf, IdsOf
  <2> HIDE DEF less, st
  <2>3. st \in Storage /\ st.entries = {} /\ st.pending = less.pending
    BY <2>1, <2>2, EmptyCycleTyped
  <2>4. retracted' = retracted \cup eventIds \cup dropped /\ TakeBack(t, st, eventIds)
    BY <1>5 DEF ResetCycle, st
  <2>5. \A i \in IdsOf(storage.pending) : i \in IdsOf(st.pending) \cup retracted'
    BY <2>1, <2>3, <2>4 DEF IdsOf
  <2>6. eventIds \in SUBSET Nat /\ retracted \subseteq retracted'
        /\ retracted' \subseteq Nat /\ eventIds \subseteq retracted'
    BY <1>1, <1>2, <2>4
  <2>7. IsFiniteSet(st.entries) /\ st.pending \subseteq storage.pending
    BY <2>1, <2>3, FS_EmptySet
  <2> HIDE DEF eventIds, dropped
  <2> QED BY <2>3, <2>4, <2>5, <2>6, <2>7, TakeBackTurn
<1>6. CASE storage.entries = {} /\ Refresh(t)
  BY <1>6, UserSettings
<1> QED BY <1>3, <1>4, <1>5, <1>6 DEF UndoLastEntry
-----------------------------------------------------------------------------
\* All a user does is a turn, or closes the tab.
LEMMA UserTurns ==
  ASSUME IInv, NEW t \in Tabs, User(t)
  PROVE  CloseTab(t) \/ \E st : Turn(t, st)
PROOF
<1>1. CASE \/ OpenTab(t) \/ Refresh(t)
           \/ \E value \in {"share", "local"} : ChooseConsent(t, value)
           \/ \E ring \in RingInputs, score \in ScoreInputs :
                UpdateCycleSetup(t, ring, score)
           \/ \E id \in IdsOf(storage.history) : DeleteHistory(t, id)
  BY <1>1, UserSettings
<1>2. CASE \E result \in Results : AddEntry(t, result)
  BY <1>2, UserAddEntry
<1>3. CASE \/ UndoLastEntry(t)
           \/ \E id \in IdsOf(view[t].entries) : DeleteEntry(t, id)
           \/ ResetCycle(t)
  BY <1>3, UserTakesBack
<1>4. CASE CompleteCycle(t)
  BY <1>4, UserCompleteCycle
<1> QED BY <1>1, <1>2, <1>3, <1>4 DEF User
-----------------------------------------------------------------------------
\* Steps that only end activations, lose messages or answer with an error.
LEMMA QuietNetwork ==
  ASSUME IInv, UNCHANGED <<storage, view, nextId, history, serverVars>>,
         open' \subseteq Tabs, online' \in BOOLEAN,
         flush' \in [Flushes -> Activation], wire' \in [Flushes -> Transfer],
         \A f \in Flushes : flush'[f] = flush[f] \/ flush'[f] = Idle,
         \A f \in Flushes :
           \/ wire'[f] = wire[f]
           \/ wire'[f] = Silence
           \/ wire[f].phase # "idle" /\ wire'[f] = Answer(wire[f].event, "error")
  PROVE  IInv'
PROOF
<1>1. TypeOK'
  BY DEF IInv, TypeOK, history, serverVars
<1>2. EntriesFinite' /\ SampledBefore' /\ NoSampleLost'
  BY DEF IInv, EntriesFinite, SampledBefore, NoSampleLost, StoredIds, history, serverVars
<1>3. \A e : Sound(e) => Sound(e)'
  BY DEF Sound, history
<1>4. RequestsSound'
  <2>1. \A p \in storage'.pending : Sound(p)'
    BY <1>3 DEF IInv, RequestsSound
  <2>2. ASSUME NEW f \in Flushes, Waiting(f)'
        PROVE  Sound(flush[f].event)' /\ \A e \in flush'[f].rest : Sound(e)'
    BY <1>3, <2>2 DEF IInv, RequestsSound, Waiting, Idle, Sound
  <2>3. ASSUME NEW f \in Flushes, wire'[f].phase # "idle"
        PROVE  Sound(wire[f].event)'
    BY <1>3, <2>3 DEF IInv, RequestsSound, Silence, Answer, Sound
  <2> QED BY <2>1, <2>2, <2>3 DEF RequestsSound
<1>5. AnswersTrue'
  <2>1. ASSUME NEW f \in Flushes, wire'[f].phase = "answer", Settles(wire'[f].status)
        PROVE  wire'[f] = wire[f]
    BY <2>1 DEF Silence, Answer, Settles
  <2>2. StoredIds' = StoredIds /\ retracted' = retracted /\ refused' = refused
    BY DEF StoredIds, history, serverVars
  <2> QED BY <2>1, <2>2 DEF IInv, AnswersTrue
<1> QED BY <1>1, <1>2, <1>4, <1>5 DEF IInv

LEMMA AbandonTyped ==
  ASSUME TypeOK, NEW F, Abandon(F)
  PROVE  /\ flush' \in [Flushes -> Activation] /\ wire' \in [Flushes -> Transfer]
         /\ \A f \in Flushes : flush'[f] = flush[f] \/ flush'[f] = Idle
         /\ \A f \in Flushes : wire'[f] = wire[f] \/ wire'[f] = Silence
PROOF
BY DEF Abandon, TypeOK, Activation, Transfer

\* The tab is closed, the connection changes, a fetch fails, a message is
\* lost, or the proxy answers.
LEMMA Failures ==
  ASSUME IInv,
         \/ \E t \in Tabs : CloseTab(t)
         \/ GoOffline \/ GoOnline
         \/ \E f \in Flushes : FetchFails(f) \/ Lose(f) \/ GatewayFails(f)
  PROVE  IInv'
PROOF
<1>1. /\ TypeOK /\ open \subseteq Tabs /\ online \in BOOLEAN
      /\ flush \in [Flushes -> Activation] /\ wire \in [Flushes -> Transfer]
  BY DEF IInv, TypeOK
<1>2. ASSUME NEW t \in Tabs, CloseTab(t) PROVE IInv'
  <2>1. PICK F : Abandon(F)
    BY <1>2 DEF CloseTab
  <2> QED BY <1>1, <1>2, <2>1, AbandonTyped, QuietNetwork DEF CloseTab
<1>3. CASE GoOffline \/ GoOnline
  BY <1>1, <1>3, QuietNetwork DEF GoOffline, GoOnline, syncVars
<1>4. ASSUME NEW f \in Flushes, FetchFails(f) PROVE IInv'
  BY <1>1, <1>4, AbandonTyped, QuietNetwork DEF FetchFails
<1>5. ASSUME NEW f \in Flushes, Lose(f) PROVE IInv'
  <2>1. Silence \in Transfer
    BY DEF Transfer
  <2> QED BY <1>1, <1>5, <2>1, QuietNetwork DEF Lose
<1>6. ASSUME NEW f \in Flushes, GatewayFails(f) PROVE IInv'
  <2>1. wire[f].event \in Request
    BY <1>1, <1>6 DEF GatewayFails, Transfer, Silence
  <2>2. Answer(wire[f].event, "error") \in Transfer
    BY <2>1 DEF Answer, Transfer, Statuses
  <2>3. wire' = [wire EXCEPT ![f] = Answer(wire[f].event, "error")]
    BY <1>6 DEF GatewayFails, Reply
  <2> QED BY <1>1, <1>6, <2>2, <2>3, QuietNetwork DEF GatewayFails
<1> QED BY <1>2, <1>3, <1>4, <1>5, <1>6
\* The loop goes on after an answer: a sample that leaves the outbox for it
\* is stored or refused, and a deletion is no sample.
LEMMA ReceiveKeepsIInv ==
  ASSUME IInv, NEW f \in Flushes, Receive(f)
  PROVE  IInv'
PROOF
<1> DEFINE answer == wire[f]
           t == flush[f].tab
           removed == {p \in storage.pending : p.id \notin {answer.event.id}}
<1>1. /\ TypeOK /\ storage \in Storage
      /\ flush[f] \in Activation /\ wire[f] \in Transfer
      /\ nextId \in Nat
  BY DEF IInv, TypeOK
<1>2. t \in Tabs /\ flush[f].rest \in SUBSET Request
  BY <1>1 DEF Receive, Waiting, Activation, Idle
<1>3. /\ flush' \in [Flushes -> Activation]
      /\ wire' \in [Flushes -> Transfer]
      /\ \A g \in Flushes : g # f => flush'[g] = flush[g] /\ wire'[g] = wire[g]
      /\ \/ flush'[f] = Idle /\ wire'[f] = Silence
         \/ /\ flush'[f].event \in flush[f].rest
            /\ flush'[f].rest \subseteq flush[f].rest
            /\ wire'[f] = Posted(flush'[f].event)
  BY <1>1, <1>2, LoopTyped DEF Receive
<1>4. /\ storage' \in Storage
      /\ storage'.entries = storage.entries
      /\ storage'.pending \subseteq storage.pending
      /\ \A id \in IdsOf(storage.pending) :
           id \in IdsOf(storage'.pending) \/ (id = answer.event.id /\ Settles(answer.status))
  <2>1. CASE Settles(answer.status)
    <3>1. storage' = [storage EXCEPT !.pending = removed]
      BY <2>1 DEF Receive, Repo!RemovePendingEvent, Repo!Without
    <3>2. storage' \in Storage /\ storage'.entries = storage.entries
          /\ storage'.pending = removed
      BY <1>1, <3>1 DEF Storage
    <3> QED BY <2>1, <3>2 DEF IdsOf
  <2>2. CASE ~Settles(answer.status)
    BY <1>1, <2>2 DEF Receive
  <2> QED BY <2>1, <2>2
<1>5. TypeOK'
  BY <1>1, <1>3, <1>4 DEF Receive, TypeOK, history, serverVars
<1>6. EntriesFinite' /\ SampledBefore'
  BY <1>4 DEF Receive, IInv, EntriesFinite, SampledBefore, history
<1>7. \A e : Sound(e) => Sound(e)'
  BY DEF Receive, Sound, history
<1>8. RequestsSound'
  <2>1. \A p \in storage'.pending : Sound(p)'
    BY <1>4, <1>7 DEF IInv, RequestsSound
  <2>2. \A e \in flush[f].rest : Sound(e)'
    BY <1>7 DEF Receive, IInv, RequestsSound
  <2>3. ASSUME NEW g \in Flushes, Waiting(g)'
        PROVE  Sound(flush[g].event)' /\ \A e \in flush'[g].rest : Sound(e)'
    BY <1>3, <1>7, <2>2, <2>3 DEF IInv, RequestsSound, Waiting, Idle, Sound
  <2>4. ASSUME NEW g \in Flushes, wire'[g].phase # "idle"
        PROVE  Sound(wire[g].event)'
    BY <1>3, <1>7, <2>2, <2>4 DEF IInv, RequestsSound, Silence, Posted, Sound
  <2> QED BY <2>1, <2>3, <2>4 DEF RequestsSound
<1>9. /\ StoredIds' = StoredIds /\ retracted' = retracted
      /\ refused' = refused /\ sampled' = sampled
  BY DEF Receive, StoredIds, history, serverVars
<1>10. AnswersTrue'
  <2>1. ASSUME NEW g \in Flushes, wire'[g].phase = "answer" PROVE wire'[g] = wire[g]
    BY <1>3, <2>1 DEF Silence, Posted
  <2> QED BY <1>9, <2>1 DEF IInv, AnswersTrue
<1>11. NoSampleLost'
  <2>1. ASSUME NEW id \in sampled \ retracted, id = answer.event.id, Settles(answer.status)
        PROVE  id \in StoredIds \cup refused
    <3>1. Sound(answer.event)
      BY DEF IInv, RequestsSound, Receive
    <3>2. IsSample(answer.event)
      BY <2>1, <3>1 DEF Sound, IsSample
    <3> QED BY <2>1, <3>2 DEF IInv, AnswersTrue, Receive
  <2> QED BY <1>4, <1>9, <2>1 DEF IInv, NoSampleLost
<1> QED BY <1>5, <1>6, <1>8, <1>10, <1>11 DEF IInv

\* A handler forgets only the rows a deletion names, and a sample it answers
\* with 2xx or 409 is a row of one of the tables.
LEMMA HandleKeepsRows ==
  ASSUME TypeOK, NEW event \in Request, NEW status \in Statuses, Handle(event, status)
  PROVE  /\ tasks' \subseteq [id : Nat, ringNumber : 1..LastRing, result : RingResult]
         /\ rewards' \subseteq [id : Nat]
         /\ \A id \in StoredIds :
              id \in StoredIds' \/ (event.kind = "task_delete" /\ id \in event.eventIds)
         /\ IsSample(event) /\ status \in {"ok", "duplicate"} => event.id \in StoredIds'
PROOF
<1>1. CASE status # "ok" /\ UNCHANGED serverVars
  <2>1. StoredIds' = StoredIds /\ tasks' = tasks /\ rewards' = rewards
    BY <1>1 DEF StoredIds, serverVars
  <2>2. ASSUME status = "duplicate" PROVE event.id \in StoredIds
    BY <2>2 DEF Handle, TaskEvent, RewardEvent, DeleteTaskEvents, StoredIds
  <2> QED BY <1>1, <2>1, <2>2 DEF TypeOK
<1>2. CASE event.kind = "task" /\ status = "ok" /\ TaskEvent(event, status)
  <2>1. /\ tasks' = tasks \cup {TaskRow(event)} /\ rewards' = rewards
        /\ event.ringNumber \in 1..LastRing
    BY <1>2 DEF TaskEvent, ValidTask
  <2>2. event.id \in Nat /\ event.result \in RingResult
    BY <1>2 DEF Request
  <2>3. /\ TaskRow(event) \in [id : Nat, ringNumber : 1..LastRing, result : RingResult]
        /\ TaskRow(event).id = event.id
    BY <2>1, <2>2 DEF TaskRow
  <2> QED BY <2>1, <2>3 DEF TypeOK, StoredIds, IdsOf
<1>3. CASE event.kind = "reward" /\ status = "ok" /\ RewardEvent(event, status)
  <2>1. rewards' = rewards \cup {RewardRow(event)} /\ tasks' = tasks
    BY <1>3 DEF RewardEvent
  <2>2. RewardRow(event) \in [id : Nat] /\ RewardRow(event).id = event.id
    BY <1>3 DEF RewardRow, Request
  <2> QED BY <2>1, <2>2 DEF TypeOK, StoredIds, IdsOf
<1>4. CASE event.kind = "task_delete" /\ status = "ok" /\ DeleteTaskEvents(event, status)
  <2>1. tasks' = {row \in tasks : row.id \notin event.eventIds} /\ rewards' = rewards
    BY <1>4 DEF DeleteTaskEvents
  <2> QED BY <1>4, <2>1 DEF TypeOK, StoredIds, IdsOf, IsSample
<1> QED BY <1>1, <1>2, <1>3, <1>4 DEF Handle, TaskEvent, DeleteTaskEvents, RewardEvent
LEMMA DeliverKeepsIInv ==
  ASSUME IInv, NEW f \in Flushes, NEW status \in Statuses, Deliver(f, status)
  PROVE  IInv'
PROOF
<1> DEFINE event == wire[f].event
<1>1. /\ TypeOK /\ wire[f] \in Transfer /\ wire[f].phase = "request"
      /\ Handle(event, status)
      /\ UNCHANGED <<storage, view, open, online, flush, nextId, sampled, retracted>>
  BY DEF IInv, TypeOK, Deliver
<1>2. event \in Request /\ Sound(event) /\ event.id \in Nat
  BY <1>1 DEF IInv, RequestsSound, Sound, Request
<1>3. /\ tasks' \subseteq [id : Nat, ringNumber : 1..LastRing, result : RingResult]
      /\ rewards' \subseteq [id : Nat]
      /\ \A id \in StoredIds :
           id \in StoredIds' \/ (event.kind = "task_delete" /\ id \in event.eventIds)
      /\ IsSample(event) /\ status \in {"ok", "duplicate"} => event.id \in StoredIds'
  BY <1>1, <1>2, HandleKeepsRows
<1>4. \A id \in StoredIds : id \in StoredIds' \cup retracted
  BY <1>2, <1>3 DEF Sound
<1>5. refused' = IF IsSample(event) /\ status = "rejected"
                 THEN refused \cup {event.id} ELSE refused
  BY DEF Deliver
<1>6. overtaken' \subseteq Nat
  <2>1. overtaken \subseteq Nat
    BY <1>1 DEF TypeOK
  <2>2. ~IsSample(event) => event.eventIds \subseteq Nat
    BY <1>2 DEF IsSample, Request
  <2> QED BY <2>1, <2>2 DEF Deliver
<1>7. wire' = [wire EXCEPT ![f] = Silence] \/ wire' = [wire EXCEPT ![f] = Answer(event, status)]
  BY DEF Deliver, Reply
<1>8. wire' \in [Flushes -> Transfer]
  <2>1. Silence \in Transfer /\ Answer(event, status) \in Transfer
    BY <1>2 DEF Transfer, Answer
  <2> HIDE DEF event
  <2> QED BY <1>1, <1>7, <2>1 DEF TypeOK
<1>9. \A g \in Flushes :
        \/ g # f /\ wire'[g] = wire[g]
        \/ g = f /\ wire'[g] = Silence
        \/ g = f /\ wire'[g] = Answer(event, status)
  BY <1>1, <1>7 DEF TypeOK
<1>10. TypeOK'
  BY <1>1, <1>2, <1>3, <1>5, <1>6, <1>8 DEF TypeOK
<1>11. EntriesFinite' /\ SampledBefore'
  BY <1>1 DEF IInv, EntriesFinite, SampledBefore
<1>12. \A e : Sound(e) => Sound(e)'
  BY <1>1 DEF Sound
<1>13. RequestsSound'
  <2>1. \A p \in storage'.pending : Sound(p)'
    BY <1>1, <1>12 DEF IInv, RequestsSound
  <2>2. ASSUME NEW g \in Flushes, Waiting(g)'
        PROVE  Sound(flush[g].event)' /\ \A e \in flush'[g].rest : Sound(e)'
    BY <1>1, <1>12, <2>2 DEF IInv, RequestsSound, Waiting, Sound
  <2>3. ASSUME NEW g \in Flushes, wire'[g].phase # "idle"
        PROVE  Sound(wire[g].event)'
    BY <1>1, <1>2, <1>9, <1>12, <2>3 DEF IInv, RequestsSound, Silence, Answer, Sound
  <2> QED BY <2>1, <2>2, <2>3 DEF RequestsSound
<1>14. AnswersTrue'
  <2>1. ASSUME NEW g \in Flushes, g # f, wire[g].phase = "answer",
               IsSample(wire[g].event), Settles(wire[g].status)
        PROVE  wire[g].event.id \in retracted \cup StoredIds' \cup refused'
    BY <1>4, <1>5, <2>1 DEF IInv, AnswersTrue
  <2>2. ASSUME IsSample(event), Settles(status)
        PROVE  event.id \in StoredIds' \cup refused'
    BY <1>3, <1>5, <2>2 DEF Settles
  <2> QED BY <1>1, <1>9, <2>1, <2>2 DEF AnswersTrue, Silence, Answer
<1>15. NoSampleLost'
  BY <1>1, <1>4, <1>5 DEF IInv, NoSampleLost
<1> QED BY <1>10, <1>11, <1>13, <1>14, <1>15 DEF IInv

-----------------------------------------------------------------------------
LEMMA InitIInv == Init => IInv
PROOF
<1> SUFFICES ASSUME Init PROVE IInv
  OBVIOUS
<1>1. Repo!DefaultState \in Storage /\ Seen(Repo!DefaultState) \in View
  BY LastRingAssumption
     DEF Repo!DefaultState, Repo!Consents, Seen, Storage, View, RingsBefore
<1>2. Idle \in Activation /\ Silence \in Transfer
  BY DEF Activation, Transfer
<1>3. TypeOK
  BY <1>1, <1>2 DEF Init, ServerInit, TypeOK
<1>4. EntriesFinite
  BY FS_EmptySet DEF Init, EntriesFinite, Repo!DefaultState, Seen
<1>5. SampledBefore /\ RequestsSound /\ AnswersTrue /\ NoSampleLost
  BY DEF Init, SampledBefore, RequestsSound, AnswersTrue, NoSampleLost,
         Repo!DefaultState, Waiting, Idle, Silence
<1> QED BY <1>3, <1>4, <1>5 DEF IInv

LEMMA NextIInv == IInv /\ [Next]_vars => IInv'
PROOF
<1> SUFFICES ASSUME IInv, [Next]_vars PROVE IInv'
  OBVIOUS
<1>1. ASSUME NEW t \in Tabs, User(t) PROVE IInv'
  <2>1. CASE CloseTab(t)
    BY <2>1, Failures
  <2>2. CASE \E st : Turn(t, st)
    BY <2>2, TurnKeepsIInv
  <2> QED BY <1>1, <2>1, <2>2, UserTurns
<1>2. ASSUME NEW f \in Flushes, Network(f) PROVE IInv'
  <2>1. CASE Receive(f)
    BY <2>1, ReceiveKeepsIInv
  <2>2. CASE FetchFails(f) \/ Lose(f) \/ GatewayFails(f)
    BY <2>2, Failures
  <2>3. CASE \E status \in Statuses : Deliver(f, status)
    BY <2>3, DeliverKeepsIInv
  <2> QED BY <1>2, <2>1, <2>2, <2>3 DEF Network
<1>3. CASE GoOffline \/ GoOnline
  BY <1>3, Failures
<1>4. CASE UNCHANGED vars
  <2>1. UNCHANGED <<storage, view, open, online, flush, wire, nextId, history, serverVars>>
    BY <1>4 DEF vars
  <2>2. /\ open \subseteq Tabs /\ online \in BOOLEAN
        /\ flush \in [Flushes -> Activation] /\ wire \in [Flushes -> Transfer]
    BY DEF IInv, TypeOK
  <2> QED BY <2>1, <2>2, QuietNetwork
<1> QED BY <1>1, <1>2, <1>3, <1>4 DEF Next

\* The strengthening holds in every reachable state.
THEOREM Inductive == Spec => []IInv
PROOF
<1> QED BY InitIInv, NextIInv, PTL DEF Spec

\* The whole state is typed: the clamp in updateCycleSetup and the guards of
\* addEntry keep the ring numbers in range, and the server holds no ring
\* number outside the cycle.
THEOREM Typed == Spec => []TypeOK
PROOF
<1>1. IInv => TypeOK
  BY DEF IInv
<1> QED BY <1>1, Inductive, PTL

\* flushPendingEvents never drops a sample that is neither stored nor refused
\* nor taken back: with any number of tabs and of activations, with requests
\* and answers lost, delayed, answered by the proxy or by the limiter, and
\* with tabs closed at any moment.
THEOREM NoLoss == Spec => []NoSampleLost
PROOF
<1>1. IInv => NoSampleLost
  BY DEF IInv
<1> QED BY <1>1, Inductive, PTL
=============================================================================
