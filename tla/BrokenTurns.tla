---------------------------- MODULE BrokenTurns ----------------------------
(***************************************************************************)
(* A page whose writes can fail.  Every repository operation (storage.mjs) *)
(* writes localStorage once, and a handler of the page (app.mjs) may call  *)
(* several.  setItem throws when the quota is reached, and the handler     *)
(* ends there: what it wrote stays, what it had still to do is not done,   *)
(* and `state` is what it was, since nothing loads it again.               *)
(*                                                                         *)
(* A turn is given by the stored states it writes, and breaks off after    *)
(* any number of them.  A page that is killed between two writes and       *)
(* opened again is a broken turn and Open.  There is one tab; the outbox   *)
(* is emptied by Sent, whatever the answer was (EventSync has the rest).   *)
(***************************************************************************)
EXTENDS Events, FiniteSets, Sequences

CONSTANTS
  Results,      \* what the rings of a cycle may end with
  RingInputs,   \* what is typed into the initial-ring field, clamped
  MaxHistory,
  MaxId         \* bound: identifiers drawn in a behaviour

ASSUME BrokenTurnsAssumption ==
  /\ Results \subseteq RingResult
  /\ RingInputs \subseteq 0..(LastRing - 1)
  /\ MaxHistory \in Nat
  /\ MaxId \in Nat

Repo == INSTANCE Repository

VARIABLES
  storage,    \* localStorage
  view,       \* the module variable `state`
  nextId,     \* the next identifier createID draws
  recorded,   \* history: ids of the rings ever stored
  removed,    \* history: ids of the rings undone, deleted or reset
  shared,     \* history: ids of the cycles completed by a page that shares
  reported    \* history: ids of the rewards ever queued

histories == <<recorded, removed, shared, reported>>
vars == <<storage, view, nextId, histories>>

Seen(st) == [consent |-> st.consent, initialRing |-> st.initialRing,
             entries |-> st.entries]

\* currentTotals().ring
Ring(v) ==
  LET used == v.initialRing + Cardinality(v.entries) IN
  IF used < LastRing THEN used ELSE LastRing

\* The first k writes are done; `rest` is the page's state where the turn
\* breaks off, unless the turn comes to its end and loads.
Turn(writes, k, rest) ==
  /\ k \in 0..Len(writes)
  /\ storage' = IF k = 0 THEN storage ELSE writes[k]
  /\ view' = IF k = Len(writes) THEN Seen(storage') ELSE rest
  /\ recorded' = recorded \cup IdsOf(storage'.entries)
  /\ reported' = reported \cup {p.id : p \in {e \in storage'.pending : e.kind = "reward"}}

-----------------------------------------------------------------------------
\* Slip: one ring more.
CycleOpenLate(v) == Ring(v) <= LastRing

CycleOpen(v) == Ring(v) < LastRing

\* Slip: the sample is queued before its ring is stored.
AddEntrySampleFirst(entry) ==
  LET request == TaskRequest(entry.id, entry.ringNumber, entry.result)
      queued == Repo!QueueEvent(storage, request)
  IN
  IF storage.consent = "share" THEN <<queued, Repo!AddEntry(queued, entry)>>
  ELSE <<Repo!AddEntry(storage, entry)>>

AddEntryWrites(entry) ==
  LET added == Repo!AddEntry(storage, entry)
      request == TaskRequest(entry.id, entry.ringNumber, entry.result)
  IN
  IF added.consent = "share" THEN <<added, Repo!QueueEvent(added, request)>>
  ELSE <<added>>

\* addEntry loads after its first write, to see the consent.
AddEntry(result, k) ==
  LET entry  == [id |-> nextId, ringNumber |-> Ring(view) + 1, result |-> result]
      writes == AddEntryWrites(entry)
  IN
  /\ nextId <= MaxId
  /\ CycleOpen(view)
  /\ nextId' = nextId + 1
  /\ Turn(writes, k, IF k = 0 THEN view ELSE Seen(writes[1]))
  /\ UNCHANGED <<removed, shared>>

\* Slip: the deletion is queued before the rings are taken back.
TakeBackDeletionFirst(st, eventIds) ==
  LET request == DeleteRequest(nextId, eventIds) IN
  IF eventIds = {} THEN <<st>>
  ELSE <<Repo!QueueEvent(storage, request), Repo!QueueEvent(st, request)>>

\* The rings with these ids are gone in st; queueTaskDeletion comes second.
TakeBackWrites(st, eventIds) ==
  IF eventIds = {} THEN <<st>>
  ELSE <<st, Repo!QueueEvent(st, DeleteRequest(nextId, eventIds))>>

TakeBack(st, eventIds, k) ==
  /\ nextId <= MaxId
  /\ nextId' = nextId + 1
  /\ Turn(TakeBackWrites(st, eventIds), k, view)
  /\ removed' = removed \cup (IdsOf(storage.entries) \ IdsOf(storage'.entries))
  /\ UNCHANGED shared

UndoLastEntry(k) ==
  \E last \in storage.entries :
    /\ IsLast(last, storage.entries)
    /\ TakeBack(Repo!UndoEntry(storage, last), {last.id}, k)

DeleteEntry(id, k) == TakeBack(Repo!DeleteEntry(storage, id), {id}, k)

ResetCycle(k) == TakeBack(Repo!ResetCurrent(storage), IdsOf(view.entries), k)

\* Slip: the cycle is completed before its reward is queued.
CompleteCycleFirst(request, id) ==
  LET completed == Repo!CompleteCycle(storage, id) IN
  IF view.consent = "share" THEN <<completed, Repo!QueueEvent(completed, request)>>
  ELSE <<completed>>

CompleteCycleWrites(request, id) ==
  LET queued == Repo!QueueEvent(storage, request) IN
  IF view.consent = "share" THEN <<queued, Repo!CompleteCycle(queued, id)>>
  ELSE <<Repo!CompleteCycle(storage, id)>>

CompleteCycle(k) ==
  /\ nextId + 1 <= MaxId
  /\ Ring(view) >= LastRing
  /\ nextId' = nextId + 2
  /\ Turn(CompleteCycleWrites([kind |-> "reward", id |-> nextId], nextId + 1), k, view)
  /\ shared' = IF view.consent = "share" /\ storage'.history # storage.history
               THEN shared \cup {nextId + 1} ELSE shared
  /\ UNCHANGED removed

\* Slip: the rings already recorded are forgotten.
SetupFitsAlone(initialRing) == initialRing <= LastRing

SetupFits(initialRing) == initialRing + Cardinality(view.entries) <= LastRing

UpdateCycleSetup(initialRing, k) ==
  /\ SetupFits(initialRing)
  /\ Turn(<<Repo!UpdateCurrent(storage, initialRing, 0)>>, k, view)
  /\ UNCHANGED <<nextId, removed, shared>>

ChooseConsent(value, k) ==
  /\ Turn(<<Repo!SetConsent(storage, value)>>, k, view)
  /\ UNCHANGED <<nextId, removed, shared>>

DeleteHistory(id, k) ==
  /\ Turn(<<Repo!DeleteHistory(storage, id)>>, k, view)
  /\ UNCHANGED <<nextId, removed, shared>>

\* The final answer to an event of the outbox; a failing write keeps it there.
Sent(event) ==
  /\ storage' = Repo!RemovePendingEvent(storage, event.id)
  /\ UNCHANGED <<view, nextId, histories>>

\* The page is opened, or a handler that writes nothing refreshes it.
Open ==
  /\ view' = Seen(storage)
  /\ UNCHANGED <<storage, nextId, histories>>

Init ==
  /\ storage = Repo!DefaultState
  /\ view = Seen(Repo!DefaultState)
  /\ nextId = 1
  /\ recorded = {} /\ removed = {} /\ shared = {} /\ reported = {}

Next ==
  \/ \E k \in 0..2 :
       \/ \E result \in Results : AddEntry(result, k)
       \/ UndoLastEntry(k)
       \/ \E id \in IdsOf(view.entries) : DeleteEntry(id, k)
       \/ ResetCycle(k)
       \/ CompleteCycle(k)
       \/ \E initialRing \in RingInputs : UpdateCycleSetup(initialRing, k)
       \/ \E value \in {"share", "local"} : ChooseConsent(value, k)
       \/ \E id \in IdsOf(storage.history) : DeleteHistory(id, k)
  \/ \E event \in storage.pending : Sent(event)
  \/ Open

Spec == Init /\ [][Next]_vars

-----------------------------------------------------------------------------
Entry == [id : Nat, ringNumber : 1..LastRing, result : RingResult]

RewardRequests == [kind : {"reward"}, id : Nat]

Storage ==
  [consent : Repo!Consents, initialRing : 0..(LastRing - 1), initialScore : Int,
   entries : SUBSET Entry, history : SUBSET [id : Nat, entries : SUBSET Entry],
   pending : SUBSET (Request \cup RewardRequests)]

View ==
  [consent : Repo!Consents, initialRing : 0..(LastRing - 1), entries : SUBSET Entry]

\* The type of the state; in particular no sequence of broken turns makes the
\* page number a ring beyond the cycle (app.mjs:349, 359; storage.mjs:63).
TypeOK ==
  /\ storage \in Storage
  /\ view \in View
  /\ nextId \in Nat \ {0}
  /\ recorded \subseteq Nat /\ removed \subseteq Nat
  /\ shared \subseteq Nat /\ reported \subseteq Nat

KeptIds == IdsOf(storage.entries) \cup UNION {IdsOf(h.entries) : h \in storage.history}

\* A sample waiting in the outbox is of a ring that was stored and has not
\* been taken back, wherever a turn broke off (app.mjs:360-363,
\* storage.mjs:55, 64, 75).
OutboxRecorded ==
  \A p \in storage.pending : p.kind = "task" => p.id \in recorded \ removed

\* A deletion waiting in the outbox names no ring that the cycle or the history
\* still shows: a broken turn loses the deletion rather than the ring
\* (app.mjs:400-401, 408-410, 416-417).
DeletionsFinal ==
  \A p \in storage.pending : p.kind = "task_delete" => p.eventIds \cap KeptIds = {}

\* Of every cycle completed with consent the reward was queued: a turn that
\* breaks off and is tried again reports twice rather than never
\* (app.mjs:439-440).
CyclesReported == \A id \in shared : id - 1 \in reported

\* The stored cycle stays within its length though the page guards it with
\* what an earlier turn left in `state` (app.mjs:349, 391).
RingsWithinCycle == storage.initialRing + Cardinality(storage.entries) <= LastRing

\* The history never outgrows its limit (storage.mjs:91).
HistoryBounded == Cardinality(storage.history) <= MaxHistory
=============================================================================
