----------------------------- MODULE EventSync -----------------------------
(***************************************************************************)
(* The browser application (src/web/app.mjs) on top of its repository, and *)
(* the event server behind an unreliable network.  A user records, undoes, *)
(* deletes and resets rings; with consent every ring and every reward is   *)
(* also queued as a sample, and what is taken back is queued as a          *)
(* deletion; flushPendingEvents sends the queue, one request at a time.    *)
(*                                                                         *)
(* An action of a tab is one JavaScript turn: a handler up to its end, or  *)
(* flushPendingEvents from one await to the next.  Several activations of  *)
(* flushPendingEvents may be running at once, in one tab or in several.    *)
(***************************************************************************)
EXTENDS EventServer

CONSTANTS
  Tabs,          \* browser tabs on the same localStorage
  Flushes,       \* bound: activations of flushPendingEvents running at once
  Results,       \* what the rings of a cycle may end with
  RingInputs,    \* what is typed into the initial-ring field
  ScoreInputs,   \* what is typed into the initial-score field
  MaxHistory,
  MaxId          \* bound: identifiers drawn in a behaviour

ASSUME SyncAssumption ==
  /\ Results \subseteq RingResult
  /\ RingInputs \subseteq Int
  /\ ScoreInputs \subseteq Int
  /\ MaxHistory \in Nat
  /\ MaxId \in Nat

Repo == INSTANCE Repository

VARIABLES
  storage,    \* localStorage, shared by the tabs
  view,       \* per tab, the module variable `state`
  open,       \* the tabs that are open
  online,     \* navigator.onLine
  flush,      \* the running activations of flushPendingEvents
  wire,       \* what is under way on behalf of each of them
  nextId,     \* the next identifier createID draws
  sampled,    \* history: ids of the samples ever queued
  retracted,  \* history: ids of the entries the user took back
  refused,    \* history: ids of the samples the server answered with 400
  overtaken   \* history: ids deleted while a POST of theirs was still to come

syncVars == <<flush, wire>>
history == <<sampled, retracted, refused, overtaken>>
vars == <<storage, view, open, online, flush, wire, nextId, history, serverVars>>

-----------------------------------------------------------------------------
(* What a tab knows, and what it computes from it.                         *)

\* The fields of `state` that a handler reads after the turn that loaded
\* them; pendingEvents is only read in the turn that loads it.
Seen(st) == [consent |-> st.consent, initialRing |-> st.initialRing,
             initialScore |-> st.initialScore, entries |-> st.entries]

Used(v) == v.initialRing + Cardinality(v.entries)

\* Slip: the number of the ring about to start taken for the rings done.
RingAhead(v) == IF Used(v) + 1 < LastRing THEN Used(v) + 1 ELSE LastRing

\* currentTotals().ring
Ring(v) == IF Used(v) < LastRing THEN Used(v) ELSE LastRing

CanChooseResolution(result, score) == result.resolution = "skipped" => score >= 20

\* Slip: only the upper end is clamped.
ClampAbove(n, low, high) == IF n > high THEN high ELSE n

Clamp(n, low, high) == IF n < low THEN low ELSE IF n > high THEN high ELSE n

\* A turn that ends with the stored state st, loaded and rendered again.
Refreshed(t, st) ==
  /\ storage' = st
  /\ view' = [view EXCEPT ![t] = Seen(st)]

-----------------------------------------------------------------------------
(* flushPendingEvents                                                      *)

Idle    == [phase |-> "idle"]
Silence == [phase |-> "idle"]

Posted(event)         == [phase |-> "request", event |-> event]
Answer(event, status) == [phase |-> "answer", event |-> event, status |-> status]

Waiting(f) == flush[f].phase = "waiting"

\* Activations that are over and have nothing left on the network.
Free == {f \in Flushes : flush[f].phase = "idle" /\ wire[f].phase = "idle"}

\* The `continue` at the head of the loop.
MaySend(event, consent) == event.kind = "task_delete" \/ consent = "share"

\* The loop from its head on: what consent keeps back is skipped, the first
\* event left is fetched and awaited, and without one the loop is over.
Loop(f, t, consent, rest) ==
  LET todo == {e \in rest : MaySend(e, consent)} IN
  \/ /\ todo = {}
     /\ flush' = [flush EXCEPT ![f] = Idle]
     /\ wire' = [wire EXCEPT ![f] = Silence]
  \/ /\ todo # {}
     /\ \E e \in todo :
        /\ IsFirst(e, todo)
        /\ flush' = [flush EXCEPT ![f] =
                      [phase |-> "waiting", tab |-> t, event |-> e,
                       rest |-> {x \in rest : x.id > e.id}]]
        /\ wire' = [wire EXCEPT ![f] = Posted(e)]

\* The call that ends a handler's turn, on the stored state the turn leaves.
FlushPendingEvents(t, st) ==
  IF online /\ \E e \in st.pending : MaySend(e, st.consent)
  THEN \E f \in Free : Loop(f, t, st.consent, st.pending)
  ELSE UNCHANGED syncVars

\* Slips: 429 taken for a final answer like other 4xx; any answer taken for one.
SettlesBusy(status) == status # "error"
SettlesAlways(status) == status \in Statuses

\* The statuses after which the event leaves the queue: 2xx, 409 and every
\* other 4xx but 429.
Settles(status) == status \in {"ok", "duplicate", "rejected"}

-----------------------------------------------------------------------------
(* The handlers of a tab.                                                  *)

\* Slip: the page does not flush when it is opened.
OpenTabQuietly(t) ==
  /\ t \notin open
  /\ open' = open \cup {t}
  /\ Refreshed(t, storage)
  /\ UNCHANGED <<online, syncVars, nextId, history, serverVars>>

OpenTab(t) ==
  /\ t \notin open
  /\ open' = open \cup {t}
  /\ Refreshed(t, storage)
  /\ FlushPendingEvents(t, storage)
  /\ UNCHANGED <<online, nextId, history, serverVars>>

\* Stop waiting for the activations in F: a request of theirs stays on the
\* network, an answer to them is lost.
Abandon(F) ==
  /\ flush' = [f \in Flushes |-> IF f \in F THEN Idle ELSE flush[f]]
  /\ wire' = [f \in Flushes |->
                IF f \in F /\ wire[f].phase = "answer" THEN Silence ELSE wire[f]]

\* The page goes away with its activations.
CloseTab(t) ==
  /\ t \in open
  /\ open' = open \ {t}
  /\ Abandon({f \in Flushes : Waiting(f) /\ flush[f].tab = t})
  /\ UNCHANGED <<storage, view, online, nextId, history, serverVars>>

\* Slip: the choice is stored and `state` is not loaded again.
ChooseConsentUnseen(t, value) ==
  /\ t \in open
  /\ storage' = Repo!SetConsent(storage, value)
  /\ UNCHANGED <<view, open, online, syncVars, nextId, history, serverVars>>

ChooseConsent(t, value) ==
  /\ t \in open
  /\ Refreshed(t, Repo!SetConsent(storage, value))
  /\ UNCHANGED <<open, online, syncVars, nextId, history, serverVars>>

\* Handlers that change only prices, and the arrival of the public model:
\* all that matters here is that the page is rendered again.
Refresh(t) ==
  /\ t \in open
  /\ Refreshed(t, storage)
  /\ UNCHANGED <<open, online, syncVars, nextId, history, serverVars>>

DeleteHistory(t, id) ==
  /\ t \in open
  /\ Refreshed(t, Repo!DeleteHistory(storage, id))
  /\ UNCHANGED <<open, online, syncVars, nextId, history, serverVars>>

\* Slip: the rings already recorded are forgotten.
UpdateCycleSetupFreely(t, ringInput, score) ==
  LET ring == Clamp(ringInput, 0, LastRing - 1) IN
  /\ t \in open
  /\ Refreshed(t, Repo!UpdateCurrent(storage, ring, score))
  /\ UNCHANGED <<open, online, syncVars, nextId, history, serverVars>>

UpdateCycleSetup(t, ringInput, score) ==
  LET ring == Clamp(ringInput, 0, LastRing - 1) IN
  /\ t \in open
  /\ ring + Cardinality(view[t].entries) <= LastRing
  /\ Refreshed(t, Repo!UpdateCurrent(storage, ring, score))
  /\ UNCHANGED <<open, online, syncVars, nextId, history, serverVars>>

AddEntry(t, result) ==
  LET entry == [id |-> nextId, ringNumber |-> Ring(view[t]) + 1, result |-> result]
      added == Repo!AddEntry(storage, entry)
      shared == added.consent = "share"
      request == TaskRequest(entry.id, entry.ringNumber, result)
      st == IF shared THEN Repo!QueueEvent(added, request) ELSE added
  IN
  /\ t \in open
  /\ nextId <= MaxId
  /\ Ring(view[t]) < LastRing
  /\ CanChooseResolution(result, Repo!TotalScore(view[t]))
  /\ nextId' = nextId + 1
  /\ Refreshed(t, st)
  /\ FlushPendingEvents(t, st)
  /\ sampled' = IF shared THEN sampled \cup {entry.id} ELSE sampled
  /\ UNCHANGED <<open, online, retracted, refused, overtaken, serverVars>>

\* Slips: deletions queued like samples, with consent only; and queued even
\* when there is nothing to delete.
QueueTaskDeletionShared(st, eventIds) ==
  IF eventIds = {} \/ st.consent # "share" THEN st
  ELSE Repo!QueueEvent(st, DeleteRequest(nextId, eventIds))
QueueTaskDeletionAlways(st, eventIds) ==
  Repo!QueueEvent(st, DeleteRequest(nextId, eventIds))

\* queueTaskDeletion: queued whatever the consent, unless there is nothing.
QueueTaskDeletion(st, eventIds) ==
  IF eventIds = {} THEN st
  ELSE Repo!QueueEvent(st, DeleteRequest(nextId, eventIds))

\* The rest of the turn of undo, delete and reset, once the repository holds
\* st: the deletion is queued and flushed.
TakeBack(t, st, eventIds) ==
  LET queued == QueueTaskDeletion(st, eventIds) IN
  /\ nextId <= MaxId
  /\ nextId' = IF eventIds = {} THEN nextId ELSE nextId + 1
  /\ Refreshed(t, queued)
  /\ FlushPendingEvents(t, queued)
  /\ UNCHANGED <<open, online, sampled, refused, overtaken, serverVars>>

UndoLastEntry(t) ==
  \/ storage.entries = {} /\ Refresh(t)
  \/ \E removed \in storage.entries :
     /\ IsLast(removed, storage.entries)
     /\ t \in open
     /\ TakeBack(t, Repo!UndoEntry(storage, removed), {removed.id})
     /\ retracted' = retracted \cup {removed.id}

DeleteEntry(t, id) ==
  /\ t \in open
  /\ id \in IdsOf(view[t].entries)
  /\ TakeBack(t, Repo!DeleteEntry(storage, id), {id})
  /\ retracted' = retracted \cup {id}

\* The ids to delete are read from the tab's state, the entries to drop from
\* the repository's.
ResetCycle(t) ==
  LET eventIds == IdsOf(view[t].entries) IN
  /\ t \in open
  /\ TakeBack(t, Repo!ResetCurrent(storage), eventIds)
  /\ retracted' = retracted \cup eventIds \cup IdsOf(storage.entries)

CompleteCycle(t) ==
  LET shared == view[t].consent = "share"
      request == RewardRequest(nextId, Repo!TotalScore(view[t]))
      queued == IF shared THEN Repo!QueueEvent(storage, request) ELSE storage
      st == Repo!CompleteCycle(queued, nextId + 1)
  IN
  /\ t \in open
  /\ nextId + 1 <= MaxId
  /\ Ring(view[t]) >= LastRing
  /\ nextId' = nextId + 2
  /\ Refreshed(t, st)
  /\ FlushPendingEvents(t, st)
  /\ sampled' = IF shared THEN sampled \cup {nextId} ELSE sampled
  /\ UNCHANGED <<open, online, retracted, refused, overtaken, serverVars>>

\* Slip: the loop breaks off at a 5xx as it does when fetch throws.
ReceiveOrStop(f) ==
  LET answer == wire[f]
      t == flush[f].tab
  IN
  /\ Waiting(f)
  /\ answer.phase = "answer"
  /\ storage' = IF Settles(answer.status)
                THEN Repo!RemovePendingEvent(storage, answer.event.id)
                ELSE storage
  /\ Loop(f, t, view[t].consent,
          IF answer.status = "error" THEN {} ELSE flush[f].rest)
  /\ UNCHANGED <<view, open, online, nextId, history, serverVars>>

\* The answer to the awaited fetch.  The loop goes on with the tab's state,
\* which other handlers may have loaded again in the meantime.
Receive(f) ==
  LET answer == wire[f]
      t == flush[f].tab
  IN
  /\ Waiting(f)
  /\ answer.phase = "answer"
  /\ storage' = IF Settles(answer.status)
                THEN Repo!RemovePendingEvent(storage, answer.event.id)
                ELSE storage
  /\ Loop(f, t, view[t].consent, flush[f].rest)
  /\ UNCHANGED <<view, open, online, nextId, history, serverVars>>

\* fetch throws and the loop breaks off; the request may still be under way.
FetchFails(f) ==
  /\ Waiting(f)
  /\ Abandon({f})
  /\ UNCHANGED <<storage, view, open, online, nextId, history, serverVars>>

-----------------------------------------------------------------------------
(* The network and the server.                                             *)

GoOffline == online /\ online' = FALSE
             /\ UNCHANGED <<storage, view, open, syncVars, nextId, history, serverVars>>

GoOnline == ~online /\ online' = TRUE
            /\ UNCHANGED <<storage, view, open, syncVars, nextId, history, serverVars>>

\* The answer to the request of f, which nobody hears when f has given up.
Reply(f, status) ==
  wire' = [wire EXCEPT ![f] = IF Waiting(f) THEN Answer(wire[f].event, status)
                              ELSE Silence]

\* A request, or its answer, never arrives.
Lose(f) ==
  /\ wire[f].phase # "idle"
  /\ wire' = [wire EXCEPT ![f] = Silence]
  /\ UNCHANGED <<storage, view, open, online, flush, nextId, history, serverVars>>

\* The reverse proxy answers for the server, before or after it has acted.
GatewayFails(f) ==
  /\ Waiting(f)
  /\ wire[f].phase # "idle"
  /\ Reply(f, "error")
  /\ UNCHANGED <<storage, view, open, online, flush, nextId, history, serverVars>>

\* A POST of the task sample id that has yet to reach the server.
Outstanding(id) ==
  \E f \in Flushes :
    \/ /\ wire[f].phase = "request"
       /\ wire[f].event.kind = "task"
       /\ wire[f].event.id = id
    \/ /\ Waiting(f)
       /\ \E e \in flush[f].rest : e.kind = "task" /\ e.id = id

Deliver(f, status) ==
  LET event == wire[f].event IN
  /\ wire[f].phase = "request"
  /\ Handle(event, status)
  /\ Reply(f, status)
  /\ refused' = IF IsSample(event) /\ status = "rejected"
                THEN refused \cup {event.id} ELSE refused
  /\ overtaken' = IF ~IsSample(event) /\ status = "ok"
                  THEN overtaken \cup {id \in event.eventIds : Outstanding(id)}
                  ELSE overtaken
  /\ UNCHANGED <<storage, view, open, online, flush, nextId, sampled, retracted>>

-----------------------------------------------------------------------------
Init ==
  /\ storage = Repo!DefaultState
  /\ view = [t \in Tabs |-> Seen(Repo!DefaultState)]
  /\ open = {}
  /\ online \in BOOLEAN
  /\ flush = [f \in Flushes |-> Idle]
  /\ wire = [f \in Flushes |-> Silence]
  /\ nextId = 1
  /\ sampled = {} /\ retracted = {} /\ refused = {} /\ overtaken = {}
  /\ ServerInit

User(t) ==
  \/ OpenTab(t)
  \/ CloseTab(t)
  \/ Refresh(t)
  \/ \E value \in {"share", "local"} : ChooseConsent(t, value)
  \/ \E ring \in RingInputs, score \in ScoreInputs : UpdateCycleSetup(t, ring, score)
  \/ \E result \in Results : AddEntry(t, result)
  \/ UndoLastEntry(t)
  \/ \E id \in IdsOf(view[t].entries) : DeleteEntry(t, id)
  \/ ResetCycle(t)
  \/ CompleteCycle(t)
  \/ \E id \in IdsOf(storage.history) : DeleteHistory(t, id)

Network(f) ==
  \/ Receive(f)
  \/ FetchFails(f)
  \/ Lose(f)
  \/ GatewayFails(f)
  \/ \E status \in Statuses : Deliver(f, status)

Next ==
  \/ \E t \in Tabs : User(t)
  \/ \E f \in Flushes : Network(f)
  \/ GoOffline
  \/ GoOnline

Spec == Init /\ [][Next]_vars

-----------------------------------------------------------------------------
(* Types.                                                                  *)

Entry == [id : Nat, ringNumber : Nat, result : RingResult]

RingsBefore == 0..(LastRing - 1)

Storage ==
  [consent : Repo!Consents, initialRing : RingsBefore, initialScore : Int,
   entries : SUBSET Entry, history : SUBSET [id : Nat, entries : SUBSET Entry],
   pending : SUBSET Request]

View ==
  [consent : Repo!Consents, initialRing : RingsBefore, initialScore : Int,
   entries : SUBSET Entry]

Activation ==
  {Idle} \cup
  [phase : {"waiting"}, tab : Tabs, event : Request, rest : SUBSET Request]

Transfer ==
  {Silence} \cup [phase : {"request"}, event : Request]
            \cup [phase : {"answer"}, event : Request, status : Statuses]

\* The type of the whole state: what the page clamps, and what the fields it
\* stores, sends and has on the server can hold.
TypeOK ==
  /\ storage \in Storage
  /\ view \in [Tabs -> View]
  /\ open \subseteq Tabs
  /\ online \in BOOLEAN
  /\ flush \in [Flushes -> Activation]
  /\ wire \in [Flushes -> Transfer]
  /\ nextId \in Nat \ {0}
  /\ sampled \subseteq Nat /\ retracted \subseteq Nat
  /\ refused \subseteq Nat /\ overtaken \subseteq Nat
  /\ tasks \subseteq [id : Nat, ringNumber : 1..LastRing, result : RingResult]
  /\ rewards \subseteq [id : Nat]

-----------------------------------------------------------------------------
(* Safety.                                                                 *)

StoredIds == IdsOf(tasks) \cup IdsOf(rewards)

AwaitsDeletion(id) ==
  \E p \in storage.pending : p.kind = "task_delete" /\ id \in p.eventIds

\* A sample that was queued and whose ring the user has not taken back is in
\* the outbox, on the server, or was refused by it: no loss, no failure and
\* no answer lets flushPendingEvents drop it (app.mjs:483-484).
NoSampleLost ==
  \A id \in sampled \ retracted :
    id \in IdsOf(storage.pending) \cup StoredIds \cup refused

\* A row of a ring the user took back either still has its deletion in the
\* outbox or was posted by a request the deletion overtook: queueTaskDeletion
\* and the filters on the outbox miss nothing else (app.mjs:397-430).
OrphansOnlyOvertaken ==
  \A id \in IdsOf(tasks) \cap retracted : AwaitsDeletion(id) \/ id \in overtaken

\* What the design document promises: once no deletion is waiting and nothing
\* is under way, the server holds no row of a ring that was taken back.
TakenBackIsDeleted ==
  (\A f \in Flushes : flush[f].phase = "idle" /\ wire[f].phase = "idle") =>
    \A id \in IdsOf(tasks) \cap retracted : AwaitsDeletion(id)

\* Every deletion the browser queues names as many rings as the server takes
\* in one request (app.mjs:423, api.go:144); one it does not take is dropped.
DeletionsAcceptable ==
  \A p \in storage.pending : p.kind = "task_delete" => ValidDelete(p)

\* The rings done before and the rings recorded never exceed one cycle:
\* addEntry and updateCycleSetup guard it together (app.mjs:349, 391).
RingsWithinCycle == Used(storage) <= LastRing

NumberedInOrder(st) ==
  \A x \in st.entries :
    x.ringNumber = st.initialRing + Cardinality({y \in st.entries : y.id <= x.id})

\* As long as the initial ring is not edited, recording, undoing and deleting
\* keep the rings of the cycle numbered one after the other
\* (storage.mjs:59-66, app.mjs:359).  Editing it renumbers nothing.
RingsStayInOrder ==
  [][(NumberedInOrder(storage) /\ storage'.initialRing = storage.initialRing)
       => NumberedInOrder(storage')]_vars

\* A request with a sample is put on the network only while the stored
\* consent says so, however long ago the flush that sends it began
\* (app.mjs:478).
SamplesSentWithConsent ==
  [][\A f \in Flushes :
       (wire'[f] # wire[f] /\ wire'[f].phase = "request" /\ IsSample(wire'[f].event))
         => storage.consent = "share"]_vars

\* A cycle enters the history, and a reward the outbox, only when the cycle
\* stored at that moment is complete (app.mjs:434).
OnlyFullCyclesComplete ==
  [][/\ \A h \in storage'.history \ storage.history : Used(storage) >= LastRing
     /\ \A p \in storage'.pending \ storage.pending :
          p.kind = "reward" => Used(storage) >= LastRing]_vars

-----------------------------------------------------------------------------
(* The abstract specification, and where a sample of this one stands.      *)

Phase(id) ==
  IF id \in retracted THEN "withdrawn"
  ELSE IF id \notin sampled THEN "unsampled"
  ELSE IF id \in refused THEN "refused"
  ELSE IF id \in IdsOf(storage.pending)
       THEN IF id \in StoredIds THEN "held" ELSE "queued"
       ELSE IF id \in StoredIds THEN "stored" ELSE "lost"

Lifecycle == INSTANCE SampleLifecycle
  WITH Ids <- 1..MaxId, phase <- [id \in 1..MaxId |-> Phase(id)]

\* However flushes, tabs, faults and the user interleave, every sample goes
\* through the phases of SampleLifecycle and no step moves it otherwise
\* (app.mjs:474-487 with the handlers of api.go).
ImplementsLifecycle == Lifecycle!Spec

-----------------------------------------------------------------------------
(* Fairness.  The page and the runtime always take the next step of a turn *)
(* that can go on, a fetch that nothing answers fails in the end, and a    *)
(* connection that is down comes back.  The network and the server may     *)
(* fail any number of times, but not at every attempt: the request with a  *)
(* given identifier, sent again and again, is at some time handled without *)
(* a fault before the page gives it up, and an answer to it at some time   *)
(* heard.  A request that was given up does not stay under way for ever.   *)

\* Without a fault of the server or the limiter, which opens again with the
\* next window.  A row that breaks a CHECK can be answered with 500 only.
Faultless(event, status) ==
  \/ Settles(status)
  \/ event.kind = "task" /\ ~Storable(event) /\ status = "error"

NetworkFairness ==
  /\ WF_vars(GoOnline)
  /\ \A f \in Flushes :
       /\ WF_vars(Receive(f))
       /\ WF_vars(wire[f].phase = "idle" /\ FetchFails(f))
       /\ WF_vars(~Waiting(f) /\ Lose(f))
  /\ \A id \in 1..MaxId :
       /\ SF_vars(\E f \in Flushes :
                     \E status \in Statuses :
                       /\ Waiting(f)
                       /\ wire[f].phase = "request"
                       /\ wire[f].event.id = id
                       /\ Faultless(wire[f].event, status)
                       /\ Deliver(f, status))
       /\ SF_vars(\E f \in Flushes :
                     /\ wire[f].phase = "answer"
                     /\ wire[f].event.id = id
                     /\ Faultless(wire[f].event, wire[f].status)
                     /\ Receive(f))

\* A user who keeps coming back: the page is closed, with nothing under way
\* in it, and opened, again and again while the network is up.
UserFairness ==
  \A t \in Tabs :
    /\ SF_vars(online /\ OpenTab(t))
    /\ SF_vars(/\ online
               /\ \A f \in Flushes : Waiting(f) => flush[f].tab # t
               /\ CloseTab(t))

NetworkFairSpec == Spec /\ NetworkFairness
FairSpec        == NetworkFairSpec /\ UserFairness

Queued(id) == id \in IdsOf(storage.pending)

QueuedDeletion(id) ==
  \E p \in storage.pending : p.id = id /\ p.kind = "task_delete"

QueuedStorable(id) ==
  \E p \in storage.pending :
    /\ p.id = id
    /\ IsSample(p)
    /\ p.kind = "task" => Storable(p)

\* For a user who keeps coming back, every deletion leaves the outbox, with
\* or without consent and whatever samples are queued before it.
DeletionsLeave == \A id \in 1..MaxId : QueuedDeletion(id) ~> ~Queued(id)

\* ... and so does every sample the server's table can hold, unless the
\* consent to send it is withdrawn.
SamplesLeave ==
  \A id \in 1..MaxId :
    QueuedStorable(id) ~> (~Queued(id) \/ storage.consent # "share")

\* The design document's promise: a deletion queued while offline is carried
\* out once the network is back, by the open page on its own.
DeletionsCompleteOnline ==
  \A id \in 1..MaxId :
    <>[](online /\ open = Tabs) => (QueuedDeletion(id) ~> ~Queued(id))
=============================================================================
