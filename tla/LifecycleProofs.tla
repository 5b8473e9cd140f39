-------------------------- MODULE LifecycleProofs --------------------------
(***************************************************************************)
(* EventSync implements SampleLifecycle, for any number of tabs and of     *)
(* activations: every step is one move of one sample, a withdrawal, or     *)
(* nothing.                                                                *)
(***************************************************************************)
EXTENDS EventSyncProofs

\* The requests the browser still holds or has sent.
Underway(e) ==
  \/ e \in storage.pending
  \/ \E f \in Flushes : Waiting(f) /\ (e = flush[f].event \/ e \in flush[f].rest)
  \/ \E f \in Flushes : wire[f].phase # "idle" /\ e = wire[f].event

\* The copies of a request in the activations and on the network are the same
\* as the one in the outbox.
OneRequestPerId ==
  \A d, e \in Request : Underway(d) /\ Underway(e) /\ d.id = e.id => d = e

\* What the server accepts of a sample.
Accepted(e) == (e.kind = "task" => ValidTask(e)) /\ (e.kind = "reward" => ValidReward(e))

\* A stored sample that is sent again is not refused.
StoredAccepted ==
  \A e \in Request : Underway(e) /\ IsSample(e) /\ e.id \in StoredIds => Accepted(e)

AnsweredBefore == \A id \in StoredIds \cup refused : id \in Nat /\ id < nextId

RInv == IInv /\ OneRequestPerId /\ StoredAccepted /\ AnsweredBefore

-----------------------------------------------------------------------------
(* The invariant.                                                          *)

LEMMA UnderwaySound ==
  ASSUME IInv, NEW e, Underway(e)
  PROVE  Sound(e) /\ e \in Request /\ e.id \in Nat
PROOF
<1>1. Sound(e)
  BY DEF IInv, RequestsSound, Underway
<1> QED BY <1>1 DEF Sound, Request

\* A step that brings no request and stores nothing.
LEMMA FewerRequests ==
  ASSUME RInv, \A e : Underway(e)' => Underway(e), IInv',
         UNCHANGED <<nextId, refused, serverVars>>
  PROVE  RInv'
PROOF
<1>1. StoredIds' = StoredIds /\ refused' = refused /\ nextId' = nextId
  BY DEF StoredIds, serverVars
<1>2. OneRequestPerId'
  BY DEF RInv, OneRequestPerId
<1>3. StoredAccepted'
  BY <1>1 DEF RInv, StoredAccepted, Accepted, ValidTask, ValidReward
<1>4. AnsweredBefore'
  BY <1>1 DEF RInv, AnsweredBefore
<1> QED BY <1>2, <1>3, <1>4 DEF RInv

\* A turn copies requests out of the outbox it leaves.
LEMMA TurnRequests ==
  ASSUME IInv, NEW t \in Tabs, NEW st, Turn(t, st)
  PROVE  \A e : Underway(e)' => Underway(e) \/ e \in st.pending \ storage.pending
PROOF
<1>1. /\ TypeOK /\ st \in Storage /\ Refreshed(t, st)
      /\ FlushPendingEvents(t, st) \/ UNCHANGED syncVars
  BY DEF Turn, IInv
<1>2. storage' = st
  BY <1>1 DEF Refreshed
<1>3. \A f \in Flushes :
        \/ flush'[f] = flush[f] /\ wire'[f] = wire[f]
        \/ flush'[f] = Idle /\ wire'[f] = Silence
        \/ /\ flush'[f].event \in st.pending
           /\ flush'[f].rest \subseteq st.pending
           /\ wire'[f] = Posted(flush'[f].event)
  <2>1. CASE FlushPendingEvents(t, st)
    BY <1>1, <2>1, FlushTyped
  <2>2. CASE UNCHANGED syncVars
    BY <2>2 DEF syncVars
  <2> QED BY <1>1, <2>1, <2>2
<1>4. ASSUME NEW e, Underway(e)' PROVE Underway(e) \/ e \in st.pending
  <2>1. CASE e \in storage'.pending
    BY <1>2, <2>1
  <2>2. ASSUME NEW f \in Flushes, Waiting(f)', e = flush'[f].event \/ e \in flush'[f].rest
        PROVE  Underway(e) \/ e \in st.pending
    BY <1>3, <2>2 DEF Underway, Waiting, Idle
  <2>3. ASSUME NEW f \in Flushes, wire'[f].phase # "idle", e = wire'[f].event
        PROVE  Underway(e) \/ e \in st.pending
    <3>1. CASE wire'[f] = wire[f]
      BY <2>3, <3>1 DEF Underway
    <3>2. CASE flush'[f].event \in st.pending /\ wire'[f] = Posted(flush'[f].event)
      BY <2>3, <3>2 DEF Posted
    <3>3. wire'[f] # Silence
      BY <2>3 DEF Silence
    <3> QED BY <1>3, <3>1, <3>2, <3>3
  <2> QED BY <1>4, <2>1, <2>2, <2>3 DEF Underway
<1> QED BY <1>4 DEF Underway

LEMMA TurnKeepsRInv ==
  ASSUME RInv, NEW t \in Tabs, NEW st, Turn(t, st)
  PROVE  RInv'
PROOF
<1>1. /\ IInv /\ IInv' /\ nextId \in Nat
      /\ \A e : Underway(e)' => Underway(e) \/ e \in st.pending \ storage.pending
  BY TurnKeepsIInv, TurnRequests DEF RInv, IInv, TypeOK
<1>2. /\ \A p \in st.pending \ storage.pending : p \in Request /\ p.id \in Nat /\ p.id >= nextId
      /\ \A p, q \in st.pending \ storage.pending : p = q
  BY DEF Turn, Storage, Request
<1>3. \A e : Underway(e) => e.id \in Nat /\ e.id < nextId
  BY <1>1, UnderwaySound DEF Sound
<1>4. /\ StoredIds' = StoredIds /\ refused' = refused
      /\ nextId' \in Nat /\ nextId' >= nextId
  BY DEF Turn, StoredIds, serverVars
<1>5. OneRequestPerId'
  <2> SUFFICES ASSUME NEW d \in Request, NEW e \in Request,
                      Underway(d)', Underway(e)', d.id = e.id
               PROVE  d = e
    BY DEF OneRequestPerId
  <2>1. CASE Underway(d) /\ Underway(e)
    BY <2>1 DEF RInv, OneRequestPerId
  <2>2. CASE ~Underway(d) /\ ~Underway(e)
    BY <1>1, <1>2, <2>2
  <2>3. CASE ~Underway(d) /\ Underway(e)
    BY <1>1, <1>2, <1>3, <2>3
  <2>4. CASE Underway(d) /\ ~Underway(e)
    BY <1>1, <1>2, <1>3, <2>4
  <2> QED BY <2>1, <2>2, <2>3, <2>4
<1>6. StoredAccepted'
  <2> SUFFICES ASSUME NEW e \in Request, Underway(e)', IsSample(e), e.id \in StoredIds
               PROVE  Accepted(e)
    BY <1>4 DEF StoredAccepted, Accepted, ValidTask, ValidReward
  <2>1. e.id < nextId /\ e.id \in Nat
    BY DEF RInv, AnsweredBefore
  <2>2. Underway(e)
    BY <1>1, <1>2, <2>1
  <2> QED BY <2>2 DEF RInv, StoredAccepted
<1>7. AnsweredBefore'
  BY <1>1, <1>4 DEF RInv, AnsweredBefore
<1> QED BY <1>1, <1>5, <1>6, <1>7 DEF RInv

\* Steps that end activations, lose messages or answer with an error.
Fault ==
  /\ UNCHANGED <<storage, view, nextId, history, serverVars>>
  /\ \A f \in Flushes : flush'[f] = flush[f] \/ flush'[f] = Idle
  /\ \A f \in Flushes :
       \/ wire'[f] = wire[f]
       \/ wire'[f] = Silence
       \/ wire[f].phase # "idle" /\ wire'[f] = Answer(wire[f].event, "error")

LEMMA FailuresAreFaults ==
  ASSUME IInv,
         \/ \E t \in Tabs : CloseTab(t)
         \/ GoOffline \/ GoOnline
         \/ \E f \in Flushes : FetchFails(f) \/ Lose(f) \/ GatewayFails(f)
  PROVE  Fault
PROOF
<1>1. TypeOK /\ wire \in [Flushes -> Transfer]
  BY DEF IInv, TypeOK
<1>2. CASE \E t \in Tabs : CloseTab(t)
  <2>1. PICK F : Abandon(F)
    BY <1>2 DEF CloseTab
  <2> QED BY <1>1, <1>2, <2>1, AbandonTyped DEF CloseTab, Fault
<1>3. CASE GoOffline \/ GoOnline
  BY <1>3 DEF GoOffline, GoOnline, syncVars, Fault
<1>4. ASSUME NEW f \in Flushes, FetchFails(f) PROVE Fault
  BY <1>1, <1>4, AbandonTyped DEF FetchFails, Fault
<1>5. ASSUME NEW f \in Flushes, Lose(f) PROVE Fault
  BY <1>1, <1>5 DEF Lose, Fault
<1>6. ASSUME NEW f \in Flushes, GatewayFails(f) PROVE Fault
  BY <1>1, <1>6 DEF GatewayFails, Reply, Fault
<1> QED BY <1>2, <1>3, <1>4, <1>5, <1>6

LEMMA FaultRequests ==
  ASSUME Fault
  PROVE  \A e : Underway(e)' => Underway(e)
PROOF
<1>1. ASSUME NEW e, Underway(e)' PROVE Underway(e)
  <2>1. CASE e \in storage'.pending
    BY <2>1 DEF Fault, Underway
  <2>2. ASSUME NEW f \in Flushes, Waiting(f)', e = flush'[f].event \/ e \in flush'[f].rest
        PROVE  Underway(e)
    BY <2>2 DEF Fault, Underway, Waiting, Idle
  <2>3. ASSUME NEW f \in Flushes, wire'[f].phase # "idle", e = wire'[f].event
        PROVE  Underway(e)
    <3>1. wire'[f].event = wire[f].event /\ wire[f].phase # "idle"
      <4>1. CASE wire'[f] = wire[f]
        BY <2>3, <4>1
      <4>2. CASE wire[f].phase # "idle" /\ wire'[f] = Answer(wire[f].event, "error")
        BY <4>2 DEF Answer
      <4>3. wire'[f] # Silence
        BY <2>3 DEF Silence
      <4> QED BY <4>1, <4>2, <4>3 DEF Fault
    <3> QED BY <2>3, <3>1 DEF Underway
  <2> QED BY <1>1, <2>1, <2>2, <2>3 DEF Underway
<1> QED BY <1>1

LEMMA FaultKeepsRInv ==
  ASSUME RInv, Fault, IInv'
  PROVE  RInv'
PROOF
<1>1. UNCHANGED <<nextId, refused, serverVars>>
  BY DEF Fault, history
<1> QED BY <1>1, FaultRequests, FewerRequests

LEMMA ReceiveRequests ==
  ASSUME IInv, NEW f \in Flushes, Receive(f)
  PROVE  \A e : Underway(e)' => Underway(e)
PROOF
<1>1. /\ TypeOK /\ flush[f] \in Activation /\ storage \in Storage
  BY DEF IInv, TypeOK
<1>2. flush[f].tab \in Tabs /\ flush[f].rest \in SUBSET Request
  BY <1>1 DEF Receive, Waiting, Activation, Idle
<1>3. /\ \A g \in Flushes : g # f => flush'[g] = flush[g] /\ wire'[g] = wire[g]
      /\ \/ flush'[f] = Idle /\ wire'[f] = Silence
         \/ /\ flush'[f].event \in flush[f].rest
            /\ flush'[f].rest \subseteq flush[f].rest
            /\ wire'[f] = Posted(flush'[f].event)
  BY <1>1, <1>2, LoopTyped DEF Receive
<1>4. storage'.pending \subseteq storage.pending
  BY <1>1 DEF Receive, Repo!RemovePendingEvent, Repo!Without, Storage
<1>5. \A e \in flush[f].rest : Underway(e)
  BY DEF Receive, Underway
<1>6. ASSUME NEW e, Underway(e)' PROVE Underway(e)
  <2>1. CASE e \in storage'.pending
    BY <1>4, <2>1 DEF Underway
  <2>2. ASSUME NEW g \in Flushes, Waiting(g)', e = flush'[g].event \/ e \in flush'[g].rest
        PROVE  Underway(e)
    <3>1. CASE g = f
      BY <1>3, <1>5, <2>2, <3>1 DEF Waiting, Idle
    <3>2. CASE g # f
      BY <1>3, <2>2, <3>2 DEF Underway, Waiting
    <3> QED BY <3>1, <3>2
  <2>3. ASSUME NEW g \in Flushes, wire'[g].phase # "idle", e = wire'[g].event
        PROVE  Underway(e)
    <3>1. CASE g = f
      BY <1>3, <1>5, <2>3, <3>1 DEF Silence, Posted
    <3>2. CASE g # f
      BY <1>3, <2>3, <3>2 DEF Underway
    <3> QED BY <3>1, <3>2
  <2> QED BY <1>6, <2>1, <2>2, <2>3 DEF Underway
<1> QED BY <1>6

LEMMA ReceiveKeepsRInv ==
  ASSUME RInv, NEW f \in Flushes, Receive(f)
  PROVE  RInv'
PROOF
<1>1. IInv /\ IInv'
  BY ReceiveKeepsIInv DEF RInv
<1>2. UNCHANGED <<nextId, refused, serverVars>>
  BY DEF Receive, history
<1> QED BY <1>1, <1>2, ReceiveRequests, FewerRequests

\* What the server stores it has accepted, under an identifier of its own.
LEMMA HandleStores ==
  ASSUME TypeOK, NEW event \in Request, NEW status \in Statuses, Handle(event, status)
  PROVE  /\ \A id \in StoredIds' :
              \/ id \in StoredIds
              \/ id = event.id /\ IsSample(event) /\ Accepted(event)
         /\ status = "rejected" /\ IsSample(event) => ~Accepted(event)
         /\ status = "rejected" => UNCHANGED serverVars
PROOF
<1>1. CASE status # "ok"
  <2>1. UNCHANGED serverVars
    BY <1>1 DEF Handle, TaskEvent, RewardEvent, DeleteTaskEvents
  <2>2. StoredIds' = StoredIds
    BY <2>1 DEF serverVars, StoredIds
  <2>3. status = "rejected" /\ IsSample(event) => ~Accepted(event)
    BY DEF Handle, TaskEvent, RewardEvent, DeleteTaskEvents, IsSample, Accepted
  <2> QED BY <2>1, <2>2, <2>3
<1>2. CASE event.kind = "task" /\ status = "ok" /\ TaskEvent(event, status)
  <2>1. /\ tasks' = tasks \cup {TaskRow(event)} /\ rewards' = rewards
        /\ Accepted(event) /\ IsSample(event)
    BY <1>2 DEF TaskEvent, Accepted, IsSample
  <2>2. TaskRow(event).id = event.id
    BY DEF TaskRow
  <2> QED BY <1>2, <2>1, <2>2 DEF StoredIds, IdsOf
<1>3. CASE event.kind = "reward" /\ status = "ok" /\ RewardEvent(event, status)
  <2>1. /\ rewards' = rewards \cup {RewardRow(event)} /\ tasks' = tasks
        /\ Accepted(event) /\ IsSample(event)
    BY <1>3 DEF RewardEvent, Accepted, IsSample
  <2>2. RewardRow(event).id = event.id
    BY DEF RewardRow
  <2> QED BY <1>3, <2>1, <2>2 DEF StoredIds, IdsOf
<1>4. CASE event.kind = "task_delete" /\ status = "ok" /\ DeleteTaskEvents(event, status)
  <2>1. tasks' \subseteq tasks /\ rewards' = rewards
    BY <1>4 DEF DeleteTaskEvents
  <2> QED BY <1>4, <2>1 DEF StoredIds, IdsOf
<1> QED BY <1>1, <1>2, <1>3, <1>4 DEF Handle

LEMMA DeliverRequests ==
  ASSUME IInv, NEW f \in Flushes, NEW status \in Statuses, Deliver(f, status)
  PROVE  \A e : Underway(e)' => Underway(e)
PROOF
<1> DEFINE event == wire[f].event
<1>1. /\ wire[f].phase = "request"
      /\ UNCHANGED <<storage, flush>>
      /\ wire \in [Flushes -> Transfer]
  BY DEF IInv, TypeOK, Deliver
<1>2. \A g \in Flushes :
        \/ wire'[g] = wire[g]
        \/ wire'[g] = Silence
        \/ g = f /\ wire'[g] = Answer(event, status)
  BY <1>1 DEF Deliver, Reply
<1>3. ASSUME NEW e, Underway(e)' PROVE Underway(e)
  <2>1. CASE e \in storage'.pending
    BY <1>1, <2>1 DEF Underway
  <2>2. ASSUME NEW g \in Flushes, Waiting(g)', e = flush'[g].event \/ e \in flush'[g].rest
        PROVE  Underway(e)
    BY <1>1, <2>2 DEF Underway, Waiting
  <2>3. ASSUME NEW g \in Flushes, wire'[g].phase # "idle", e = wire'[g].event
        PROVE  Underway(e)
    <3>1. wire'[g].event = wire[g].event /\ wire[g].phase # "idle"
      BY <1>1, <1>2, <2>3 DEF Silence, Answer
    <3> QED BY <2>3, <3>1 DEF Underway
  <2> QED BY <1>3, <2>1, <2>2, <2>3 DEF Underway
<1> QED BY <1>3

LEMMA DeliverKeepsRInv ==
  ASSUME RInv, NEW f \in Flushes, NEW status \in Statuses, Deliver(f, status)
  PROVE  RInv'
PROOF
<1> DEFINE event == wire[f].event
<1>1. /\ TypeOK /\ IInv /\ IInv'
      /\ Handle(event, status) /\ wire[f].phase = "request"
      /\ UNCHANGED <<storage, flush, nextId>>
      /\ wire \in [Flushes -> Transfer]
  BY DeliverKeepsIInv DEF RInv, IInv, TypeOK, Deliver
<1>2. Underway(event)
  BY <1>1 DEF Underway
<1>3. event \in Request /\ event.id \in Nat /\ event.id < nextId
  BY <1>1, <1>2, UnderwaySound DEF Sound
<1>5. \A e : Underway(e)' => Underway(e)
  BY <1>1, DeliverRequests
<1> HIDE DEF event
<1>6. /\ \A id \in StoredIds' :
           \/ id \in StoredIds
           \/ id = event.id /\ IsSample(event) /\ Accepted(event)
      /\ status = "rejected" /\ IsSample(event) => ~Accepted(event)
  BY <1>1, <1>3, HandleStores
<1>7. OneRequestPerId'
  BY <1>5 DEF RInv, OneRequestPerId
<1>8. StoredAccepted'
  <2> SUFFICES ASSUME NEW e \in Request, Underway(e)', IsSample(e), e.id \in StoredIds'
               PROVE  Accepted(e)
    BY DEF StoredAccepted, Accepted, ValidTask, ValidReward
  <2>1. Underway(e)
    BY <1>5
  <2>2. CASE e.id \in StoredIds
    BY <2>1, <2>2 DEF RInv, StoredAccepted
  <2>3. CASE e.id = event.id /\ Accepted(event)
    BY <1>2, <1>3, <2>1, <2>3 DEF RInv, OneRequestPerId
  <2> QED BY <1>6, <2>2, <2>3
<1>9. AnsweredBefore'
  <2>1. refused' \subseteq refused \cup {event.id}
    BY DEF Deliver, event
  <2> QED BY <1>1, <1>3, <1>6, <2>1 DEF RInv, AnsweredBefore
<1> QED BY <1>1, <1>7, <1>8, <1>9 DEF RInv

LEMMA InitRInv == Init => RInv
PROOF
<1> SUFFICES ASSUME Init PROVE RInv
  OBVIOUS
<1>1. \A e : ~Underway(e)
  BY DEF Init, Underway, Repo!DefaultState, Waiting, Idle, Silence
<1>2. StoredIds = {} /\ refused = {}
  BY DEF Init, ServerInit, StoredIds, IdsOf
<1> QED BY <1>1, <1>2, InitIInv DEF RInv, OneRequestPerId, StoredAccepted, AnsweredBefore

\* Every step is a turn, a fault, an answer received or a request delivered.
LEMMA StepKinds ==
  ASSUME IInv, [Next]_vars
  PROVE  \/ \E t \in Tabs : \E st : Turn(t, st)
         \/ Fault
         \/ \E f \in Flushes : Receive(f)
         \/ \E f \in Flushes, status \in Statuses : Deliver(f, status)
PROOF
<1>1. ASSUME NEW t \in Tabs, User(t) PROVE Fault \/ \E st : Turn(t, st)
  BY <1>1, UserTurns, FailuresAreFaults
<1>2. CASE \/ GoOffline \/ GoOnline
           \/ \E f \in Flushes : FetchFails(f) \/ Lose(f) \/ GatewayFails(f)
  BY <1>2, FailuresAreFaults
<1>3. CASE UNCHANGED vars
  BY <1>3 DEF vars, Fault
<1> QED BY <1>1, <1>2, <1>3 DEF Next, Network

LEMMA NextRInv == RInv /\ [Next]_vars => RInv'
PROOF
<1> SUFFICES ASSUME RInv, [Next]_vars PROVE RInv'
  OBVIOUS
<1>1. IInv /\ IInv'
  BY NextIInv DEF RInv
<1> QED BY <1>1, StepKinds, TurnKeepsRInv, FaultKeepsRInv, ReceiveKeepsRInv, DeliverKeepsRInv

-----------------------------------------------------------------------------
(* The mapping.                                                            *)

LEMMA NeverLost ==
  ASSUME IInv, NEW id
  PROVE  Phase(id) \in Lifecycle!Phases
PROOF BY DEF IInv, NoSampleLost, Phase, Lifecycle!Phases

LEMMA NothingMoves ==
  ASSUME \A id \in 1..MaxId : Phase(id)' = Phase(id)
  PROVE  UNCHANGED [id \in 1..MaxId |-> Phase(id)]
PROOF OBVIOUS

LEMMA OneMoves ==
  ASSUME NEW i \in 1..MaxId,
         \A id \in 1..MaxId : id # i => Phase(id)' = Phase(id),
         \/ Phase(i) = "unsampled" /\ Phase(i)' = "queued"
         \/ Phase(i) = "queued" /\ Phase(i)' \in {"held", "refused"}
         \/ Phase(i) = "held" /\ Phase(i)' = "stored"
  PROVE  Lifecycle!Next
PROOF
<1> DEFINE p == [id \in 1..MaxId |-> Phase(id)]
<1>1. p' = [p EXCEPT ![i] = Phase(i)'] /\ p[i] = Phase(i)
  OBVIOUS
<1> QED
  BY <1>1 DEF Lifecycle!Next, Lifecycle!Report, Lifecycle!Store, Lifecycle!Acknowledge,
              Lifecycle!Refuse, Lifecycle!Move

LEMMA SomeWithdrawn ==
  ASSUME IInv', \A id \in 1..MaxId : Phase(id)' \in {Phase(id), "withdrawn"}
  PROVE  Lifecycle!Next
PROOF
<1>1. \A id \in 1..MaxId : Phase(id)' \in Lifecycle!Phases
  BY DEF IInv, NoSampleLost, Phase, Lifecycle!Phases
<1> QED BY <1>1 DEF Lifecycle!Next, Lifecycle!Withdraw

\* A sample stays where it is unless something becomes of it.
LEMMA StaysPut ==
  ASSUME NEW id,
         id \in retracted' <=> id \in retracted,
         id \in sampled' <=> id \in sampled,
         id \in sampled \ retracted =>
           /\ id \in refused' <=> id \in refused
           /\ id \notin refused =>
                /\ id \in IdsOf(storage'.pending) <=> id \in IdsOf(storage.pending)
                /\ id \in StoredIds' <=> id \in StoredIds
  PROVE  Phase(id)' = Phase(id)
PROOF
<1>1. IdsOf(storage.pending)' = IdsOf(storage'.pending)
  BY DEF IdsOf
<1> QED BY <1>1 DEF Phase

LEMMA TurnMoves ==
  ASSUME RInv, NEW t \in Tabs, NEW st, Turn(t, st)
  PROVE  Lifecycle!Next \/ UNCHANGED [id \in 1..MaxId |-> Phase(id)]
PROOF
<1>1. /\ IInv /\ IInv' /\ nextId \in Nat
      /\ \A id \in sampled : id \in Nat /\ id < nextId
  BY TurnKeepsIInv DEF RInv, IInv, TypeOK, SampledBefore
<1>2. /\ storage' = st /\ StoredIds' = StoredIds /\ refused' = refused
      /\ sampled \subseteq sampled' /\ retracted \subseteq retracted'
      /\ \A id \in sampled' \ sampled : id \in IdsOf(st.pending)
      /\ \A p \in st.pending \ storage.pending : p.id >= nextId
      /\ \A id \in IdsOf(storage.pending) : id \in IdsOf(st.pending) \cup retracted'
      /\ \/ sampled' = sampled
         \/ retracted' = retracted /\ sampled' = sampled \cup {nextId}
  BY DEF Turn, Refreshed, StoredIds, serverVars
<1>3. ASSUME NEW id \in sampled, id \notin retracted'
      PROVE  id \in IdsOf(storage'.pending) <=> id \in IdsOf(storage.pending)
  <2>1. ASSUME NEW p \in st.pending, p.id = id PROVE id \in IdsOf(storage.pending)
    <3>1. id < nextId /\ id \in Nat
      BY <1>1
    <3>2. p \in storage.pending
      BY <1>1, <1>2, <2>1, <3>1
    <3> QED BY <2>1, <3>2 DEF IdsOf
  <2> QED BY <1>2, <1>3, <2>1 DEF IdsOf
<1>4. ASSUME NEW id, id \in sampled' <=> id \in sampled, id \notin retracted' \ retracted
      PROVE  Phase(id)' = Phase(id)
  BY <1>2, <1>3, <1>4, StaysPut
<1>5. CASE sampled' = sampled
  <2>1. ASSUME NEW id \in retracted' PROVE Phase(id)' = "withdrawn"
    BY DEF Phase
  <2> QED BY <1>1, <1>4, <1>5, <2>1, SomeWithdrawn
<1>6. CASE retracted' = retracted /\ sampled' = sampled \cup {nextId}
  <2>0. PICK n : n = nextId
    OBVIOUS
  <2>1. \A id : id # n => Phase(id)' = Phase(id)
    BY <1>4, <1>6, <2>0
  <2>2. CASE n \in retracted \/ n \notin 1..MaxId
    <3>1. n \in retracted => Phase(n)' = Phase(n)
      BY <1>6 DEF Phase
    <3> QED BY <2>1, <2>2, <3>1, NothingMoves
  <2>3. CASE n \notin retracted /\ n \in 1..MaxId
    <3>1. n \notin sampled /\ n \notin StoredIds /\ n \notin refused
      BY <1>1, <2>0 DEF RInv, AnsweredBefore
    <3>2. n \in IdsOf(storage'.pending) /\ n \in sampled' /\ n \notin retracted'
      BY <1>2, <1>6, <2>0, <2>3, <3>1
    <3>3. Phase(n) = "unsampled"
      BY <2>3, <3>1 DEF Phase
    <3>4. IdsOf(storage.pending)' = IdsOf(storage'.pending)
      BY DEF IdsOf
    <3>5. Phase(n)' = "queued"
      BY <1>2, <3>1, <3>2, <3>4 DEF Phase
    <3> QED BY <2>1, <2>3, <3>3, <3>5, OneMoves
  <2> QED BY <2>2, <2>3
<1> QED BY <1>2, <1>5, <1>6

LEMMA FaultMoves ==
  ASSUME Fault
  PROVE  UNCHANGED [id \in 1..MaxId |-> Phase(id)]
PROOF
<1>1. /\ storage' = storage /\ sampled' = sampled /\ retracted' = retracted
      /\ refused' = refused /\ StoredIds' = StoredIds
  BY DEF Fault, history, serverVars, StoredIds
<1>2. \A id : Phase(id)' = Phase(id)
  BY <1>1, StaysPut
<1> QED BY <1>2, NothingMoves

\* An event leaves the outbox for an answer that is true.
LEMMA ReceiveMoves ==
  ASSUME RInv, NEW f \in Flushes, Receive(f)
  PROVE  Lifecycle!Next \/ UNCHANGED [id \in 1..MaxId |-> Phase(id)]
PROOF
<1>0. PICK i : i = wire[f].event.id
  OBVIOUS
<1>1. IInv /\ storage \in Storage
  BY DEF RInv, IInv, TypeOK
<1>2. /\ sampled' = sampled /\ retracted' = retracted
      /\ refused' = refused /\ StoredIds' = StoredIds
  BY DEF Receive, history, serverVars, StoredIds
<1>3. CASE ~Settles(wire[f].status)
  <2>1. storage' = storage
    BY <1>3 DEF Receive
  <2>2. \A id : Phase(id)' = Phase(id)
    BY <1>2, <2>1, StaysPut
  <2> QED BY <2>2, NothingMoves
<1>4. CASE Settles(wire[f].status)
  <2>1. storage'.pending = {p \in storage.pending : p.id # i}
    BY <1>0, <1>1, <1>4 DEF Receive, Repo!RemovePendingEvent, Repo!Without, Storage
  <2>2. \A id : id # i => (id \in IdsOf(storage'.pending) <=> id \in IdsOf(storage.pending))
    BY <2>1 DEF IdsOf
  <2>3. i \notin IdsOf(storage'.pending)
    BY <2>1 DEF IdsOf
  <2>4. \A id : id # i => Phase(id)' = Phase(id)
    BY <1>2, <2>2, StaysPut
  <2>5. CASE i \in sampled \ retracted /\ i \notin refused /\ i \in IdsOf(storage.pending)
             /\ i \in 1..MaxId
    <3>1. IsSample(wire[f].event)
      BY <1>0, <1>1, <2>5 DEF IInv, RequestsSound, Sound, Receive, IsSample
    <3>2. i \in StoredIds
      BY <1>0, <1>1, <1>4, <2>5, <3>1 DEF IInv, AnswersTrue, Receive
    <3>3. Phase(i) = "held"
      BY <2>5, <3>2 DEF Phase
    <3>4. IdsOf(storage.pending)' = IdsOf(storage'.pending)
      BY DEF IdsOf
    <3>5. Phase(i)' = "stored"
      BY <1>2, <2>3, <2>5, <3>2, <3>4 DEF Phase
    <3> QED BY <2>4, <2>5, <3>3, <3>5, OneMoves
  <2>6. CASE i \notin 1..MaxId
    BY <2>4, <2>6, NothingMoves
  <2>7. CASE ~(i \in sampled \ retracted /\ i \notin refused /\ i \in IdsOf(storage.pending))
    <3>1. Phase(i)' = Phase(i)
      BY <1>2, <2>3, <2>7, StaysPut
    <3> QED BY <2>4, <3>1, NothingMoves
  <2> QED BY <2>5, <2>6, <2>7
<1> QED BY <1>3, <1>4

\* The server stores or refuses a sample that is still in the outbox, or has
\* done so before; and forgets only rows of rings taken back.
LEMMA DeliverMoves ==
  ASSUME RInv, NEW f \in Flushes, NEW status \in Statuses, Deliver(f, status)
  PROVE  Lifecycle!Next \/ UNCHANGED [id \in 1..MaxId |-> Phase(id)]
PROOF
<1>0. PICK event, i : event = wire[f].event /\ i = event.id
  OBVIOUS
<1>1. /\ TypeOK /\ IInv /\ wire[f].phase = "request" /\ Handle(event, status)
      /\ UNCHANGED <<storage, sampled, retracted>>
      /\ refused' = IF IsSample(event) /\ status = "rejected"
                    THEN refused \cup {i} ELSE refused
  BY <1>0 DEF RInv, IInv, Deliver
<1>2. Underway(event) /\ event \in Request /\ Sound(event)
  <2>1. Underway(event)
    BY <1>0, <1>1 DEF Underway
  <2> QED BY <1>1, <2>1, UnderwaySound
<1>3. /\ \A id \in StoredIds :
           id \in StoredIds' \/ (event.kind = "task_delete" /\ id \in event.eventIds)
      /\ \A id \in StoredIds' : id \in StoredIds \/ id = i
      /\ status = "rejected" /\ IsSample(event) => ~Accepted(event)
      /\ status = "rejected" => StoredIds' = StoredIds
  <2>1. status = "rejected" => StoredIds' = StoredIds
    BY <1>1, <1>2, HandleStores DEF StoredIds, serverVars
  <2> QED BY <1>0, <1>1, <1>2, <2>1, HandleKeepsRows, HandleStores
<1>4. \A id \in StoredIds \ retracted : id \in StoredIds'
  BY <1>2, <1>3 DEF Sound
<1>5. \A id : id # i => Phase(id)' = Phase(id)
  BY <1>1, <1>3, <1>4, StaysPut
<1>6. CASE i \notin 1..MaxId
  BY <1>5, <1>6, NothingMoves
<1>7. CASE i \notin sampled \ retracted \/ i \in refused
  <2>1. Phase(i)' = Phase(i)
    BY <1>1, <1>7, StaysPut
  <2> QED BY <1>5, <2>1, NothingMoves
<1>8. CASE i \in 1..MaxId /\ i \in sampled \ retracted /\ i \notin refused
  <2>1. i \in IdsOf(storage.pending) \cup StoredIds
    BY <1>1, <1>8 DEF IInv, NoSampleLost
  <2>2. IsSample(event)
    BY <1>0, <1>2, <1>8 DEF Sound, IsSample
  <2>3. IdsOf(storage.pending)' = IdsOf(storage.pending)
    BY <1>1 DEF IdsOf
  <2>4. CASE status = "rejected"
    <3>1. i \notin StoredIds
      BY <1>0, <1>2, <1>3, <2>2, <2>4 DEF RInv, StoredAccepted
    <3>2. Phase(i) = "queued"
      BY <1>8, <2>1, <3>1 DEF Phase
    <3>3. Phase(i)' = "refused"
      BY <1>1, <1>8, <2>2, <2>4 DEF Phase
    <3> QED BY <1>5, <1>8, <3>2, <3>3, OneMoves
  <2>5. CASE status # "rejected" /\ i \in StoredIds' /\ i \notin StoredIds
    <3>1. Phase(i) = "queued"
      BY <1>8, <2>1, <2>5 DEF Phase
    <3>2. Phase(i)' = "held"
      BY <1>1, <1>8, <2>1, <2>3, <2>5 DEF Phase
    <3> QED BY <1>5, <1>8, <3>1, <3>2, OneMoves
  <2>6. CASE status # "rejected" /\ (i \in StoredIds' <=> i \in StoredIds)
    <3>1. Phase(i)' = Phase(i)
      BY <1>1, <2>6, StaysPut
    <3> QED BY <1>5, <3>1, NothingMoves
  <2> QED BY <1>4, <1>8, <2>4, <2>5, <2>6
<1> QED BY <1>6, <1>7, <1>8

-----------------------------------------------------------------------------
\* Whatever tabs, activations, the network and the server do, every sample is
\* queued once, stored or refused, acknowledged, or taken back, in that order:
\* flushPendingEvents and the handlers of the server implement the lifecycle
\* (app.mjs:474-487, api.go:63-172).
THEOREM Implements == Spec => ImplementsLifecycle
PROOF
<1> DEFINE p == [id \in 1..MaxId |-> Phase(id)]
<1>1. Init => Lifecycle!Init
  BY DEF Init, Phase, Lifecycle!Init
<1>2. RInv /\ [Next]_vars => [Lifecycle!Next]_p
  <2> SUFFICES ASSUME RInv, [Next]_vars PROVE Lifecycle!Next \/ UNCHANGED p
    OBVIOUS
  <2>1. IInv
    BY DEF RInv
  <2> QED BY <2>1, StepKinds, TurnMoves, FaultMoves, ReceiveMoves, DeliverMoves
<1> QED BY <1>1, <1>2, InitRInv, NextRInv, PTL DEF Spec, ImplementsLifecycle, Lifecycle!Spec
=============================================================================
