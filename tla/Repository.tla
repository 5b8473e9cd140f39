----------------------------- MODULE Repository -----------------------------
(***************************************************************************)
(* src/web/storage.mjs: what each repository operation makes of the state  *)
(* kept in localStorage under 'pet-ring:v1'.  Every operation is one       *)
(* load - change - save in one JavaScript turn, so it is a function from   *)
(* the stored state to the stored state; EventSync applies them.  Prices,  *)
(* the player level, costs, dates and the totals of a finished cycle carry *)
(* no control and are left out.                                            *)
(***************************************************************************)
EXTENDS Events, FiniteSets, FiniteSetsExt

CONSTANT MaxHistory   \* cycles kept in the local history; 100 in the code

Consents == {"unasked", "share", "local"}   \* null, true and false in the code

DefaultState ==
  [consent |-> "unasked", initialRing |-> 0, initialScore |-> 0,
   entries |-> {}, history |-> {}, pending |-> {}]

EmptyCycle(st) ==
  [st EXCEPT !.initialRing = 0, !.initialScore = 0, !.entries = {}]

Without(pending, ids) == {p \in pending : p.id \notin ids}

TotalScore(st) ==
  st.initialScore + MapThenSumSet(LAMBDA x : x.result.score, st.entries)

AddEntry(st, entry) == [st EXCEPT !.entries = @ \cup {entry}]

\* Of the last entry; the caller finds out which one that was.
UndoEntry(st, removed) ==
  [st EXCEPT !.entries = @ \ {removed}, !.pending = Without(@, {removed.id})]

\* The entries that stay are numbered again from the cycle's first ring.
Renumbered(entries, initialRing) ==
  {[x EXCEPT !.ringNumber =
      initialRing + Cardinality({y \in entries : y.id <= x.id})] : x \in entries}

\* Slip: the entries that stay keep their numbers.
DeleteEntryOnly(st, id) ==
  [st EXCEPT !.entries = {x \in @ : x.id # id}, !.pending = Without(@, {id})]

DeleteEntry(st, id) ==
  LET kept == {x \in st.entries : x.id # id} IN
  [st EXCEPT !.entries = Renumbered(kept, st.initialRing),
             !.pending = Without(@, {id})]

UpdateCurrent(st, ring, score) ==
  [st EXCEPT !.initialRing = ring, !.initialScore = score]

ResetCurrent(st) ==
  EmptyCycle([st EXCEPT !.pending =
    {p \in @ : p.kind # "task" \/ p.id \notin IdsOf(st.entries)}])

\* Slip: one cycle too many.
NewestAndOne(history) ==
  {h \in history : Cardinality({g \in history : g.id > h.id}) <= MaxHistory}

\* The newest MaxHistory cycles.
Newest(history) ==
  {h \in history : Cardinality({g \in history : g.id > h.id}) < MaxHistory}

CompleteCycle(st, id) ==
  EmptyCycle([st EXCEPT !.history =
    Newest(@ \cup {[id |-> id, entries |-> st.entries]})])

DeleteHistory(st, id) == [st EXCEPT !.history = {h \in @ : h.id # id}]

SetConsent(st, value) == [st EXCEPT !.consent = value]

QueueEvent(st, event) ==
  IF \E p \in st.pending : p.id = event.id THEN st
  ELSE [st EXCEPT !.pending = @ \cup {event}]

RemovePendingEvent(st, id) == [st EXCEPT !.pending = Without(@, {id})]
=============================================================================
