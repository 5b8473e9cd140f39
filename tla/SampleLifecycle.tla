-------------------------- MODULE SampleLifecycle --------------------------
(***************************************************************************)
(* What the synchronisation promises of every sample, apart from tabs,     *)
(* activations, retries and faults: it is queued once; the server stores   *)
(* it or refuses it for good; the browser learns of a stored sample and    *)
(* only then lets it go; and whatever becomes of it, the user can take it  *)
(* back.  There is no other way for it to leave the outbox or the server.  *)
(***************************************************************************)
CONSTANT Ids

VARIABLE phase

Phases == {"unsampled",   \* not reported, or not yet
           "queued",      \* in the outbox only
           "held",        \* on the server, and still in the outbox
           "stored",      \* on the server only
           "refused",     \* answered 400
           "withdrawn"}   \* its ring was taken back

Move(id, from, to) == phase[id] = from /\ phase' = [phase EXCEPT ![id] = to]

Report(id)      == Move(id, "unsampled", "queued")
Store(id)       == Move(id, "queued", "held")
Acknowledge(id) == Move(id, "held", "stored")
Refuse(id)      == Move(id, "queued", "refused")

\* Any number of rings at once, sampled or not.
Withdraw ==
  /\ phase' \in [Ids -> Phases]
  /\ \A id \in Ids : phase'[id] \in {phase[id], "withdrawn"}

Init == phase = [id \in Ids |-> "unsampled"]

Next ==
  \/ Withdraw
  \/ \E id \in Ids : Report(id) \/ Store(id) \/ Acknowledge(id) \/ Refuse(id)

Spec == Init /\ [][Next]_phase
=============================================================================
