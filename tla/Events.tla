------------------------------- MODULE Events -------------------------------
(***************************************************************************)
(* The values the browser and the server exchange: the requests waiting in *)
(* the browser's outbox (storage.mjs, pendingEvents), which are also the   *)
(* bodies of the HTTP calls (app.mjs builds them, api.go decodes them).    *)
(*                                                                         *)
(* Identifiers are random UUIDs in the code.  Here they are the naturals   *)
(* in the order they are drawn; every array of the program that this       *)
(* project keeps as a set is only appended to in the turn that draws the   *)
(* identifier and filtered afterwards, so the order of the array is the    *)
(* order of the identifiers.                                               *)
(***************************************************************************)
EXTENDS Integers

CONSTANT LastRing    \* rings of one cycle; 100 in the code

ASSUME LastRingAssumption == LastRing \in Nat \ {0}

\* What a ring ended with.  The score is the one scoreResolution computes;
\* "whole" says whether the two qualities typed in are whole numbers, which
\* the browser does not ask for and the server's JSON decoder does.
Resolutions == {"fulfilled", "quality_below", "mutant_unspecified",
                "normal_pet", "skipped"}
RingResult == [resolution : Resolutions, score : Int, whole : BOOLEAN]

TaskRequest(id, ringNumber, result) ==
  [kind |-> "task", id |-> id, ringNumber |-> ringNumber, result |-> result]

\* Of the final score only what the server tells apart is kept: whether it is
\* in the range the handler and the table accept.
RewardRequest(id, finalScore) ==
  [kind |-> "reward", id |-> id, inRange |-> finalScore \in -1000..2000]

DeleteRequest(id, eventIds) ==
  [kind |-> "task_delete", id |-> id, eventIds |-> eventIds]

IsSample(event) == event.kind # "task_delete"

Request ==
  [kind : {"task"}, id : Nat, ringNumber : Nat, result : RingResult]
    \cup [kind : {"reward"}, id : Nat, inRange : BOOLEAN]
    \cup [kind : {"task_delete"}, id : Nat, eventIds : SUBSET Nat]

\* The first and the last element of what the program keeps as an array.
IsFirst(x, S) == \A y \in S : x.id <= y.id
IsLast(x, S)  == \A y \in S : y.id <= x.id
IdsOf(S)      == {x.id : x \in S}
=============================================================================
