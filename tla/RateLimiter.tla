---------------------------- MODULE RateLimiter ----------------------------
(***************************************************************************)
(* src/internal/httpapi/ratelimit.go: the fixed-window limiter in front of *)
(* every event handler.  allow() runs under a mutex and reads the clock    *)
(* inside it, so a call is one step.  The map lives in memory only.        *)
(***************************************************************************)
EXTENDS Integers, FiniteSets

CONSTANTS
  Keys,      \* device hash and client address
  Limit,     \* 240 unless configured
  Window,    \* one hour unless configured
  MaxClock   \* bound: time units of a behaviour

\* New replaces a limit or a window that is not positive by the default.
ASSUME LimiterAssumption ==
  /\ Limit \in Nat \ {0}
  /\ Window \in Nat \ {0}
  /\ MaxClock \in Nat

VARIABLES
  clock,
  items,      \* per key, limitEntry; the zero value stands for an absent key
  admitted,   \* history: the calls this process answered with true
  refused     \* history: the calls it answered with false

vars == <<clock, items, admitted, refused>>

NoEntry == [windowStart |-> 0, count |-> 0]

\* Slip: a window lasts until its length has been exceeded.
OverLate(entry) == entry.windowStart = 0 \/ clock - entry.windowStart > Window

\* No window is running for the entry: it is the zero value or it is over.
Over(entry) == entry.windowStart = 0 \/ clock - entry.windowStart >= Window

\* Slip: the comparison lets one call more through.
ExhaustedLate(entry) == entry.count > Limit

Exhausted(entry) == entry.count >= Limit

\* The call is answered with true and the entry becomes e.
Admit(k, e) ==
  /\ items' = [items EXCEPT ![k] = e]
  /\ admitted' = admitted \cup
       {[key |-> k, window |-> e.windowStart, n |-> e.count, time |-> clock]}
  /\ UNCHANGED <<clock, refused>>

OpenWindow(k) ==
  /\ Over(items[k])
  /\ Admit(k, [windowStart |-> clock, count |-> 1])

CountIn(k) ==
  /\ ~Over(items[k])
  /\ ~Exhausted(items[k])
  /\ Admit(k, [items[k] EXCEPT !.count = @ + 1])

Refuse(k) ==
  /\ ~Over(items[k])
  /\ Exhausted(items[k])
  /\ refused' = refused \cup {[key |-> k, time |-> clock]}
  /\ UNCHANGED <<clock, items, admitted>>

Tick == clock < MaxClock /\ clock' = clock + 1 /\ UNCHANGED <<items, admitted, refused>>

\* A new process starts with an empty map; the histories are of one process.
Restart ==
  /\ items' = [k \in Keys |-> NoEntry]
  /\ admitted' = {}
  /\ refused' = {}
  /\ UNCHANGED clock

Init ==
  /\ clock = 1
  /\ items = [k \in Keys |-> NoEntry]
  /\ admitted = {}
  /\ refused = {}

Next ==
  \/ \E k \in Keys : OpenWindow(k) \/ CountIn(k) \/ Refuse(k)
  \/ Tick
  \/ Restart

Spec == Init /\ [][Next]_vars

-----------------------------------------------------------------------------
Call == [key : Keys, window : Nat \ {0}, n : 1..Limit, time : Nat]

\* Types; in particular no entry ever counts beyond the limit.
TypeOK ==
  /\ clock \in Nat \ {0}
  /\ items \in [Keys -> [windowStart : Nat, count : 0..Limit]]
  /\ admitted \subseteq Call
  /\ refused \subseteq [key : Keys, time : Nat]

\* The calls of key k let through from time t on, for the length of a window.
AdmittedFrom(k, t) ==
  {c \in admitted : c.key = k /\ t <= c.time /\ c.time < t + Window}

\* What a fixed window can promise: any stretch of time as long as a window
\* lets at most twice the limit through, wherever the windows begin
\* (ratelimit.go:31-40).
BurstBound ==
  \A k \in Keys : \A t \in 0..clock : Cardinality(AdmittedFrom(k, t)) <= 2 * Limit

\* A call is refused only when, in the window's length that ends with it, the
\* limit was let through: a client below the limit never sees 429.
RefusedOnlyWhenFull ==
  \A r \in refused :
    Cardinality({c \in admitted : /\ c.key = r.key
                                  /\ r.time - Window < c.time
                                  /\ c.time <= r.time}) >= Limit
=============================================================================
