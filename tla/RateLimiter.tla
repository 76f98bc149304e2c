---------------------------- MODULE RateLimiter ----------------------------
(***************************************************************************)
(* One RateLimiter of internal/server/middleware.go: a fixed window per    *)
(* key behind a mutex, with a sweep of the expired windows.  The clock is  *)
(* read before the mutex is taken, so a decision may use an old reading.   *)
(*                                                                         *)
(* passed, late and promise are history: no action reads them.  What the   *)
(* definitions of a state machine are commonly called is prefixed here, so *)
(* that a module can extend this one and Authentication.                   *)
(***************************************************************************)
EXTENDS Naturals, FiniteSets

CONSTANTS
  Callers,   \* requests that can be in flight at once
  Keys,      \* addresses or user ids
  Limit,     \* requests per window
  Window,    \* length of a window
  MaxClock   \* bound: the clock stops here

ASSUME LimiterAssumption ==
  /\ "none" \notin Keys
  /\ Limit \in Nat \ {0}
  /\ Window \in Nat \ {0}
  /\ MaxClock \in Nat \ {0}

VARIABLES
  clock,      \* from 1: 0 is Go's zero time
  buckets,    \* per key: count and reset
  lastPrune,
  asked,      \* per caller: what its request brings to the mutex
  passed,     \* per key: the requests let through in the last window's length
  late,       \* keys whose window was opened on an old reading
  promise     \* per key: the end of Retry-After since its last pass, or 0

limiterVars == <<clock, buckets, lastPrune, asked, passed, late, promise>>

Time    == 1..MaxClock
Fresh   == [count |-> 0, reset |-> 0]   \* a key the map does not hold
NotAsked == [key |-> "none", at |-> 0]

Bucket == [count : 0..Limit, reset : 0..(MaxClock + Window)]

\* When a request passed, the how manieth it was then, and whether it opened a
\* window: by the clock as it was, or on an old reading.
Pass == [at : Time, n : Nat, opens : {"no", "on time", "late"}]

\* Counters and times have the values they may have.
LimiterTypeOK ==
  /\ clock \in Time
  /\ buckets \in [Keys -> Bucket]
  /\ lastPrune \in 0..MaxClock
  /\ asked \in [Callers -> [key : Keys, at : Time] \cup {NotAsked}]
  /\ passed \in [Keys -> SUBSET Pass]
  /\ late \subseteq Keys
  /\ promise \in [Keys -> 0..(MaxClock + Window)]

LimiterInit ==
  /\ clock = 1
  /\ buckets = [k \in Keys |-> Fresh]
  /\ lastPrune = 0
  /\ asked = [c \in Callers |-> NotAsked]
  /\ passed = [k \in Keys |-> {}]
  /\ late = {}
  /\ promise = [k \in Keys |-> 0]

ClockTicks ==
  /\ clock < MaxClock
  /\ clock' = clock + 1
  /\ passed' = [k \in Keys |-> {p \in passed[k] : p.at + Window > clock + 1}]
  /\ UNCHANGED <<buckets, lastPrune, asked, late, promise>>

\* A request of key k reads the clock; it does not have the mutex yet.
ReadClock(c, k) ==
  /\ asked[c] = NotAsked
  /\ asked' = [asked EXCEPT ![c] = [key |-> k, at |-> clock]]
  /\ UNCHANGED <<clock, buckets, lastPrune, passed, late, promise>>

\* !now.Before(bucket.reset)
Expired(b, t) == t >= b.reset

\* pruneExpired: at most once per window.
Pruned(t) ==
  IF lastPrune # 0 /\ t < lastPrune + Window THEN buckets
  ELSE [k \in Keys |-> IF Expired(buckets[k], t) THEN Fresh ELSE buckets[k]]

Sweep(t) == lastPrune' = IF lastPrune # 0 /\ t < lastPrune + Window
                         THEN lastPrune ELSE t

\* mutant: one more than the limit
RoomForOneMore(b) == b.count <= Limit

\* bucket.count < limit
Room(b) == b.count < Limit

\* mutant: a refusal starts the window again
Extended(b, t) == [b EXCEPT !.reset = t + Window]

\* A refusal leaves the bucket as it was.
Refused(b, t) == b

\* A request of key k passes.
Passes(k, opens) ==
  passed' = [passed EXCEPT ![k] =
               @ \cup {[at |-> clock, opens |-> opens,
                        n |-> Cardinality({p \in @ : p.at = clock}) + 1]}]

\* The keys in late whose window the sweep at t leaves.
StillLate(t) == {k \in late : Pruned(t)[k] # Fresh}

\* allow returns true: a new window, or room in the current one.
Allow(c) ==
  LET k == asked[c].key   t == asked[c].at   b == Pruned(t)[k] IN
  /\ asked[c] # NotAsked
  /\ \/ /\ b.reset = 0 \/ Expired(b, t)
        /\ buckets' = [Pruned(t) EXCEPT ![k] = [count |-> 1, reset |-> t + Window]]
        /\ Passes(k, IF t < clock THEN "late" ELSE "on time")
        /\ late' = IF t < clock THEN StillLate(t) \cup {k} ELSE StillLate(t) \ {k}
     \/ /\ b.reset # 0 /\ ~Expired(b, t)
        /\ Room(b)
        /\ buckets' = [Pruned(t) EXCEPT ![k].count = b.count + 1]
        /\ Passes(k, "no")
        /\ late' = StillLate(t)
  /\ Sweep(t)
  /\ asked' = [asked EXCEPT ![c] = NotAsked]
  /\ promise' = [promise EXCEPT ![k] = 0]
  /\ UNCHANGED clock

\* allow returns false and the rest of the window, sent as Retry-After.
Refuse(c) ==
  LET k == asked[c].key   t == asked[c].at   b == Pruned(t)[k] IN
  /\ asked[c] # NotAsked
  /\ b.reset # 0 /\ ~Expired(b, t)
  /\ ~Room(b)
  /\ buckets' = [Pruned(t) EXCEPT ![k] = Refused(b, t)]
  /\ Sweep(t)
  /\ asked' = [asked EXCEPT ![c] = NotAsked]
  /\ late' = StillLate(t)
  /\ promise' = [promise EXCEPT ![k] = b.reset]
  /\ UNCHANGED <<clock, passed>>

LimiterNext ==
  \/ ClockTicks
  \/ \E c \in Callers : \/ \E k \in Keys : ReadClock(c, k)
                        \/ Allow(c)
                        \/ Refuse(c)

LimiterSpec == LimiterInit /\ [][LimiterNext]_limiterVars

-----------------------------------------------------------------------------
LateOpenings(P) == {p \in P : p.opens = "late"}

\* RateLimiter.allow (middleware.go:78): in any stretch of one window's length
\* at most two windows' worth of requests of a key pass (a full window ends and
\* the next one begins within it), however the requests and the sweep
\* interleave.  Only a window that was opened within it on an old reading of
\* the clock, and so ends early, adds a window's worth.
WindowBudget ==
  \A k \in Keys :
    Cardinality(passed[k]) <= (2 + Cardinality(LateOpenings(passed[k]))) * Limit

\* Retry-After (middleware.go:96, 167) is a promise: a request that reads the
\* clock after the time it names is refused only if another request of the key
\* was let through since.
RetryHonoured ==
  [][\A c \in Callers :
       LET k == asked[c].key IN
       (Refuse(c) /\ promise[k] # 0) => asked[c].at < promise[k]]_limiterVars

\* pruneExpired (middleware.go:104): the map keeps no window that had ended at
\* the last sweep, so it holds only the keys of the last two windows, but for a
\* window that an old reading has opened since.
ExpiredAreSwept ==
  \A k \in Keys : \/ buckets[k] = Fresh
                  \/ buckets[k].reset > lastPrune
                  \/ k \in late
=============================================================================
