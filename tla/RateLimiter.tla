---------------------------- MODULE RateLimiter ----------------------------
(***************************************************************************)
(* The two limiters of middleware/rateLimiter.js: one in front of every    *)
(* route, one in front of /auth.  Each counts the requests of a client (an *)
(* IP) in a window that its first request opens, in the memory of the API  *)
(* process; express-rate-limit and its MemoryStore are modelled from that  *)
(* use.                                                                    *)
(***************************************************************************)
EXTENDS Integers

CONSTANTS
  Clients,                  \* the IPs requests come from
  GeneralLimit, AuthLimit,  \* requests let through in a window
  Window,                   \* length of a window
  MaxClock                  \* bound: time passes up to here

VARIABLES
  now,
  generalHits, authHits   \* the counter of each client, for either limiter

limiterVars == <<now, generalHits, authHits>>
-----------------------------------------------------------------------------
ASSUME LimiterAssumption ==
  /\ GeneralLimit \in Nat \ {0} /\ AuthLimit \in Nat \ {0}
  /\ Window \in Nat /\ MaxClock \in Nat   \* a window of no length never fills

Counter(limit) == [hits : 0..(limit + 1), resetAt : 0..(MaxClock + Window)]

LimiterTypeOK ==
  /\ now \in 0..MaxClock
  /\ generalHits \in [Clients -> Counter(GeneralLimit)]
  /\ authHits \in [Clients -> Counter(AuthLimit)]

\* An empty store: whatever comes next opens a window.
NoHits == [c \in Clients |-> [hits |-> 0, resetAt |-> 0]]

LimiterInit == now = 0 /\ generalHits = NoHits /\ authHits = NoHits

Tick == now < MaxClock /\ now' = now + 1
-----------------------------------------------------------------------------
\* Mutant: every request moves the end of the window, a refused one too.
Renewed(counter, limit) ==
  [hits |-> IF counter.resetAt <= now THEN 1
            ELSE IF counter.hits > limit THEN counter.hits ELSE counter.hits + 1,
   resetAt |-> now + Window]

\* One more request: it opens a window, or counts in the one that is open even
\* when it is going to be refused.  Bound: beyond the limit there is no more to
\* count.
Counted(counter, limit) ==
  IF counter.resetAt <= now THEN [hits |-> 1, resetAt |-> now + Window]
  ELSE [counter EXCEPT !.hits = IF @ > limit THEN @ ELSE @ + 1]

\* Mutant: the count is compared before the request is added to it.
ComparedFirst(counter, limit) == counter.resetAt <= now \/ counter.hits <= limit

LetsThrough(counter, limit) == Counted(counter, limit).hits <= limit

PassesGeneral(c) == LetsThrough(generalHits[c], GeneralLimit)
PassesAuth(c) == LetsThrough(authHits[c], AuthLimit)

CountGeneral(c) == generalHits' = [generalHits EXCEPT ![c] = Counted(@, GeneralLimit)]
CountAuth(c) == authHits' = [authHits EXCEPT ![c] = Counted(@, AuthLimit)]

\* The process restarts with empty stores.
ForgetHits == generalHits' = NoHits /\ authHits' = NoHits
=============================================================================
