------------------------------ MODULE RateLimiter ------------------------------
(***************************************************************************)
(* src/api/middleware/rate_limiter.py: the sliding window of one key, a    *)
(* user or address and a path.  It is the list of the times at which       *)
(* requests passed, in the memory of one process.                          *)
(***************************************************************************)
EXTENDS Integers, Sequences

CONSTANTS
  Limit,   \* requests of the path, per window
  Window   \* length of the window

ASSUME LimitAssumption == Limit \in Nat \ {0} /\ Window \in Nat \ {0}

\* The times that are still in the window.
Recent(times, now) ==
  LET kept[i \in 0..Len(times)] ==
        IF i = 0 THEN <<>>
        ELSE IF times[i] > now - Window THEN Append(kept[i - 1], times[i])
        ELSE kept[i - 1]
  IN  kept[Len(times)]

\* Mutant: a request more than the limit.
FullLate(times, now) == Len(Recent(times, now)) > Limit

Full(times, now) == Len(Recent(times, now)) >= Limit

\* Mutant: a request that is turned down counts as well.
PassedCountsAll(times, now) == Append(Recent(times, now), now)

\* The window after a request: one that is turned down leaves no mark.
Passed(times, now) ==
  IF Full(times, now) THEN Recent(times, now) ELSE Append(Recent(times, now), now)
=============================================================================
