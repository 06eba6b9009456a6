---------------------------- MODULE MCScheduler ----------------------------
(* A TLC instance of Scheduler: one caller beside the scheduler, one Shutdown. *)
EXTENDS Scheduler, TickGrid

CONSTANTS c1, k1

OneCall   == {c1}
OneCloser == {k1}

\* On a small width: within the range of the code the next tick is the first of its grid, and only
\* an interval that the time since the base exceeds can leave that range.
ASSUME GridAssumption ==
  \A base \in -1 .. 1, interval \in 1 .. MaxInt64, d \in -3 .. MaxInt64 :
    LET now  == base + d
        tick == NextTickAfter(base, interval, now)
    IN (2 * d <= MaxInt64 \/ d < interval) => FirstAfter(base, interval, now, tick)
=============================================================================
