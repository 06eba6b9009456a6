------------------------------ MODULE TickGrid ------------------------------
(***************************************************************************)
(* The times of an EveryFixedRate task: base + k * interval, k > 0.  Times *)
(* are integers, durations are as wide as the code's: MaxInt64 stands for  *)
(* the largest, a difference of times saturates there and a product wraps. *)
(***************************************************************************)
EXTENDS Integers

CONSTANT MaxInt64

ASSUME WidthAssumption == MaxInt64 \in Nat \ {0}

Width == 2 * (MaxInt64 + 1)

Wrapped(d) == ((d + MaxInt64 + 1) % Width) - (MaxInt64 + 1)

\* time.Time.Sub, for now not before base.
Since(base, now) == IF now - base > MaxInt64 THEN MaxInt64 ELSE now - base

NextTickAfter(base, interval, now) ==
  IF interval <= 0 THEN now
  ELSE IF now < base THEN base + interval
  ELSE base + Wrapped((Since(base, now) \div interval + 1) * interval)

\* A tick of the grid; its number is at most the distance.
OnGrid(base, interval, t) == \E k \in 1 .. t - base : t = base + k * interval

-----------------------------------------------------------------------------
(* Reference *)

\* The first tick of the grid after now, for as long as it can be told as a duration.
FirstAfter(base, interval, now, t) ==
  /\ OnGrid(base, interval, t)
  /\ t > now
  /\ now >= base => t - interval <= now
=============================================================================
