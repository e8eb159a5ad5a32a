---------------------------- MODULE MCTimerPool ----------------------------
(* Instances of TimerPool for TLC: two timers of a few kinds.                *)
EXTENDS TimerPool, TLC

\* An IntervalTimer that fires n times; everything else is added by EXCEPT.
Interval(n) ==
  [repetitions |-> n, oneshot |-> FALSE, variable |-> FALSE, keep_alive |-> FALSE,
   detached |-> FALSE, ignore |-> FALSE, blocks |-> FALSE, slow |-> FALSE]

Endless == Interval(Infinite)

Slow   == [Interval(2) EXCEPT !.slow = TRUE, !.ignore = TRUE]
Kept2  == [Interval(2) EXCEPT !.keep_alive = TRUE, !.detached = TRUE, !.blocks = TRUE]
Varies == [Interval(2) EXCEPT !.variable = TRUE, !.ignore = TRUE, !.keep_alive = TRUE]
Once   == [Endless EXCEPT !.oneshot = TRUE, !.detached = TRUE]

CONSTANTS s, t

\* Every kind occurs.  A callback
\* that is slow without end is left to SlowKinds.
MCKinds ==
  { (s :> Kept2) @@ (t :> Once),
    (s :> Kept2) @@ (t :> Interval(0)),
    (s :> Endless) @@ (t :> Slow),
    (s :> Endless) @@ (t :> Varies) }

\* An endless timer whose callback can outlast its interval.
SlowKinds == { (s :> Once) @@ (t :> [Endless EXCEPT !.slow = TRUE]) }
=============================================================================
