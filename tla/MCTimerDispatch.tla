--------------------------- MODULE MCTimerDispatch ---------------------------
(***************************************************************************)
(* Instances of TimerDispatch for TLC: who sets and cancels which timer,   *)
(* and how often.                                                          *)
(***************************************************************************)
EXTENDS TimerDispatch, FiniteSets, FiniteSetsExt

CONSTANTS a, b

\* A thread of its own for every timer (at most two), or two that share all.
OwnTimers ==
  CHOOSE u \in [Timers -> {{a}, {b}}] :
    Cardinality(Timers) = 2 => \E s, t \in Timers : u[s] # u[t]
SharedTimers == [tm \in Timers |-> {a, b}]

\* Two calls that set a timer: the same timer twice, or two timers.
TwoArmings ==
  {f \in [Timers -> 0..2] : MapThenSumSet(LAMBDA tm : f[tm], Timers) <= 2}
=============================================================================
