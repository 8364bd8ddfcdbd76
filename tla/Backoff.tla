------------------------------ MODULE Backoff ------------------------------
(***************************************************************************)
(* The retry clocks of the daemon, as pure functions.  One time unit is    *)
(* one second in RetryDelay, so core/queue.js's base of 1000 ms is 1 and   *)
(* its cap of five minutes is 300; the other two name base and cap.        *)
(***************************************************************************)
EXTENDS Integers

AtMost(a, cap) == IF a <= cap THEN a ELSE cap
AtLeast(a, floor) == IF a >= floor THEN a ELSE floor

(* recordFailure: the wait after the n-th failed attempt, n >= 1.          *)
RetryDelay(n) == AtMost(2 ^ (n - 1), 300)

(* syncRetryDelayMs: a positive hint of the source counts, up to the cap;  *)
(* else the delay doubles with the streak, up to the cap.  No hint is -1.  *)
SyncRetryDelay(failures, hint, base, cap) ==
  IF hint > 0 THEN AtMost(hint, cap)
  ELSE AtMost(base * 2 ^ (AtLeast(failures, 1) - 1), cap)

(* prCheckDelayMs: doubles with the probes made, up to a cap that is never *)
(* below the base.                                                         *)
PrCheckDelay(attempts, base, cap) ==
  AtMost(base * 2 ^ AtLeast(attempts, 0), AtLeast(cap, base))
=============================================================================
