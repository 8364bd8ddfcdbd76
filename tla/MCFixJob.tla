------------------------------ MODULE MCFixJob ------------------------------
(***************************************************************************)
(* One job, a pool of one or two effects, two attempts per event.          *)
(***************************************************************************)
EXTENDS FixJob, Backoff

MCRetryAfter == [n \in 1..(MaxAttempts - 1) |-> RetryDelay(n)]
=============================================================================
