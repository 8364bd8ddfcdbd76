---------------------------- MODULE MCItemTriage ----------------------------
(***************************************************************************)
(* An item with two versions and a user with a few commands.               *)
(***************************************************************************)
EXTENDS ItemTriage, Backoff

CONSTANTS c1, c2

MCRetryAfter == [n \in 1..(MaxAttempts - 1) |-> RetryDelay(n)]
=============================================================================
