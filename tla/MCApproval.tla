----------------------------- MODULE MCApproval -----------------------------
(***************************************************************************)
(* One recommendation that offers a full option (two actions, one of them  *)
(* optional, and an automation) and a lighter one, of which only one can   *)
(* be approved.  Recommendations share nothing but the effect pool, which  *)
(* the three effects of the full option already overfill.                  *)
(***************************************************************************)
EXTENDS Approval, Backoff

CONSTANTS r1, full, light, comment, close

MCOffers == [r \in Rec |-> Option]

MCActionsOf == [o \in Option |-> IF o = full THEN {comment, close} ELSE {close}]

MCRetryAfter == [n \in 1..(MaxAttempts - 1) |-> RetryDelay(n)]
=============================================================================
