---------------------------- MODULE DurableWork ----------------------------
(***************************************************************************)
(* What the queue promises to whoever put a fact on it: an accepted fact   *)
(* is either finished once, handing over its follow-up facts in that very  *)
(* step, or is given up on, handing over none.  It is never forgotten and  *)
(* never finished twice; no crash, retry or delay is visible.              *)
(***************************************************************************)
CONSTANTS
  Event,   \* facts
  Outside, \* facts that come from outside, the others being follow-ups
  Follows  \* [Event -> SUBSET Event], the facts finishing one may hand over

VARIABLE stage  \* [Event -> {"unknown", "accepted", "done", "given_up"}]

Init == stage = [e \in Event |-> "unknown"]

Accept(e) ==
  /\ e \in Outside
  /\ stage[e] = "unknown"
  /\ stage' = [stage EXCEPT ![e] = "accepted"]

Finish(e) ==
  /\ stage[e] = "accepted"
  /\ \E more \in SUBSET Follows[e] :
       /\ \A f \in more : stage[f] = "unknown"
       /\ stage' = [f \in Event |-> IF f = e THEN "done"
                                    ELSE IF f \in more THEN "accepted"
                                    ELSE stage[f]]

GiveUp(e) ==
  /\ stage[e] = "accepted"
  /\ stage' = [stage EXCEPT ![e] = "given_up"]

Next == \E e \in Event : Accept(e) \/ Finish(e) \/ GiveUp(e)

Spec ==
  /\ Init /\ [][Next]_stage
  /\ \A e \in Event : WF_stage(Finish(e) \/ GiveUp(e))
=============================================================================
