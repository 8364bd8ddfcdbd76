---------------------------- MODULE MCEventQueue ----------------------------
(***************************************************************************)
(* A small workload with one of everything.  Two writers submit the same   *)
(* fact under one dedup key (the two "twin" rows); whichever wins fans out *)
(* into a child with an effect, whose result event again asks for one and  *)
(* has a child past the depth budget; the poison row sits in the most      *)
(* urgent lane; the timer row is held back in the background lane.         *)
(***************************************************************************)
EXTENDS EventQueue, Backoff

MCEvent == {"twinA", "twinB", "kidA", "kidB", "resultA", "tooDeep", "poison", "timer"}

MCKey == [e \in MCEvent |-> IF e \in {"twinA", "twinB"} THEN "k" ELSE "none"]

MCLane == [e \in MCEvent |->
  CASE e \in {"twinA", "twinB", "poison"} -> 0 [] e = "timer" -> 2 [] OTHER -> 1]

MCDepth == [e \in MCEvent |->
  CASE e \in {"kidA", "kidB", "timer"} -> 1
    [] e = "resultA" -> 2 [] e = "tooDeep" -> 3 [] OTHER -> 0]

MCHold == [e \in MCEvent |-> IF e = "timer" THEN 2 ELSE 0]

MCRetryAfter == [n \in 1..(MaxAttempts - 1) |-> RetryDelay(n)]

MCRoots == {"twinA", "twinB", "poison"}

MCChildren == [e \in MCEvent |->
  CASE e = "twinA" -> {"kidA", "timer"} [] e = "twinB" -> {"kidB"}
    [] e = "resultA" -> {"tooDeep"} [] OTHER -> {}]

MCLaunches == {"kidA", "kidB", "resultA"}

MCResults == [e \in MCEvent |-> IF e = "kidA" THEN {"resultA"} ELSE {}]

MCPoison == {"poison"}

=============================================================================
