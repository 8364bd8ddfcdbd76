---------------------------- MODULE ApprovalGate ----------------------------
(***************************************************************************)
(* The human gate, abstractly: the user grants one option of a             *)
(* recommendation, once; only its actions ever reach the outside world,    *)
(* each of them at most once.                                              *)
(***************************************************************************)
CONSTANTS
  Rec, Action,
  None,
  Offers,    \* [Rec -> sets of options]
  ActionsOf  \* [option -> SUBSET Action]

VARIABLES
  granted,   \* [Rec -> an option or None]
  performed  \* pairs <<rec, action>> that reached the outside world

Init == granted = [r \in Rec |-> None] /\ performed = {}

Grant(r, o) ==
  /\ granted[r] = None
  /\ granted' = [granted EXCEPT ![r] = o]
  /\ UNCHANGED performed

Perform(r, x) ==
  /\ granted[r] # None
  /\ x \in ActionsOf[granted[r]]
  /\ <<r, x>> \notin performed
  /\ performed' = performed \cup {<<r, x>>}
  /\ UNCHANGED granted

Next ==
  \/ \E r \in Rec : \E o \in Offers[r] : Grant(r, o)
  \/ \E r \in Rec, x \in Action : Perform(r, x)

Spec == Init /\ [][Next]_<<granted, performed>>
=============================================================================
