------------------------------- MODULE MCSync -------------------------------
(***************************************************************************)
(* A source whose item appears, changes and disappears, and one whose item *)
(* disappears and comes back as it was.                                    *)
(***************************************************************************)
EXTENDS Sync

CONSTANTS a, b

MCHints == {-1, 5}

MCContent == <<a, b, Absent>>

MCContentBack == <<a, Absent, a>>
=============================================================================
