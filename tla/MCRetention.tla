---------------------------- MODULE MCRetention ----------------------------
(***************************************************************************)
(* Two recommendations, the default policy and one change of it, to        *)
(* "never", to "keep" or back to a duration.                               *)
(***************************************************************************)
EXTENDS Retention
=============================================================================
