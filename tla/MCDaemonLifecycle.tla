------------------------- MODULE MCDaemonLifecycle -------------------------
(***************************************************************************)
(* Two commands of every kind, one after the other or at once, against up  *)
(* to three daemon processes.                                              *)
(***************************************************************************)
EXTENDS DaemonLifecycle
=============================================================================
