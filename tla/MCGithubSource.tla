--------------------------- MODULE MCGithubSource ---------------------------
(***************************************************************************)
(* A pull request of the user's in a repository configured by name, an     *)
(* issue of somebody else's in one of the user's that is discovered, and   *)
(* one the user has opened elsewhere.                                      *)
(***************************************************************************)
EXTENDS GithubSource

CONSTANTS near, far, abroad

MCVia == [i \in Item |->
  CASE i = near -> "explicit" [] i = far -> "owned" [] i = abroad -> "authored"]
=============================================================================
