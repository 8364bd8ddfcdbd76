--------------------------- MODULE MCApprovedWork ---------------------------
(***************************************************************************)
(* Two recommendations, of which one is about the item at GitHub, with two *)
(* options.                                                                *)
(***************************************************************************)
EXTENDS ApprovedWork

CONSTANTS r1, r2

MCRec == {r1, r2}

Of(kind, r, d, push, create, method, allowed, first, second) ==
  [setup |-> [kind |-> kind, role |-> r, derived |-> d, push |-> push,
              create |-> create, method |-> method, allowed |-> allowed],
   offer |-> [o \in 0..1 |-> IF o = 0 THEN first ELSE second]]

MCCases ==
  { Of("pr", "contributor", "contributor", "no-mistakes", "disabled", "merge", {"merge"}, "fix", "merge"),
    Of("pr", "contributor", "contributor", "auto", "gh", "squash", {}, "close", "fix"),
    Of("issue", "unknown", "contributor", "auto", "disabled", "merge", {"merge"}, "reopen", "fix"),
    Of("pr", "maintainer", "maintainer", "disabled", "auto", "rebase", {"squash", "merge"}, "merge", "fix"),
    Of("pr", "unknown", "maintainer", "no-mistakes", "no-mistakes", "merge", {"merge", "rebase"}, "review", "fix") }
=============================================================================
