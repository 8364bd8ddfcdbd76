----------------------------- MODULE Retention -----------------------------
(***************************************************************************)
(* What is kept of one item's recommendations, and how long                *)
(* (core/retention.js): the prompt contexts its triage turns store, the    *)
(* drafts on its recommendations, the payloads of executed actions, and    *)
(* the same bodies in the event log.  The sweep runs in the daemon's tick  *)
(* and from the command line, between any two transactions of the queue;   *)
(* the policy is the user's, at any time.                                  *)
(*                                                                         *)
(* Times are those of the events (occurred_at), not of their folding.      *)
(* Attachments, files that nothing here refers to, are left out.           *)
(***************************************************************************)
EXTENDS Integers

CONSTANTS
  Rec,         \* the recommendations of the item, numbered as they come
  Ttl,         \* durations, 0 being "never"
  Keep,        \* "keep"
  Default,     \* the policy seedRetentionPolicy starts from
  MaxChanges,  \* bound on changes of the policy
  Horizon      \* bound on the time at which anything happens

Null == -1

ASSUME RetentionAssumption ==
  /\ Rec \subseteq Nat /\ Ttl \subseteq Nat /\ Keep \notin Ttl
  /\ Default \in Ttl \cup {Keep}
  /\ MaxChanges \in Nat /\ Horizon \in Nat

Field == {"raw_context_ttl", "prompt_ttl", "draft_ttl", "audit_ttl"}

VARIABLES
  clock,
  policy,    \* [Field -> Ttl \cup {Keep}], the one row of retention_policies
  context,   \* prompt_contexts: [Rec -> created_at, expires_at and what is left]
  rec,       \* recommendations with their options' drafts, and the event
  approval,  \* [Rec -> the approval event's time, and whether it is folded]
  action,    \* action_results with the request, and the events of the action
  changes    \* history

retentionVars == <<clock, policy, context, rec, approval, action, changes>>

NoContext == [at |-> Null, expires |-> Null, raw |-> FALSE, rendered |-> FALSE]
NoRec == [at |-> Null, folded |-> FALSE, superseded |-> Null,
          draft |-> "none", logged |-> "none"]
NoApproval == [at |-> Null, folded |-> FALSE]
NoAction == [status |-> "none", completed |-> Null, request |-> "none", logged |-> "none"]

Live(r) == rec[r].folded /\ rec[r].superseded = Null
Busy == clock <= Horizon

(* cutoffFor: is something of that time past its ttl?                      *)
Past(t, ttl) == ttl # Keep /\ t # Null /\ t <= clock - ttl

-----------------------------------------------------------------------------
(* The life of a recommendation                                            *)

(* The triage effect stores what the agent is shown, if the policy lets it *)
(* (promptContextRetention) ...                                            *)
Fetch(r) ==
  /\ Busy
  /\ context[r].at = Null
  /\ \A q \in Rec : q < r => context[q].at # Null
  /\ context' = [context EXCEPT ![r] =
       LET ttl == policy["prompt_ttl"] IN
       [at |-> clock,
        expires |-> IF ttl \in {Keep, 0} THEN Null ELSE clock + ttl,
        raw |-> ttl # 0, rendered |-> ttl # 0]]
  /\ UNCHANGED <<clock, policy, rec, approval, action, changes>>

(* ... and queues the recommendation.                                      *)
Recommend(r) ==
  /\ Busy
  /\ context[r].at # Null /\ rec[r].at = Null
  /\ rec' = [rec EXCEPT ![r].at = clock, ![r].logged = "whole"]
  /\ UNCHANGED <<clock, policy, context, approval, action, changes>>

(* insertRecommendation: it supersedes its predecessors or is stale at     *)
(* birth.                                                                  *)
FoldRecommendation(r, stale) ==
  /\ Busy
  /\ rec[r].at # Null /\ ~ rec[r].folded
  /\ rec' = [q \in Rec |->
       IF q = r THEN [rec[r] EXCEPT !.folded = TRUE, !.draft = rec[r].logged,
                                    !.superseded = IF stale THEN rec[r].at ELSE Null]
       ELSE IF ~ stale /\ Live(q) THEN [rec[q] EXCEPT !.superseded = rec[r].at]
       ELSE rec[q]]
  /\ UNCHANGED <<clock, policy, context, approval, action, changes>>

(* From another process, whatever is on the queue.                         *)
Approve(r) ==
  /\ Busy
  /\ Live(r) /\ approval[r].at = Null
  /\ approval' = [approval EXCEPT ![r].at = clock]
  /\ UNCHANGED <<clock, policy, context, rec, action, changes>>

(* insertApproval and fanOut, from what the option holds by now.  What is  *)
(* approved is inactive since the approval, however late that is folded.   *)
FoldApproval(r) ==
  /\ Busy
  /\ approval[r].at # Null /\ ~ approval[r].folded
  /\ approval' = [approval EXCEPT ![r].folded = TRUE]
  /\ rec' = [rec EXCEPT ![r].superseded = IF @ = Null THEN approval[r].at ELSE @]
  /\ action' = IF rec[r].draft = "purged" THEN action
               ELSE [action EXCEPT ![r] =
                      [NoAction EXCEPT !.status = "running", !.request = "whole", !.logged = "whole"]]
  /\ UNCHANGED <<clock, policy, context, changes>>

(* action.closed.                                                          *)
ActionCloses(r) ==
  /\ Busy
  /\ action[r].status = "running"
  /\ action' = [action EXCEPT ![r].status = "closed", ![r].completed = clock]
  /\ UNCHANGED <<clock, policy, context, rec, approval, changes>>

-----------------------------------------------------------------------------
(* The policy and the sweep                                                *)

SetPolicy(f, ttl) ==
  /\ Busy
  /\ changes < MaxChanges /\ policy[f] # ttl
  /\ policy' = [policy EXCEPT ![f] = ttl]
  /\ changes' = changes + 1
  /\ UNCHANGED <<clock, context, rec, approval, action>>

SweptContextByPolicy(c) ==  \* mutant: the policy of the day decides
  LET gone == Past(c.at, policy["prompt_ttl"])
      rawGone == gone \/ Past(c.at, policy["raw_context_ttl"]) IN
  [c EXCEPT !.raw = @ /\ ~ rawGone, !.rendered = @ /\ ~ gone]

(* raw_context_ttl takes what the agent saw; the row's own expires_at, or  *)
(* prompt_ttl where it is stricter, takes the rest.                        *)
SweptContext(c) ==
  LET gone == (c.expires # Null /\ c.expires <= clock) \/ Past(c.at, policy["prompt_ttl"])
      rawGone == gone \/ Past(c.at, policy["raw_context_ttl"]) IN
  [c EXCEPT !.raw = @ /\ ~ rawGone, !.rendered = @ /\ ~ gone]

DraftIsOld(r) ==  \* mutant: age is enough
  rec[r].folded /\ Past(rec[r].at, policy["draft_ttl"])

(* A draft goes when its recommendation has been inactive for its ttl.     *)
DraftIsDue(r) ==
  rec[r].folded /\ Past(rec[r].at, policy["draft_ttl"])
                /\ Past(rec[r].superseded, policy["draft_ttl"])

SweptRecTables(r) ==  \* mutant: redactDraftEvents is forgotten
  IF DraftIsDue(r) THEN [rec[r] EXCEPT !.draft = "purged"] ELSE rec[r]

SweptRec(r) ==
  IF DraftIsDue(r) THEN [rec[r] EXCEPT !.draft = "purged", !.logged = "purged"] ELSE rec[r]

(* audit_ttl counts from the completion.                                   *)
SweptAction(r) ==
  IF Past(action[r].completed, policy["audit_ttl"])
    THEN [action[r] EXCEPT !.request = "purged", !.logged = "purged"] ELSE action[r]

(* sweepRetention, one transaction.                                        *)
Sweep ==
  /\ context' = [r \in Rec |-> SweptContext(context[r])]
  /\ rec' = [r \in Rec |-> SweptRec(r)]
  /\ action' = [r \in Rec |-> SweptAction(r)]
  /\ UNCHANGED <<clock, policy, approval, changes>>

TimePasses ==
  /\ \/ Busy
     \/ \E r \in Rec : context[r].rendered /\ context[r].expires > clock
  /\ clock' = clock + 1
  /\ UNCHANGED <<policy, context, rec, approval, action, changes>>

RetentionInit ==
  /\ clock = 0
  /\ policy = [f \in Field |-> Default]
  /\ context = [r \in Rec |-> NoContext]
  /\ rec = [r \in Rec |-> NoRec]
  /\ approval = [r \in Rec |-> NoApproval]
  /\ action = [r \in Rec |-> NoAction]
  /\ changes = 0

RetentionNext ==
  \/ \E r \in Rec :
       \/ Fetch(r) \/ Recommend(r) \/ Approve(r) \/ FoldApproval(r) \/ ActionCloses(r)
       \/ \E stale \in BOOLEAN : FoldRecommendation(r, stale)
  \/ \E f \in Field, ttl \in Ttl \cup {Keep} : SetPolicy(f, ttl)
  \/ Sweep \/ TimePasses

(* The daemon sweeps every hour, and time passes.                          *)
RetentionFairness == WF_retentionVars(Sweep) /\ WF_retentionVars(TimePasses)

RetentionSpec == RetentionInit /\ [][RetentionNext]_retentionVars

FairRetentionSpec == RetentionSpec /\ RetentionFairness

-----------------------------------------------------------------------------
(* Properties                                                              *)

(* What is still to be used is not purged under any policy: the draft of a *)
(* live recommendation, or of one that is approved while it is live, and   *)
(* the request of an action under way.  (An approval that another          *)
(* supersession overtakes on the queue is not protected: its draft may be  *)
(* gone when it is fanned out.)                                            *)
NeededIsKept ==
  \A r \in Rec :
    /\ Live(r) => rec[r].draft = "whole"
    /\ action[r].status = "running" => action[r].request = "whole"

(* "Redacted events replay into exactly the compacted projections": a body *)
(* is gone from the log exactly when it is gone from the tables.           *)
LogAndTablesAgree ==
  \A r \in Rec :
    /\ rec[r].folded => rec[r].draft = rec[r].logged
    /\ action[r].request = action[r].logged

(* "A per-row expires_at [...] is always honored, even if the policy was   *)
(* later relaxed": what was stored for a time is purged after it.          *)
PromisesAreKept ==
  \A r \in Rec : (context[r].expires # Null) ~> ~ context[r].rendered
=============================================================================
