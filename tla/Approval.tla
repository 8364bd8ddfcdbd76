------------------------------ MODULE Approval ------------------------------
(***************************************************************************)
(* From the human gate to a settled item: approval.created, its fan-out    *)
(* into actions and an automation job (core/handlers.js), their            *)
(* projections (core/projections.js) and the effects that execute them     *)
(* (host/effects.js), on the daemon's event loop.                          *)
(*                                                                         *)
(* An item has one recommendation here, so both go by the name of the      *)
(* latter; retriage and the user's other decisions are the business of     *)
(* ItemTriage.  "already_applied" counts as "succeeded".                   *)
(***************************************************************************)
EXTENDS Integers, Sequences, FiniteSets

CONSTANTS
  Rec,          \* recommendations
  Option,       \* options of all recommendations
  Action,       \* action ids, as the options name them
  None,
  Offers,       \* [Rec -> SUBSET Option]
  ActionsOf,    \* [Option -> SUBSET Action]
  Required,     \* actions with required: true
  Automated,    \* options with a usable automation block
  MaxAttempts, RetryAfter, MaxConcurrency,  \* see EventLoop
  MaxFaults,    \* bound on transactions that fail (a locked database)
  MaxCrashes    \* bound on daemon deaths

-----------------------------------------------------------------------------
(* Events and effects                                                      *)

ApprovalCreated(r, o) == [type |-> "approval.created", rec |-> r, option |-> o]
ActionCreated(r, x) == [type |-> "action.created", rec |-> r, action |-> x]
ActionClosed(r, x, ok) == [type |-> "action.closed", rec |-> r, action |-> x, ok |-> ok]
JobCreated(r) == [type |-> "job.created", rec |-> r]
JobWaits(r) == [type |-> "job.updated", rec |-> r]
JobClosed(r, ok) == [type |-> "job.closed", rec |-> r, ok |-> ok]
Settled(r, ok) == [type |-> "item.updated", rec |-> r, ok |-> ok]

ApprovalEvent ==
  UNION { {ApprovalCreated(r, o) : r \in Rec, o \in Option},
          {ActionCreated(r, x) : r \in Rec, x \in Action},
          {ActionClosed(r, x, ok) : r \in Rec, x \in Action, ok \in BOOLEAN},
          {JobCreated(r) : r \in Rec},
          {JobWaits(r) : r \in Rec},
          {JobClosed(r, ok) : r \in Rec, ok \in BOOLEAN},
          {Settled(r, ok) : r \in Rec, ok \in BOOLEAN} }

(* dedup_key: approval-<rec>, whatever the option; settle:<approval>:ok    *)
(* or :err; nothing on the rest.                                           *)
EventKey ==
  [e \in ApprovalEvent |->
     CASE e.type = "approval.created" -> <<"approval", e.rec>>
       [] e.type = "item.updated" -> <<"settle", e.rec, e.ok>>
       [] OTHER -> None]

EventLane == [e \in ApprovalEvent |-> IF e.type = "approval.created" THEN 0 ELSE 1]

EventDepth ==
  [e \in ApprovalEvent |->
     CASE e.type = "approval.created" -> 0
       [] e.type \in {"action.created", "job.created"} -> 1
       [] e.type = "item.updated" -> 3
       [] OTHER -> 2]

ActionEffect(r, x) == [kind |-> "action", rec |-> r, action |-> x]
FixEffect(r) == [kind |-> "fix", rec |-> r]

ApprovalEffect ==
  {ActionEffect(r, x) : r \in Rec, x \in Action} \cup {FixEffect(r) : r \in Rec}

-----------------------------------------------------------------------------

VARIABLES
  log, queue, pendingEffects, inFlight, pc,  \* see EventLoop
  live,      \* [Rec -> BOOLEAN], superseded_at is null
  approved,  \* approvals table: the option approved, or None
  results,   \* action_results table: status per recommendation and action
  job,       \* jobs table: status; "waiting" is running in waiting_for_pr
  item,      \* items table: local_state
  acted,     \* in the outside: actions in flight whose effect has happened
  execs,     \* history: executions in the outside world
  faults, crashes  \* history

INSTANCE EventLoop WITH
  Event <- ApprovalEvent, Effect <- ApprovalEffect, NoKey <- None,
  Key <- EventKey, Lane <- EventLane, Depth <- EventDepth,
  Hold <- [e \in ApprovalEvent |-> 0], MaxDepth <- 32

ASSUME ApprovalAssumption ==
  /\ LoopAssumption
  /\ Offers \in [Rec -> SUBSET Option]
  /\ ActionsOf \in [Option -> SUBSET Action]
  /\ Required \subseteq Action /\ Automated \subseteq Option
  /\ None \notin Option
  /\ \A r \in Rec : None # <<"approval", r>>  \* null is not a key
  /\ MaxFaults \in Nat /\ MaxCrashes \in Nat

tables == <<live, approved, results, job, item>>
history == <<execs, faults, crashes>>
vars == <<log, queue, pendingEffects, inFlight, pc, tables, acted, history>>

Running(r) == \E x \in Action : results[r][x] = "running"

-----------------------------------------------------------------------------
(* The user                                                                *)

(* approve, from the command line or the TUI: any option of a live         *)
(* recommendation.  A second approval carries the key of the first.        *)
Approve(r, o) ==
  /\ live[r]
  /\ o \in Offers[r]
  /\ Enqueue({ApprovalCreated(r, o)})
  /\ UNCHANGED <<pendingEffects, inFlight, pc, tables, acted, history>>

-----------------------------------------------------------------------------
(* Handler chains, each in its commit                                      *)

FanOutEverything(r, o) ==  \* mutant: the actions of every option offered
  {ActionCreated(r, x) : x \in UNION {ActionsOf[p] : p \in Offers[r]}}
    \cup (IF o \in Automated THEN {JobCreated(r)} ELSE {})

FanOut(r, o) ==
  {ActionCreated(r, x) : x \in ActionsOf[o]}
    \cup (IF o \in Automated THEN {JobCreated(r)} ELSE {})

(* gateCheck, insertApproval (insert or ignore), fanOut.                   *)
FoldApproval(r, o) ==
  /\ NextDue(ApprovalCreated(r, o))
  /\ Commit(ApprovalCreated(r, o), FanOut(r, o), <<>>)
  /\ approved' = [approved EXCEPT ![r] = IF @ = None THEN o ELSE @]
  /\ item' = [item EXCEPT ![r] = "approved_pending"]
  /\ live' = [live EXCEPT ![r] = FALSE]
  /\ UNCHANGED <<results, job, acted, history>>

(* upsertActionResult, dispatchAction.                                     *)
FoldActionCreated(r, x) ==
  /\ NextDue(ActionCreated(r, x))
  /\ Commit(ActionCreated(r, x), {}, <<ActionEffect(r, x)>>)
  /\ results' = [results EXCEPT ![r][x] = IF @ = "none" THEN "running" ELSE @]
  /\ UNCHANGED <<live, approved, job, item, acted, history>>

CheckCompleteEagerly(r, after) ==  \* mutant: does not wait for the rest
  IF job[r] \in {"open", "waiting"} THEN {}
  ELSE {Settled(r, \A x \in Required : after[x] \in {"none", "succeeded"})}

CheckCompleteForever(r, after) ==  \* mutant: leaves it to the job, closed or not
  IF (\E x \in Action : after[x] = "running") \/ job[r] # "none" THEN {}
  ELSE {Settled(r, \A x \in Required : after[x] \in {"none", "succeeded"})}

(* checkComplete, on the results as the projection left them: wait for the *)
(* other actions and for the job; only the actions decide the outcome.     *)
CheckComplete(r, after) ==
  IF (\E x \in Action : after[x] = "running") \/ job[r] \in {"open", "waiting"}
    THEN {}
    ELSE {Settled(r, \A x \in Required : after[x] \in {"none", "succeeded"})}

FoldActionClosed(r, x, ok) ==
  LET after == [results[r] EXCEPT ![x] =
                  IF @ = "none" THEN @ ELSE IF ok THEN "succeeded" ELSE "failed"] IN
  /\ NextDue(ActionClosed(r, x, ok))
  /\ Commit(ActionClosed(r, x, ok), CheckComplete(r, after), <<>>)
  /\ results' = [results EXCEPT ![r] = after]
  /\ UNCHANGED <<live, approved, job, item, acted, history>>

(* upsertJob, dispatchJob.                                                 *)
FoldJobCreated(r) ==
  /\ NextDue(JobCreated(r))
  /\ Commit(JobCreated(r), {}, <<FixEffect(r)>>)
  /\ job' = [job EXCEPT ![r] = IF @ = "none" THEN "open" ELSE @]
  /\ UNCHANGED <<live, approved, results, item, acted, history>>

FoldJobWaits(r) ==
  /\ NextDue(JobWaits(r))
  /\ Commit(JobWaits(r), {}, <<>>)
  /\ job' = [job EXCEPT ![r] = IF @ = "none" THEN @ ELSE "waiting"]
  /\ UNCHANGED <<live, approved, results, item, acted, history>>

MaybeSettleEagerly(r, ok) == {Settled(r, ok)}  \* mutant: ignores the siblings

(* maybeSettle: wait for the actions; the job alone decides the outcome.   *)
MaybeSettle(r, ok) == IF Running(r) THEN {} ELSE {Settled(r, ok)}

FoldJobClosed(r, ok) ==
  /\ NextDue(JobClosed(r, ok))
  /\ Commit(JobClosed(r, ok), MaybeSettle(r, ok), <<>>)
  /\ job' = [job EXCEPT ![r] =
       IF @ = "none" THEN @ ELSE IF ok THEN "succeeded" ELSE "failed"]
  /\ UNCHANGED <<live, approved, results, item, acted, history>>

(* upsertItem with the local_state of settleItem.                          *)
FoldSettled(r, ok) ==
  /\ NextDue(Settled(r, ok))
  /\ Commit(Settled(r, ok), {}, <<>>)
  /\ item' = [item EXCEPT ![r] = IF ok THEN "handled" ELSE "action_error"]
  /\ UNCHANGED <<live, approved, results, job, acted, history>>

(* The transaction throws.                                                 *)
Fail(e) ==
  /\ faults < MaxFaults
  /\ NextDue(e)
  /\ RecordFailure(e)
  /\ faults' = faults + 1
  /\ UNCHANGED <<tables, acted, execs, crashes>>

-----------------------------------------------------------------------------
(* Effects                                                                 *)

(* The plugin does what it was asked to; its answer is still to come.      *)
Execute(r, x) ==
  /\ pc = "idle"
  /\ ActionEffect(r, x) \in inFlight \ acted
  /\ acted' = acted \cup {ActionEffect(r, x)}
  /\ execs' = [execs EXCEPT ![r][x] = @ + 1]
  /\ UNCHANGED <<log, queue, pendingEffects, inFlight, pc, tables, faults, crashes>>

(* ... and is posted.  A failure may also come without an execution, and   *)
(* an execution may be reported as one (a plugin that exits badly after    *)
(* its call went through).                                                 *)
ReturnAction(r, x, ok) ==
  /\ ok => ActionEffect(r, x) \in acted
  /\ EffectReturns(ActionEffect(r, x), ActionClosed(r, x, ok))
  /\ acted' = acted \ {ActionEffect(r, x)}
  /\ UNCHANGED <<tables, history>>

ReturnFix(r, ok) ==
  /\ EffectReturns(FixEffect(r), JobClosed(r, ok))
  /\ UNCHANGED <<tables, acted, history>>

(* The pull request is not there yet.                                      *)
FixMustWait(r) ==
  /\ EffectReturns(FixEffect(r), JobWaits(r))
  /\ UNCHANGED <<tables, acted, history>>

(* A scheduled probe finds it.                                             *)
ProbeFinds(r) ==
  /\ pc = "idle"
  /\ job[r] = "waiting"
  /\ Enqueue({JobClosed(r, TRUE)})
  /\ UNCHANGED <<pendingEffects, inFlight, pc, tables, acted, history>>

-----------------------------------------------------------------------------
(* The daemon                                                              *)

Begin == BeginBatch /\ UNCHANGED <<tables, acted, history>>
Finish == EndBatch /\ UNCHANGED <<tables, acted, history>>
Pass == Tick /\ UNCHANGED <<tables, acted, history>>

RecoverAndRelaunch ==  \* mutant: starts again what the tables show running
  /\ pc = "down"
  /\ pc' = "idle"
  /\ inFlight' = {ActionEffect(p[1], p[2]) :
                    p \in {q \in Rec \X Action : results[q[1]][q[2]] = "running"}}
  /\ UNCHANGED <<log, queue, pendingEffects, tables, acted, history>>

Recover == Restart /\ UNCHANGED <<tables, acted, history>>

(* What the actions in flight have done outside stays done.                *)
Crash ==
  /\ crashes < MaxCrashes
  /\ Halt
  /\ acted' = {}
  /\ crashes' = crashes + 1
  /\ UNCHANGED <<log, queue, tables, execs, faults>>

Init ==
  /\ LoopInit
  /\ live = [r \in Rec |-> TRUE]
  /\ approved = [r \in Rec |-> None]
  /\ results = [r \in Rec |-> [x \in Action |-> "none"]]
  /\ job = [r \in Rec |-> "none"]
  /\ item = [r \in Rec |-> "recommended"]
  /\ acted = {}
  /\ execs = [r \in Rec |-> [x \in Action |-> 0]]
  /\ faults = 0
  /\ crashes = 0

Fold(r) ==
  \/ \E o \in Option : FoldApproval(r, o)
  \/ \E x \in Action : FoldActionCreated(r, x)
  \/ \E x \in Action, ok \in BOOLEAN : FoldActionClosed(r, x, ok)
  \/ FoldJobCreated(r) \/ FoldJobWaits(r)
  \/ \E ok \in BOOLEAN : FoldJobClosed(r, ok) \/ FoldSettled(r, ok)

Next ==
  \/ \E r \in Rec, o \in Option : Approve(r, o)
  \/ \E r \in Rec : Fold(r) \/ FixMustWait(r) \/ ProbeFinds(r)
  \/ \E e \in ApprovalEvent : Fail(e)
  \/ \E r \in Rec, x \in Action : Execute(r, x)
  \/ \E r \in Rec, x \in Action, ok \in BOOLEAN : ReturnAction(r, x, ok)
  \/ \E r \in Rec, ok \in BOOLEAN : ReturnFix(r, ok)
  \/ Begin \/ Finish \/ Pass \/ Crash \/ Recover

(* The loop turns, time passes, the daemon is started again.  That plugins *)
(* and agents end is assumed of them, for the host sets them no limit;     *)
(* that a pull request ever appears is not assumed.                        *)
Fairness ==
  /\ WF_vars(Begin) /\ WF_vars(Finish) /\ WF_vars(Pass) /\ WF_vars(Recover)
  /\ WF_vars(\E r \in Rec : Fold(r))
  /\ \A r \in Rec, x \in Action : WF_vars(\E ok \in BOOLEAN : ReturnAction(r, x, ok))
  /\ \A r \in Rec : WF_vars(FixMustWait(r) \/ \E ok \in BOOLEAN : ReturnFix(r, ok))

Spec == Init /\ [][Next]_vars

FairSpec == Spec /\ Fairness

-----------------------------------------------------------------------------
(* Properties                                                              *)

(* Nothing reaches the outside world but actions of the one option the     *)
(* user approved, each has its durable record before, and each is executed *)
(* at most once, over retried commits, repeated approvals and restarts     *)
(* (gateCheck, fanOut, the approval's key, commit-as-ack, and effects that *)
(* start after the commit and live in memory only).                        *)
OnlyApprovedActionsExecute ==
  \A r \in Rec, x \in Action : execs[r][x] > 0 =>
    /\ approved[r] # None
    /\ x \in ActionsOf[approved[r]]
    /\ results[r][x] # "none"
    /\ execs[r][x] = 1

(* A settled item has no work under way, in whatever order its pieces      *)
(* close ("settle only when any sibling actions are also done").  Where a  *)
(* transaction failed, a sibling may still be on its way to its row.       *)
SettledMeansQuiet ==
  faults = 0 => \A r \in Rec : item[r] \in {"handled", "action_error"} =>
    /\ ~ Running(r)
    /\ job[r] \notin {"open", "waiting"}
    /\ \A x \in inFlight : x.rec # r

(* One approval settles its item one way (the comment "Only settle once"), *)
(* and whoever settles has seen all of its own side: an item is handled on *)
(* the word of its job or of all its required actions, and in error on     *)
(* that of a job or of a required action that failed.                      *)
RequiredOf(r) == ActionsOf[approved[r]] \cap Required

OutcomeHasAGround ==
  faults = 0 => \A r \in Rec :
    /\ ~ {Settled(r, TRUE), Settled(r, FALSE)} \subseteq log
    /\ item[r] = "handled" =>
         job[r] = "succeeded" \/ \A x \in RequiredOf(r) : results[r][x] = "succeeded"
    /\ item[r] = "action_error" =>
         job[r] = "failed" \/ \E x \in RequiredOf(r) : results[r][x] = "failed"

(* An approved option with work to do is settled, unless it waits for a    *)
(* pull request (checkComplete and maybeSettle defer to one another, and   *)
(* whoever comes last must settle), retries included.  A parked event and  *)
(* a dead daemon's effects are lost.                                       *)
HasWork(r) == approved[r] # None /\ (ActionsOf[approved[r]] # {} \/ approved[r] \in Automated)

ApprovedWorkSettles ==
  \A r \in Rec : (item[r] = "approved_pending" /\ HasWork(r))
                   ~> \/ item[r] \in {"handled", "action_error"} \/ job[r] = "waiting"
                      \/ crashes > 0 \/ \E e \in ApprovalEvent : Dead(e)

(* The gate as ApprovalGate states it.                                     *)
Gate == INSTANCE ApprovalGate
  WITH granted <- approved,
       performed <- {p \in Rec \X Action : execs[p[1]][p[2]] > 0}

KeepsTheGate == Gate!Spec

-----------------------------------------------------------------------------
(* What the documents say and the code does not do                         *)

(* "Mark the item locally handled [...] if all required actions and        *)
(* automation work succeed" (specs/m87-prd.md).                            *)
HandledMeansSucceeded ==
  \A r \in Rec : item[r] = "handled" =>
    /\ \A x \in ActionsOf[approved[r]] \cap Required : results[r][x] = "succeeded"
    /\ job[r] # "failed"
=============================================================================
