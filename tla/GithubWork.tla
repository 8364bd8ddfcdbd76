----------------------------- MODULE GithubWork -----------------------------
(***************************************************************************)
(* What the GitHub plugin does to one item after an approval: the action   *)
(* commands (execute-action) and the three commands of a fix job (prepare, *)
(* submit, detect), with the effects of host/effects.js that call them and *)
(* report their answers.  Every call of gh, git or no-mistakes is a step.  *)
(*                                                                         *)
(* A call that fails has done nothing, except a push to the no-mistakes    *)
(* gate, which may have arrived.  Comments, titles and bodies are left     *)
(* out, and so are the rows that FixJob and Approval keep of this work.    *)
(***************************************************************************)
EXTENDS Integers, Sequences, FiniteSets, SequencesExt

CONSTANTS
  Setups,      \* kinds of item with the plugin's configuration
  MaxTroubles  \* bound on failing calls, changed roles and deaths

Method == {"merge", "squash", "rebase"}
ActionType == {"comment", "close", "reopen", "review", "merge"}
MaintainerOnly == {"review", "merge", "reopen"}  \* MAINTAINER_ONLY_ACTIONS
Role == {"maintainer", "contributor", "unknown"}

Setup ==
  [kind : {"pr", "issue"},
   role : Role,                        \* stamped at sync; "unknown": not at all
   derived : Role,                     \* what the configuration makes of it
   push : {"auto", "no-mistakes", "disabled"},          \* fix_contrib_push
   create : {"auto", "no-mistakes", "gh", "disabled"},  \* fix_pr_create
   method : Method,                    \* the method asked for
   allowed : SUBSET Method]            \* by the repository

NoAct == [type |-> "none", step |-> "none", role |-> "unknown"]

VARIABLES
  setup,
  role,      \* items.metadata_json.role
  item,      \* on GitHub: "open", "closed", "merged"
  done,      \* the actions done on GitHub, with the method of a merge
  act,       \* the action effect: [type, step, role], step "merge again" between two gh calls
  fix,       \* the fix effect: what it does next
  fixRole,   \* jobRef.role, read when the effect began
  branch,    \* of the workspace: "none", "own", or the pull request's "head"
  edited,    \* there is something to commit, or it is committed
  remote,    \* who brought the fix's commit to GitHub, or "nobody"
  pull,      \* who opened a pull request for the fix's own branch, or "nobody"
  gate,      \* the no-mistakes pipeline: "idle", "checking", "passed", "rejected"
  job,       \* as the job events leave it
  troubles

workVars == <<setup, role, item, done, act, fix, fixRole, branch, edited, remote,
  pull, gate, job, troubles>>

Init ==
  /\ setup \in Setups
  /\ role = setup.role
  /\ item = "open" /\ done = {}
  /\ act = NoAct
  /\ fix = "none" /\ fixRole = "unknown" /\ branch = "none" /\ edited = FALSE
  /\ remote = "nobody" /\ pull = "nobody" /\ gate = "idle"
  /\ job = "none"
  /\ troubles = 0

Trouble == troubles < MaxTroubles /\ troubles' = troubles + 1

fixVars == <<fix, fixRole, branch, edited, remote, pull, gate, job>>
actVars == <<item, done, act>>

-----------------------------------------------------------------------------
(* The outside: another sync, other people, the gate's pipeline, the user  *)

Restamped ==
  /\ Trouble
  /\ role' \in {"maintainer", "contributor"} \ {role}
  /\ UNCHANGED <<setup, actVars, fixVars>>

OthersClose ==
  /\ item = "open"
  /\ Trouble
  /\ item' = "closed"
  /\ UNCHANGED <<setup, role, done, act, fixVars>>

PipelineEnds ==
  /\ gate = "checking"
  /\ \/ /\ gate' = "passed"
        /\ remote' = IF remote = "nobody" THEN "gate" ELSE remote
        /\ pull' = IF pull = "nobody" THEN "gate" ELSE pull
     \/ gate' = "rejected" /\ UNCHANGED <<remote, pull>>
  /\ UNCHANGED <<setup, role, actVars, fix, fixRole, branch, edited, job, troubles>>

(* A contributor's commit "left in the workspace for manual review and push" *)
UserPushes ==
  /\ fixRole = "contributor" /\ job \in {"waiting_for_pr", "pr_opened"}
  /\ edited /\ remote = "nobody"
  /\ remote' = "user"
  /\ pull' = IF branch = "own" THEN "user" ELSE pull
  /\ UNCHANGED <<setup, role, actVars, fix, fixRole, branch, edited, gate, job, troubles>>

-----------------------------------------------------------------------------
(* execute-action                                                          *)

(* resolveActionRole: what the host says the item was stamped with, or     *)
(* what the configuration makes of it.                                     *)
ActionRole == IF role = "unknown" THEN setup.derived ELSE role

StartAction(type) ==
  /\ act = NoAct
  /\ act' = [type |-> type, step |-> "called", role |-> ActionRole]
  /\ UNCHANGED <<setup, role, item, done, fixVars, troubles>>

ActionEnds(status) == act' = [act EXCEPT !.step = status]

Refused ==
  \/ act.role = "contributor" /\ act.type \in MaintainerOnly
  \/ act.type \in {"review", "merge"} /\ setup.kind = "issue"

ActionRefused ==
  /\ act.step = "called" /\ Refused
  /\ ActionEnds("failed")
  /\ UNCHANGED <<setup, role, item, done, fixVars, troubles>>

(* gh auth status or the command itself.  A merge goes on to other methods. *)
ActionFails ==
  /\ act.step = "called" /\ ~ Refused
  /\ Trouble
  /\ ActionEnds("failed")
  /\ UNCHANGED <<setup, role, item, done, fixVars>>

ActionDone ==
  /\ act.step = "called" /\ ~ Refused /\ act.type # "merge"
  /\ ActionEnds("succeeded")
  /\ done' = done \cup {act.type}
  /\ item' = CASE act.type = "close" /\ item = "open" -> "closed"
               [] act.type = "reopen" /\ item = "closed" -> "open"
               [] OTHER -> item
  /\ UNCHANGED <<setup, role, fixVars, troubles>>

CanMerge(method) == item = "open" /\ method \in setup.allowed

Merge(method) ==
  /\ CanMerge(method)
  /\ item' = "merged"
  /\ done' = done \cup {"merge", method}
  /\ ActionEnds("succeeded")

(* The first method another than the one asked for that the repository     *)
(* permits (repoAllowedMergeMethods lists them in this order).             *)
Permitted == SelectSeq(<<"merge", "squash", "rebase">>, LAMBDA m : m \in setup.allowed)
Fallback == SelectSeq(Permitted, LAMBDA m : m # setup.method)
CanFallBack == Fallback # <<>> /\ CanMerge(Head(Fallback))

MergeAsAsked ==
  /\ act.step = "called" /\ act.type = "merge" /\ ~ Refused
  /\ \/ Merge(setup.method) /\ UNCHANGED troubles
     \/ /\ \/ ~ CanMerge(setup.method) /\ UNCHANGED troubles
           \/ CanMerge(setup.method) /\ Trouble
        /\ ActionEnds("merge again")
        /\ UNCHANGED <<item, done>>
  /\ UNCHANGED <<setup, role, fixVars>>

(* The list of permitted methods may not be had either: then there is none. *)
MergeAgain ==
  /\ act.step = "merge again"
  /\ \/ CanFallBack /\ Merge(Head(Fallback)) /\ UNCHANGED troubles
     \/ /\ \/ ~ CanFallBack /\ UNCHANGED troubles
           \/ CanFallBack /\ Trouble
        /\ ActionEnds("failed")
        /\ UNCHANGED <<item, done>>
  /\ UNCHANGED <<setup, role, fixVars>>

-----------------------------------------------------------------------------
(* The fix effect: prepare, the agent's turn, submit                       *)

FixGoesTo(next) == fix' = next /\ UNCHANGED job
FixEnds(outcome) == fix' = "ended" /\ job' = outcome

StartFix ==
  /\ fix = "none"
  /\ fix' = "prepare" /\ job' = "running"
  /\ fixRole' = IF role = "contributor" THEN role ELSE "maintainer"
  /\ UNCHANGED <<setup, role, actVars, branch, edited, remote, pull, gate, troubles>>

(* prepare: gh, git or no-mistakes fails; the agent's turn throws          *)
FixFails ==
  /\ fix \in {"prepare", "agent", "submit", "push", "push to create", "create"}
  /\ Trouble
  /\ FixEnds("failed")
  /\ UNCHANGED <<setup, role, actVars, fixRole, branch, edited, remote, pull, gate>>

PrepareAnyPull ==  \* mutant: every pull request's own branch is checked out
  /\ fix = "prepare"
  /\ branch' = IF setup.kind = "pr" THEN "head" ELSE "own"
  /\ FixGoesTo("agent")
  /\ UNCHANGED <<setup, role, actVars, fixRole, edited, remote, pull, gate, troubles>>

(* A contributor's pull request is mended on its own head branch.          *)
Prepare ==
  /\ fix = "prepare"
  /\ branch' = IF fixRole = "contributor" /\ setup.kind = "pr" THEN "head" ELSE "own"
  /\ FixGoesTo("agent")
  /\ UNCHANGED <<setup, role, actVars, fixRole, edited, remote, pull, gate, troubles>>

AgentEdits ==
  /\ fix = "agent"
  /\ edited' \in BOOLEAN
  /\ FixGoesTo("submit")
  /\ UNCHANGED <<setup, role, actVars, fixRole, branch, remote, pull, gate, troubles>>

LeaveAsContributor ==
  \/ setup.push = "disabled" /\ FixEnds("failed")
  \/ setup.push = "auto" /\ FixGoesTo("push")
  \/ setup.push = "no-mistakes" /\ FixEnds("waiting_for_pr")

(* Under `auto' it depends on whether the binary is there.                 *)
LeaveAsMaintainer ==
  \/ setup.create = "disabled" /\ FixGoesTo("push")
  \/ setup.create \in {"gh", "auto"} /\ FixGoesTo("push to create")
  \/ setup.create \in {"no-mistakes", "auto"} /\ FixGoesTo("gate")

(* status, add, commit, and the way out the configuration asks for.  When  *)
(* there is nothing to commit the plugin answers `no_changes', and the     *)
(* effect closes the job in the phase it has for every answer but a        *)
(* failure; only the type of the event, which no row keeps, says so.       *)
Submit ==
  /\ fix = "submit"
  /\ \/ ~ edited /\ FixEnds("pr_opened")
     \/ edited /\ fixRole = "contributor" /\ LeaveAsContributor
     \/ edited /\ fixRole = "maintainer" /\ LeaveAsMaintainer
  /\ UNCHANGED <<setup, role, actVars, fixRole, branch, edited, remote, pull, gate, troubles>>

(* To origin.  A contributor's own branch has no upstream: git may refuse. *)
Push ==
  /\ fix \in {"push", "push to create"}
  /\ \/ /\ remote' = IF remote = "nobody" THEN "plugin" ELSE remote
        /\ IF fix = "push" THEN FixEnds("pr_opened") ELSE FixGoesTo("create")
     \/ /\ fixRole = "contributor" /\ branch = "own"
        /\ FixEnds("failed")
        /\ UNCHANGED remote
  /\ UNCHANGED <<setup, role, actVars, fixRole, branch, edited, pull, gate, troubles>>

(* gh pr create --draft, which refuses a second one for a branch           *)
Create ==
  /\ fix = "create"
  /\ IF pull = "nobody" THEN pull' = "plugin" /\ FixEnds("pr_opened")
                        ELSE FixEnds("failed") /\ UNCHANGED pull
  /\ UNCHANGED <<setup, role, actVars, fixRole, branch, edited, remote, gate, troubles>>

PushToGateOrAround ==  \* mutant: any gate that fails is gone around
  /\ fix = "gate"
  /\ \/ gate' = "checking" /\ FixGoesTo("detect") /\ UNCHANGED troubles
     \/ Trouble /\ gate' \in {"idle", "checking"} /\ FixGoesTo("push to create")
  /\ UNCHANGED <<setup, role, actVars, fixRole, branch, edited, remote, pull>>

(* pushThroughNoMistakes.  It falls back to gh under `auto' only; a push   *)
(* that failed may have reached the gate all the same.                     *)
PushToGate ==
  /\ fix = "gate"
  /\ \/ gate' = "checking" /\ FixGoesTo("detect") /\ UNCHANGED troubles
     \/ /\ Trouble
        /\ gate' \in {"idle", "checking"}
        /\ IF setup.create = "auto" THEN FixGoesTo("push to create") ELSE FixEnds("failed")
  /\ UNCHANGED <<setup, role, actVars, fixRole, branch, edited, remote, pull>>

(* detectPrUrl: any pull request of the branch, in whatever state          *)
Detected == branch = "head" \/ pull # "nobody"

Detect ==
  /\ fix = "detect"
  /\ \/ FixEnds(IF Detected THEN "pr_opened" ELSE "waiting_for_pr") /\ UNCHANGED troubles
     \/ Trouble /\ FixEnds("waiting_for_pr")
  /\ UNCHANGED <<setup, role, actVars, fixRole, branch, edited, remote, pull, gate>>

(* fixDetect: a waiting job is probed for ever (FixJob has the rotation).  *)
Probe ==
  /\ job = "waiting_for_pr" /\ fix \in {"ended", "lost"}
  /\ Detected
  /\ job' = "pr_opened"
  /\ UNCHANGED <<setup, role, actVars, fix, fixRole, branch, edited, remote, pull, gate, troubles>>

(* The daemon dies: what runs is forgotten, the rows stay as they are.     *)
Forgotten ==
  /\ act' = IF act.step \in {"called", "merge again"} THEN [act EXCEPT !.step = "lost"] ELSE act
  /\ fix' = IF fix \in {"none", "ended"} THEN fix ELSE "lost"
  /\ UNCHANGED <<setup, role, item, done, fixRole, branch, edited, remote, pull, gate, job, troubles>>

External == Restamped \/ OthersClose \/ PipelineEnds \/ UserPushes

Step ==
  \/ ActionRefused \/ ActionFails \/ ActionDone \/ MergeAsAsked \/ MergeAgain
  \/ FixFails \/ Prepare \/ AgentEdits \/ Submit \/ Push \/ Create \/ PushToGate
  \/ Detect \/ Probe

-----------------------------------------------------------------------------
(* Properties                                                              *)

(* A fix reported as opened is at GitHub, by whatever way it went: through *)
(* the gate and a later probe, over the fallback, with calls failing       *)
(* anywhere.  Two cases are excepted.  A fix whose agent changed nothing   *)
(* is reported as opened as well (host/effects.js), although "Agent        *)
(* produced no diff" has a phase of its own in the design                  *)
(* (fix-job-execution-design.md).  And the commit on a contributor's pull  *)
(* request may be left for the user to push: the first probe finds that    *)
(* pull request, because it was there before.                              *)
LeftForReview ==
  fixRole = "contributor" /\ branch = "head" /\ setup.push = "no-mistakes"

ReportedFixIsPublished ==
  job = "pr_opened" /\ edited /\ ~ LeftForReview => remote # "nobody"

(* "Cautious users control submission policy through source-plugin config" *)
(* (fix-job-execution-design.md): the plugin pushes a contributor's commit *)
(* under `auto' only, goes around a gate that is asked for in no case, and *)
(* opens no pull request where that is disabled, whatever fails.           *)
SubmittedAsConfigured ==
  /\ remote = "plugin" =>
       IF fixRole = "contributor" THEN setup.push = "auto" ELSE setup.create # "no-mistakes"
  /\ remote = "gate" => fixRole = "maintainer" /\ gate = "passed"
  /\ pull = "plugin" => fixRole = "maintainer" /\ setup.create \in {"auto", "gh"}
=============================================================================
