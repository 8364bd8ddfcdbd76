------------------------- MODULE ApprovedWork_proofs -------------------------
(***************************************************************************)
(* Proofs about the fix submission of GithubWork, for every configuration, *)
(* any number of failing calls and whatever approvals and daemon deaths    *)
(* come from around it; about the way from the key to GitHub; and about    *)
(* the selection of InboxSelection, for any list and any number of keys.   *)
(***************************************************************************)
EXTENDS ApprovedWork, FiniteSetTheorems, TLAPS

UnderWay == {"prepare", "agent", "submit", "push", "push to create", "create", "gate", "detect"}

(* Which way out the fix effect is on, and what the configuration and its  *)
(* role have to be for that.                                               *)
WayOut ==
  /\ fix \in UnderWay \cup {"none", "ended", "lost"}
  /\ fix = "none" => fixRole = "unknown" /\ job = "none" /\ branch = "none"
  /\ fix # "none" => fixRole \in {"maintainer", "contributor"}
  /\ fix \in UnderWay => job = "running"
  /\ fix \in {"push to create", "create", "gate", "detect"} => fixRole = "maintainer"
  /\ fix \in {"push to create", "create"} => setup.create \in {"auto", "gh"}
  /\ fix = "push" => IF fixRole = "contributor" THEN setup.push = "auto"
                                                ELSE setup.create = "disabled"
  /\ fix = "create" => remote # "nobody"
  /\ job = "waiting_for_pr" => fixRole = "maintainer" \/ setup.push = "no-mistakes"

(* What exists at GitHub: a pull request stands on a pushed commit, a      *)
(* maintainer's fix is on a branch of its own, and only a maintainer's fix *)
(* gets to the gate, once.                                                 *)
AtGithub ==
  /\ pull # "nobody" => remote # "nobody"
  /\ branch \in {"none", "own", "head"}
  /\ branch = "head" => fixRole = "contributor"
  /\ gate # "idle" => fixRole = "maintainer"
  /\ fix \in {"none", "prepare", "agent", "submit", "gate"} => gate = "idle"
  /\ fix = "none" => remote = "nobody"

WorkInv ==
  /\ setup \in Work!Setup
  /\ WayOut
  /\ AtGithub
  /\ Work!ReportedFixIsPublished
  /\ Work!SubmittedAsConfigured

-----------------------------------------------------------------------------
(* The steps                                                               *)

LEMMA InitWork == Init => WorkInv
  <1> SUFFICES ASSUME Init PROVE WorkInv
    OBVIOUS
  <1>1. Work!Init
    BY DEF Init
  <1>2. setup \in Work!Setup
    BY <1>1, ApprovedWorkAssumption DEF Work!Init
  <1> QED BY <1>1, <1>2
    DEF Work!Init, WorkInv, WayOut, AtGithub, UnderWay, Work!ReportedFixIsPublished,
        Work!LeftForReview, Work!SubmittedAsConfigured

(* What other people, the pipeline and the user do.                        *)
LEMMA ExternalWork == ASSUME WorkInv, Work!External PROVE WorkInv'
  <1>1. CASE Work!Restamped \/ Work!OthersClose
    <2>1. UNCHANGED <<setup, fix, fixRole, branch, edited, remote, pull, gate, job>>
      BY <1>1 DEF Work!Restamped, Work!OthersClose, Work!fixVars
    <2> QED BY <2>1 DEF WorkInv, WayOut, AtGithub, UnderWay, Work!ReportedFixIsPublished,
                        Work!LeftForReview, Work!SubmittedAsConfigured
  <1>2. CASE Work!PipelineEnds
    <2>1. UNCHANGED <<setup, fix, fixRole, branch, edited, job>> /\ gate = "checking"
          /\ gate' \in {"passed", "rejected"}
      BY <1>2 DEF Work!PipelineEnds
    <2>2. remote' \in {remote, "gate"} /\ (remote # "nobody" => remote' = remote)
          /\ (remote' = "gate" => remote = "gate" \/ gate' = "passed")
      BY <1>2 DEF Work!PipelineEnds
    <2>3. pull' \in {pull, "gate"} /\ (pull' # "nobody" => remote' # "nobody")
      BY <1>2 DEF Work!PipelineEnds, WorkInv, AtGithub
    <2>4. WayOut' /\ AtGithub'
      BY <2>1, <2>2, <2>3 DEF WorkInv, WayOut, AtGithub, UnderWay
    <2>5. Work!ReportedFixIsPublished'
      BY <2>1, <2>2 DEF WorkInv, Work!ReportedFixIsPublished, Work!LeftForReview
    <2>6. Work!SubmittedAsConfigured'
      BY <2>1, <2>2, <2>3 DEF WorkInv, AtGithub, Work!SubmittedAsConfigured
    <2> QED BY <2>1, <2>4, <2>5, <2>6 DEF WorkInv
  <1>3. CASE Work!UserPushes
    BY <1>3 DEF Work!UserPushes, Work!actVars, WorkInv, WayOut, AtGithub,
                UnderWay, Work!ReportedFixIsPublished, Work!LeftForReview, Work!SubmittedAsConfigured
  <1> QED BY <1>1, <1>2, <1>3 DEF Work!External

(* Actions leave the fix alone.                                            *)
LEMMA ActionsWork ==
  ASSUME WorkInv,
         \/ Work!ActionRefused \/ Work!ActionFails \/ Work!ActionDone \/ Work!MergeAsAsked \/ Work!MergeAgain
         \/ \E o \in 0..LastOption : Work!StartAction(offer[o])
  PROVE  WorkInv'
  <1>1. UNCHANGED <<setup, Work!fixVars>>
    BY DEF Work!ActionRefused, Work!ActionFails, Work!ActionDone, Work!MergeAsAsked, Work!MergeAgain, Work!StartAction
  <1> QED BY <1>1 DEF Work!fixVars, WorkInv, WayOut, AtGithub, UnderWay,
                      Work!ReportedFixIsPublished, Work!LeftForReview, Work!SubmittedAsConfigured

(* The fix effect up to the commit.                                        *)
LEMMA BeginningWork ==
  ASSUME WorkInv, Work!StartFix \/ Work!Forgotten \/ Work!FixFails \/ Work!Prepare \/ Work!AgentEdits
  PROVE  WorkInv'
  <1>1. CASE Work!StartFix
    BY <1>1 DEF Work!StartFix, Work!actVars, WorkInv, WayOut, AtGithub, UnderWay,
                Work!ReportedFixIsPublished, Work!LeftForReview, Work!SubmittedAsConfigured
  <1>2. CASE Work!Forgotten
    BY <1>2 DEF Work!Forgotten, WorkInv, WayOut, AtGithub, UnderWay,
                Work!ReportedFixIsPublished, Work!LeftForReview, Work!SubmittedAsConfigured
  <1>3. CASE Work!FixFails
    BY <1>3 DEF Work!FixFails, Work!FixEnds, Work!actVars, WorkInv, WayOut, AtGithub, UnderWay,
                Work!ReportedFixIsPublished, Work!LeftForReview, Work!SubmittedAsConfigured
  <1>4. CASE Work!Prepare
    BY <1>4 DEF Work!Prepare, Work!FixGoesTo, Work!actVars, WorkInv, WayOut, AtGithub, UnderWay,
                Work!ReportedFixIsPublished, Work!LeftForReview, Work!SubmittedAsConfigured
  <1>5. CASE Work!AgentEdits
    BY <1>5 DEF Work!AgentEdits, Work!FixGoesTo, Work!actVars, WorkInv, WayOut, AtGithub, UnderWay,
                Work!ReportedFixIsPublished, Work!LeftForReview, Work!SubmittedAsConfigured
  <1> QED BY <1>1, <1>2, <1>3, <1>4, <1>5

(* The way out that the configuration asks for.                            *)
LEMMA SubmitWork == ASSUME WorkInv, Work!Submit PROVE WorkInv'
  <1>1. UNCHANGED <<setup, fixRole, branch, edited, remote, pull, gate>> /\ fix = "submit"
    BY DEF Work!Submit
  <1>2. \/ fix' = "ended" /\ job' = "failed"
        \/ fix' = "ended" /\ job' = "pr_opened" /\ ~ edited
        \/ fix' = "ended" /\ job' = "waiting_for_pr" /\ setup.push = "no-mistakes"
        \/ /\ fix' = "push" /\ job' = job
           /\ IF fixRole = "contributor" THEN setup.push = "auto" ELSE setup.create = "disabled"
        \/ /\ fix' = "push to create" /\ job' = job /\ fixRole = "maintainer"
           /\ setup.create \in {"auto", "gh"}
        \/ fix' = "gate" /\ job' = job /\ fixRole = "maintainer"
    BY DEF Work!Submit, Work!LeaveAsContributor, Work!LeaveAsMaintainer, Work!FixEnds, Work!FixGoesTo
  <1>3. WayOut' /\ AtGithub'
    BY <1>1, <1>2 DEF WorkInv, WayOut, AtGithub, UnderWay
  <1>4. Work!ReportedFixIsPublished'
    BY <1>1, <1>2 DEF WorkInv, WayOut, UnderWay, Work!ReportedFixIsPublished
  <1>5. Work!SubmittedAsConfigured'
    BY <1>1 DEF WorkInv, Work!SubmittedAsConfigured
  <1> QED BY <1>1, <1>3, <1>4, <1>5 DEF WorkInv

LEMMA PushingWork == ASSUME WorkInv, Work!Push \/ Work!Create \/ Work!PushToGate PROVE WorkInv'
  <1>1. CASE Work!Push
    <2>1. UNCHANGED <<setup, fixRole, branch, pull, gate>>
          /\ fix \in {"push", "push to create"}
      BY <1>1 DEF Work!Push
    <2>2. \/ /\ remote' # "nobody" /\ remote' \in {remote, "plugin"}
             /\ \/ fix' = "ended" /\ job' = "pr_opened"
                \/ fix = "push to create" /\ fix' = "create" /\ job' = job
          \/ fix' = "ended" /\ job' = "failed" /\ remote' = remote
      BY <1>1 DEF Work!Push, Work!FixEnds, Work!FixGoesTo
    <2>3. WayOut' /\ AtGithub'
      BY <2>1, <2>2 DEF WorkInv, WayOut, AtGithub, UnderWay
    <2>4. Work!ReportedFixIsPublished'
      BY <2>1, <2>2 DEF WorkInv, WayOut, UnderWay, Work!ReportedFixIsPublished, Work!LeftForReview
    <2>5. Work!SubmittedAsConfigured'
      BY <2>1, <2>2 DEF WorkInv, WayOut, Work!SubmittedAsConfigured
    <2> QED BY <2>1, <2>3, <2>4, <2>5 DEF WorkInv
  <1>2. CASE Work!Create
    BY <1>2 DEF Work!Create, Work!FixEnds, Work!actVars, WorkInv, WayOut, AtGithub, UnderWay,
                Work!ReportedFixIsPublished, Work!LeftForReview, Work!SubmittedAsConfigured
  <1>3. CASE Work!PushToGate
    <2>1. UNCHANGED <<setup, fixRole, branch, remote, pull>> /\ fix = "gate"
          /\ gate' \in {"idle", "checking"}
      BY <1>3 DEF Work!PushToGate
    <2>2. \/ fix' = "detect" /\ job' = job
          \/ fix' = "push to create" /\ job' = job /\ setup.create = "auto"
          \/ fix' = "ended" /\ job' = "failed"
      BY <1>3 DEF Work!PushToGate, Work!FixEnds, Work!FixGoesTo
    <2>3. WayOut' /\ AtGithub'
      BY <2>1, <2>2 DEF WorkInv, WayOut, AtGithub, UnderWay
    <2>4. Work!ReportedFixIsPublished'
      BY <2>1, <2>2 DEF WorkInv, WayOut, UnderWay, Work!ReportedFixIsPublished
    <2>5. Work!SubmittedAsConfigured'
      BY <2>1, <2>2 DEF WorkInv, AtGithub, Work!SubmittedAsConfigured
    <2> QED BY <2>1, <2>3, <2>4, <2>5 DEF WorkInv
  <1> QED BY <1>1, <1>2, <1>3

(* A pull request that is found is a pushed one.                           *)
LEMMA FindingWork == ASSUME WorkInv, Work!Detect \/ Work!Probe PROVE WorkInv'
  <1>1. UNCHANGED <<setup, fixRole, branch, remote, pull, gate>>
        /\ fix' \in {"ended", "lost"} /\ job' \in {"pr_opened", "waiting_for_pr"}
    BY DEF Work!Detect, Work!Probe, Work!FixEnds
  <1>2. job' = "pr_opened" => Work!Detected
    BY DEF Work!Detect, Work!Probe, Work!FixEnds
  <1>3. fixRole = "maintainer" \/ setup.push = "no-mistakes"
    BY DEF Work!Detect, Work!Probe, WorkInv, WayOut
  <1>4. fixRole \in {"maintainer", "contributor"}
    BY DEF Work!Detect, Work!Probe, WorkInv, WayOut
  <1>5. WayOut' /\ AtGithub'
    BY <1>1, <1>3, <1>4 DEF WorkInv, WayOut, AtGithub, UnderWay
  <1>6. Work!ReportedFixIsPublished'
    BY <1>1, <1>2, <1>3, <1>4
    DEF WorkInv, AtGithub, Work!Detected, Work!ReportedFixIsPublished, Work!LeftForReview
  <1>7. Work!SubmittedAsConfigured'
    BY <1>1 DEF WorkInv, Work!SubmittedAsConfigured
  <1> QED BY <1>1, <1>5, <1>6, <1>7 DEF WorkInv

LEMMA NextWork == WorkInv /\ [Next]_vars => WorkInv'
  <1> SUFFICES ASSUME WorkInv, [Next]_vars PROVE WorkInv'
    OBVIOUS
  <1>1. CASE Work!External
    BY <1>1, ExternalWork
  <1>2. CASE \/ Work!ActionRefused \/ Work!ActionFails \/ Work!ActionDone
             \/ Work!MergeAsAsked \/ Work!MergeAgain
             \/ \E o \in 0..LastOption : Work!StartAction(offer[o])
    BY <1>2, ActionsWork
  <1>3. CASE Work!StartFix \/ Work!Forgotten \/ Work!FixFails \/ Work!Prepare \/ Work!AgentEdits
    BY <1>3, BeginningWork
  <1>4. CASE Work!Submit
    BY <1>4, SubmitWork
  <1>5. CASE Work!Push \/ Work!Create \/ Work!PushToGate
    BY <1>5, PushingWork
  <1>6. CASE Work!Detect \/ Work!Probe
    BY <1>6, FindingWork
  <1>7. CASE UNCHANGED workVars
    BY <1>7 DEF workVars, WorkInv, WayOut, AtGithub, UnderWay, Work!ReportedFixIsPublished,
                Work!LeftForReview, Work!SubmittedAsConfigured
  <1>8. CASE FanOut
    <2>1. Work!StartFix \/ \E o \in 0..LastOption : Work!StartAction(offer[o])
      BY <1>8 DEF FanOut
    <2> QED BY <2>1, <1>2, <1>3
  <1>9. CASE DaemonComesOrGoes
    BY <1>9, <1>3, <1>7 DEF DaemonComesOrGoes
  <1>10. CASE User
    BY <1>10, <1>7 DEF User
  <1>11. CASE Plugin
    <2>1. Work!External \/ Work!Step
      BY <1>11 DEF Plugin
    <2> QED BY <2>1, <1>1, <1>2, <1>3, <1>4, <1>5, <1>6 DEF Work!Step
  <1>12. CASE UNCHANGED vars
    BY <1>12, <1>7 DEF vars
  <1> QED BY <1>8, <1>9, <1>10, <1>11, <1>12 DEF Next

(* A fix that is reported as opened is at GitHub, for every configuration  *)
(* and whatever fails, unless there was nothing to publish or it is the    *)
(* case LeftForReview names.                                               *)
THEOREM FixesArePublished == Spec => []ReportedFixIsPublished
  <1>1. WorkInv => ReportedFixIsPublished
    BY DEF WorkInv, ReportedFixIsPublished
  <1> QED BY <1>1, InitWork, NextWork, PTL DEF Spec

(* A fix leaves by the way the configuration asks for, for every           *)
(* configuration and whatever fails.                                       *)
THEOREM FixesLeaveAsConfigured == Spec => []SubmittedAsConfigured
  <1>1. WorkInv => SubmittedAsConfigured
    BY DEF WorkInv, SubmittedAsConfigured
  <1> QED BY <1>1, InitWork, NextWork, PTL DEF Spec

-----------------------------------------------------------------------------
(* What is done is what was meant                                          *)

Meant == {offer[o] : o \in {n \in 0..LastOption : <<Mine, n>> \in meant}}

(* The key handler is never more than a frame behind the screen, so that   *)
(* nothing is in the log that was not shown; the action that runs and the  *)
(* fix that runs are approved work; and what is done is what the action    *)
(* does.                                                                   *)
HandlerKeepsUp == hands = screen \/ before = Inbox!Shown(hands)

ActTyped ==
  act \in [type : Work!ActionType \cup {"none"},
          step : {"none", "called", "merge again", "succeeded", "failed", "lost"},
          role : Work!Role]

DoneByAct ==
  /\ act.type = "none" => act.step = "none" /\ done = {}
  /\ done \cap Work!ActionType \subseteq {act.type}
  /\ act.step = "merge again" => act.type = "merge"

MeantInv ==
  /\ setup \in Work!Setup /\ role \in Work!Role
  /\ offer \in [0..LastOption -> Work!ActionType \cup {"fix"}]
  /\ HandlerKeepsUp
  /\ \A r, o : Inbox!Approved(r, o) \in log => <<r, o>> \in meant
  /\ ActTyped
  /\ DoneByAct
  /\ act.type # "none" => act.type \in Meant
  /\ fix # "none" \/ job # "none" => "fix" \in Meant

(* More of what is shown is more of what is meant.                         *)
LEMMA MeantGrows ==
  ASSUME meant \subseteq meant', UNCHANGED offer
  PROVE  Meant \subseteq Meant'
  BY DEF Meant

LEMMA InitMeant == Init => MeantInv
  <1> SUFFICES ASSUME Init PROVE MeantInv
    OBVIOUS
  <1>1. Work!Init /\ Inbox!Init
    BY DEF Init
  <1>2. PICK c \in Cases : c.setup = setup
    BY <1>1 DEF Work!Init
  <1>3. PICK d \in Cases : d.setup = setup /\ d.offer = offer
    BY DEF Init
  <1>4. setup \in Work!Setup /\ offer \in [0..LastOption -> Work!ActionType \cup {"fix"}]
    BY <1>3, ApprovedWorkAssumption
  <1>5. role \in Work!Role
    BY <1>1, <1>4 DEF Work!Init, Work!Setup
  <1>6. /\ log = {} /\ done = {} /\ fix = "none" /\ job = "none"
        /\ act = [type |-> "none", step |-> "none", role |-> "unknown"]
    BY <1>1 DEF Work!Init, Inbox!Init, Work!NoAct
  <1>7. ActTyped
    BY <1>6 DEF ActTyped, Work!Role
  <1>8. DoneByAct
    BY <1>6 DEF DoneByAct
  <1>9. HandlerKeepsUp
    BY <1>1 DEF Inbox!Init, HandlerKeepsUp
  <1> QED BY <1>4, <1>5, <1>6, <1>7, <1>8, <1>9 DEF MeantInv

(* A step of the user, who alone adds to the log.                          *)
LEMMA UserMeant == ASSUME MeantInv, User PROVE MeantInv'
  <1>1. UNCHANGED <<setup, role, done, act, fix, job, offer>>
    BY DEF User, workVars
  <1>2. /\ HandlerKeepsUp' /\ meant \subseteq meant'
        /\ \A r, o : Inbox!Approved(r, o) \in log' => <<r, o>> \in meant'
    <2>1. CASE \/ Inbox!ListChanges \/ \E step \in {-1, 1} : Inbox!Arrow(step)
               \/ \E n \in Inbox!Option : Inbox!Digit(n)
               \/ Inbox!Switch
      <3>1. UNCHANGED <<log, meant, hands, screen, before>>
        BY <2>1 DEF Inbox!ListChanges, Inbox!Arrow, Inbox!Digit, Inbox!Switch
      <3> QED BY <3>1 DEF MeantInv, Inbox!Approved, HandlerKeepsUp, Inbox!Shown, Inbox!Highlighted
    <2>2. CASE Inbox!Draw
      <3>1. /\ UNCHANGED <<log, meant, hands>>
            /\ hands = screen /\ before' = Inbox!Shown(screen)
        BY <2>2 DEF Inbox!Draw
      <3>2. before' = Inbox!Shown(hands)'
        BY <3>1 DEF Inbox!Shown, Inbox!Highlighted
      <3> QED BY <3>1, <3>2 DEF MeantInv, Inbox!Approved, HandlerKeepsUp
    <2>3. CASE Inbox!EffectsRun
      <3>1. UNCHANGED <<log, meant, screen>> /\ hands' = screen
        BY <2>3 DEF Inbox!EffectsRun
      <3> QED BY <3>1 DEF MeantInv, Inbox!Approved, HandlerKeepsUp
    <2>4. CASE Inbox!Approve
      <3> DEFINE rec == Inbox!Highlighted(hands)
      <3>1. /\ UNCHANGED <<hands, screen, before>>
            /\ meant \subseteq meant'
            /\ log' # log => Inbox!Shown(screen) \in meant'
            /\ log' # log /\ hands # screen => before \in meant'
            /\ log' = log \/ log' = log \cup {Inbox!Approved(rec, hands.option)}
        BY <2>4 DEF Inbox!Approve, Inbox!NoteApproval
      <3>2. log' # log => <<rec, hands.option>> \in meant'
        BY <3>1 DEF MeantInv, HandlerKeepsUp, Inbox!Shown
      <3>3. HandlerKeepsUp'
        BY <3>1 DEF MeantInv, HandlerKeepsUp, Inbox!Shown, Inbox!Highlighted
      <3> HIDE DEF rec
      <3>4. ASSUME NEW r, NEW o, Inbox!Approved(r, o) = Inbox!Approved(rec, hands.option)
            PROVE  r = rec /\ o = hands.option
        BY <3>4 DEF Inbox!Approved
      <3> QED BY <3>1, <3>2, <3>3, <3>4 DEF MeantInv
    <2>5. CASE Inbox!Decide
      <3>1. /\ UNCHANGED <<meant, hands, screen, before>>
            /\ log' \in {log, log \cup {Inbox!Decided(Inbox!Highlighted(hands))}}
        BY <2>5 DEF Inbox!Decide
      <3>2. ASSUME NEW r, NEW o, NEW x PROVE Inbox!Approved(r, o) # Inbox!Decided(x)
        BY DEF Inbox!Approved, Inbox!Decided
      <3>3. HandlerKeepsUp'
        BY <3>1 DEF MeantInv, HandlerKeepsUp, Inbox!Shown, Inbox!Highlighted
      <3> QED BY <3>1, <3>2, <3>3 DEF MeantInv
    <2> QED BY <2>1, <2>2, <2>3, <2>4, <2>5 DEF User, Inbox!Step
  <1>3. Meant \subseteq Meant'
    BY <1>1, <1>2, MeantGrows
  <1> QED BY <1>1, <1>2, <1>3 DEF MeantInv, ActTyped, DoneByAct

(* The work begins with what the log says is approved.                     *)
LEMMA FanOutMeant == ASSUME MeantInv, FanOut PROVE MeantInv'
  <1>1. PICK o \in 0..LastOption :
          /\ Inbox!Approved(Mine, o) \in log
          /\ IF offer[o] = "fix" THEN Work!StartFix ELSE Work!StartAction(offer[o])
    BY DEF FanOut
  <1>2. offer[o] \in Meant /\ offer[o] \in Work!ActionType \cup {"fix"}
    BY <1>1 DEF MeantInv, Meant
  <1>3. /\ UNCHANGED <<log, meant, offer, setup, role, done>> /\ Meant' = Meant
        /\ HandlerKeepsUp'
    BY <1>1 DEF FanOut, inboxVars, Work!StartFix, Work!StartAction, Work!actVars, Meant,
                MeantInv, HandlerKeepsUp, Inbox!Shown, Inbox!Highlighted
  <1>4. CASE offer[o] = "fix"
    <2>1. UNCHANGED act
      BY <1>1, <1>4 DEF Work!StartFix, Work!actVars
    <2> QED BY <1>2, <1>3, <1>4, <2>1 DEF MeantInv, ActTyped, DoneByAct, Inbox!Approved
  <1>5. CASE offer[o] # "fix"
    <2>1. /\ act = Work!NoAct
          /\ act' = [type |-> offer[o], step |-> "called", role |-> Work!ActionRole]
          /\ UNCHANGED <<fix, job>>
      BY <1>1, <1>5 DEF Work!StartAction, Work!fixVars
    <2>2. Work!ActionRole \in Work!Role
      BY DEF Work!ActionRole, MeantInv, Work!Setup
    <2>3. ActTyped'
      BY <1>2, <1>5, <2>1, <2>2 DEF ActTyped
    <2>4. DoneByAct'
      BY <1>2, <1>3, <1>5, <2>1 DEF MeantInv, DoneByAct, Work!NoAct, Work!ActionType
    <2> QED BY <1>2, <1>3, <1>5, <2>1, <2>3, <2>4 DEF MeantInv, Inbox!Approved
  <1> QED BY <1>4, <1>5

(* Steps of the fix begin nothing.                                         *)
LEMMA FixMeant ==
  ASSUME MeantInv, UNCHANGED <<inboxVars, offer, setup, done, act>>,
         role' \in Work!Role, fix' # "none" \/ job' # "none" => fix # "none" \/ job # "none"
  PROVE  MeantInv'
  <1>1. Meant' = Meant /\ UNCHANGED <<log, meant>> /\ HandlerKeepsUp'
    BY DEF Meant, inboxVars, MeantInv, HandlerKeepsUp, Inbox!Shown, Inbox!Highlighted
  <1> QED BY <1>1 DEF MeantInv, ActTyped, DoneByAct, Inbox!Approved

(* Steps of the action do what it is for, unless they are refused.         *)
LEMMA ActionMeant ==
  ASSUME MeantInv, UNCHANGED <<inboxVars, offer>>,
         \/ Work!ActionRefused \/ Work!ActionFails \/ Work!ActionDone
         \/ Work!MergeAsAsked \/ Work!MergeAgain
  PROVE  MeantInv'
  <1>1. /\ Meant' = Meant /\ UNCHANGED <<log, meant, setup, role, fix, job>>
        /\ HandlerKeepsUp'
    BY DEF Meant, inboxVars, Work!ActionRefused, Work!ActionFails, Work!ActionDone,
           Work!MergeAsAsked, Work!MergeAgain, Work!fixVars,
           MeantInv, HandlerKeepsUp, Inbox!Shown, Inbox!Highlighted
  <1>2. act.type \in Work!ActionType
    BY DEF MeantInv, ActTyped, DoneByAct, Work!ActionRefused, Work!ActionFails,
           Work!ActionDone, Work!MergeAsAsked, Work!MergeAgain
  <1>3. CASE Work!ActionRefused \/ Work!ActionFails
    <2>1. act' = [act EXCEPT !.step = "failed"] /\ done' = done
      BY <1>3 DEF Work!ActionRefused, Work!ActionFails, Work!ActionEnds
    <2>2. ActTyped' /\ act'.type = act.type /\ act'.role = act.role /\ act'.step = "failed"
      BY <2>1 DEF MeantInv, ActTyped
    <2>3. DoneByAct'
      BY <1>2, <2>1, <2>2 DEF MeantInv, DoneByAct, Work!ActionType
    <2> QED BY <1>1, <2>2, <2>3 DEF MeantInv, Inbox!Approved
  <1>4. CASE Work!ActionDone
    <2>1. /\ act' = [act EXCEPT !.step = "succeeded"]
          /\ done' = done \cup {act.type}
      BY <1>4 DEF Work!ActionDone, Work!ActionEnds
    <2>2. /\ ActTyped' /\ act'.type = act.type /\ act'.role = act.role
          /\ act'.step = "succeeded"
      BY <2>1 DEF MeantInv, ActTyped
    <2>3. DoneByAct'
      BY <1>2, <2>1, <2>2 DEF MeantInv, DoneByAct, Work!ActionType
    <2> QED BY <1>1, <2>2, <2>3 DEF MeantInv, Inbox!Approved
  <1>5. CASE Work!MergeAsAsked \/ Work!MergeAgain
    <2>1. act.type = "merge"
      BY <1>5 DEF Work!MergeAsAsked, Work!MergeAgain, MeantInv, DoneByAct
    <2>2. ASSUME NEW method, Work!Merge(method)
          PROVE  /\ act' = [act EXCEPT !.step = "succeeded"]
                 /\ \E n \in Work!Method : done' = done \cup {"merge", n}
      <3>1. method \in Work!Method
        BY <2>2 DEF Work!Merge, Work!CanMerge, MeantInv, Work!Setup
      <3> QED BY <2>2, <3>1 DEF Work!Merge, Work!ActionEnds
    <2>3. \/ act' \in {[act EXCEPT !.step = "merge again"], [act EXCEPT !.step = "failed"]}
             /\ done' = done
          \/ /\ act' = [act EXCEPT !.step = "succeeded"]
             /\ \E n \in Work!Method : done' = done \cup {"merge", n}
      BY <1>5, <2>2 DEF Work!MergeAsAsked, Work!MergeAgain, Work!ActionEnds
    <2>4. ActTyped'
      BY <2>3 DEF MeantInv, ActTyped
    <2>5. act'.type = "merge" /\ act'.role = act.role
      BY <2>1, <2>3 DEF MeantInv, ActTyped
    <2>6. DoneByAct'
      BY <2>1, <2>3, <2>5 DEF MeantInv, DoneByAct, Work!Method, Work!ActionType
    <2> QED BY <1>1, <2>1, <2>4, <2>5, <2>6 DEF MeantInv, Inbox!Approved
  <1> QED BY <1>3, <1>4, <1>5

(* A daemon that dies leaves an action where it is.                        *)
LEMMA ForgottenMeant ==
  ASSUME MeantInv, Work!Forgotten, UNCHANGED <<log, meant, offer>>, HandlerKeepsUp'
  PROVE  MeantInv'
  <1>1. Meant' = Meant
    BY DEF Meant
  <1>2. /\ act' \in {act, [act EXCEPT !.step = "lost"]} /\ UNCHANGED <<setup, role, done, job>>
        /\ act' # act => act.step \in {"called", "merge again"}
        /\ fix' # "none" => fix # "none"
    BY DEF Work!Forgotten
  <1>3. ActTyped' /\ act'.type = act.type /\ act'.role = act.role
    BY <1>2 DEF MeantInv, ActTyped
  <1>4. DoneByAct'
    BY <1>2, <1>3 DEF MeantInv, DoneByAct, ActTyped
  <1> QED BY <1>1, <1>2, <1>3, <1>4 DEF MeantInv, Inbox!Approved

LEMMA PluginMeant == ASSUME MeantInv, Plugin PROVE MeantInv'
  <1>1. UNCHANGED <<inboxVars, offer>>
    BY DEF Plugin
  <1>2. CASE \/ Work!ActionRefused \/ Work!ActionFails \/ Work!ActionDone
             \/ Work!MergeAsAsked \/ Work!MergeAgain
    BY <1>1, <1>2, ActionMeant
  <1>3. CASE Work!External
    <2>1. UNCHANGED <<setup, done, act, fix, job>> /\ role' \in Work!Role
      BY <1>3 DEF Work!External, Work!Restamped, Work!OthersClose, Work!PipelineEnds,
                  Work!UserPushes, Work!actVars, Work!fixVars, Work!Role, MeantInv
    <2> QED BY <1>1, <2>1, FixMeant
  <1>4. CASE \/ Work!FixFails \/ Work!Prepare \/ Work!AgentEdits \/ Work!Submit \/ Work!Push
             \/ Work!Create \/ Work!PushToGate \/ Work!Detect \/ Work!Probe
    <2>1. UNCHANGED <<setup, done, act, role>>
      BY <1>4 DEF Work!FixFails, Work!Prepare, Work!AgentEdits, Work!Submit, Work!Push,
                  Work!Create, Work!PushToGate, Work!Detect, Work!Probe, Work!actVars
    <2>2. fix # "none"
      BY <1>4 DEF Work!FixFails, Work!Prepare, Work!AgentEdits, Work!Submit, Work!Push,
                  Work!Create, Work!PushToGate, Work!Detect, Work!Probe
    <2> QED BY <1>1, <2>1, <2>2, FixMeant DEF MeantInv
  <1> QED BY <1>2, <1>3, <1>4 DEF Plugin, Work!Step

LEMMA NextMeant == MeantInv /\ [Next]_vars => MeantInv'
  <1> SUFFICES ASSUME MeantInv, [Next]_vars PROVE MeantInv'
    OBVIOUS
  <1>1. CASE DaemonComesOrGoes
    <2>1. UNCHANGED <<log, meant, offer>> /\ HandlerKeepsUp'
      BY <1>1 DEF DaemonComesOrGoes, Inbox!DaemonComesOrGoes, MeantInv, HandlerKeepsUp,
                  Inbox!Shown, Inbox!Highlighted
    <2>2. CASE Work!Forgotten
      BY <2>1, <2>2, ForgottenMeant
    <2>3. CASE UNCHANGED workVars
      BY <2>1, <2>3 DEF workVars, MeantInv, Meant, ActTyped, DoneByAct, Inbox!Approved
    <2> QED BY <1>1, <2>2, <2>3 DEF DaemonComesOrGoes
  <1>2. CASE UNCHANGED vars
    BY <1>2, FixMeant DEF vars, workVars, MeantInv
  <1> QED BY <1>1, <1>2, FanOutMeant, UserMeant, PluginMeant DEF Next

(* All that is done at GitHub, and every fix that is begun, is the work of *)
(* an option that was on the screen when `a' was pressed, or on the frame  *)
(* just before where the handler had still to be replaced, for every list, *)
(* role and configuration.                                                 *)
THEOREM WorkIsMeant == Spec => []OnlyWhatWasMeant
  <1>1. MeantInv => OnlyWhatWasMeant
    <2> SUFFICES ASSUME MeantInv PROVE OnlyWhatWasMeant
      OBVIOUS
    <2>1. done \cap Work!ActionType \subseteq Meant
      BY DEF MeantInv, DoneByAct
    <2>2. job # "none" => "fix" \in Meant
      BY DEF MeantInv
    <2> QED BY <2>1, <2>2 DEF OnlyWhatWasMeant, Meant
  <1> QED BY <1>1, InitMeant, NextMeant, PTL DEF Spec

-----------------------------------------------------------------------------
(* The selection                                                           *)

(* Without an arrow since the last frame the anchor is the highlighted     *)
(* row; the reset has run for the frame the keys act on; and a choice that *)
(* counts was made for the highlighted row, unless the keys act on another *)
(* row than the one on the screen.                                         *)
SelectionInv ==
  /\ inbox \in Inbox!Lists /\ lastIndex \in Int
  /\ ~ moved => anchor = Inbox!Highlighted(screen)
  /\ resetFor = Inbox!Highlighted(hands)
  /\ option # 0 /\ Inbox!Highlighted(hands) = Inbox!Highlighted(screen) =>
       option \in picked /\ optionOf = Inbox!Highlighted(screen)
  /\ screen.option # 0 => screen.option \in picked

LEMMA InboxIsSequence ==
  ASSUME inbox \in Inbox!Lists
  PROVE  inbox \in Seq(Rec) /\ Len(inbox) \in Nat /\ DOMAIN inbox = 1..Len(inbox)
  <1>1. PICK n \in 0..Cardinality(Rec) : inbox \in [1..n -> Rec]
    <2>1. Inbox!Cardinality(Rec) = Cardinality(Rec)
      BY Zenon DEF Inbox!Cardinality, Cardinality
    <2> QED BY <2>1 DEF Inbox!Lists
  <1>2. n \in Nat
    BY <1>1, ApprovedWorkAssumption, FS_CardinalityType
  <1>3. inbox \in Seq(Rec)
    BY <1>1, <1>2
  <1> QED BY <1>3

(* Max and Min of two are what they should be.                             *)
LEMMA OfTwo ==
  ASSUME NEW a \in Int, NEW b \in Int
  PROVE  /\ Inbox!Max({a, b}) \in Int /\ Inbox!Max({a, b}) >= a
         /\ Inbox!Min({a, b}) \in Int
  <1>1. \E x \in {a, b} : \A y \in {a, b} : x >= y
    <2>1. CASE a >= b BY <2>1
    <2>2. CASE b >= a BY <2>2
    <2> QED BY <2>1, <2>2
  <1>2. \E x \in {a, b} : \A y \in {a, b} : x =< y
    <2>1. CASE a >= b BY <2>1
    <2>2. CASE b >= a BY <2>2
    <2> QED BY <2>1, <2>2
  <1>3. Inbox!Max({a, b}) \in {a, b} /\ \A y \in {a, b} : Inbox!Max({a, b}) >= y
    BY <1>1 DEF Inbox!Max
  <1>4. Inbox!Min({a, b}) \in {a, b}
    BY <1>2 DEF Inbox!Min
  <1> QED BY <1>3, <1>4

(* The row a frame highlights: the anchored one, while it is listed.       *)
LEMMA SelectedIsListed ==
  ASSUME SelectionInv
  PROVE  /\ Inbox!SelectedRow \in Int /\ Inbox!SelectedRow >= 1
         /\ anchor \in Inbox!Range(inbox) =>
              Inbox!SelectedRow \in DOMAIN inbox /\ inbox[Inbox!SelectedRow] = anchor
  <1>1. Len(inbox) \in Nat /\ DOMAIN inbox = 1..Len(inbox)
    BY InboxIsSequence DEF SelectionInv
  <1>2. CASE anchor \in Inbox!Range(inbox)
    <2>1. \E i \in DOMAIN inbox : inbox[i] = anchor
      BY <1>2 DEF Inbox!Range
    <2>2. Inbox!Position(anchor) \in DOMAIN inbox /\ inbox[Inbox!Position(anchor)] = anchor
      BY <2>1 DEF Inbox!Position
    <2> QED BY <1>1, <1>2, <2>2 DEF Inbox!SelectedRow
  <1>3. CASE anchor \notin Inbox!Range(inbox)
    <2>1. Inbox!Min({lastIndex, Len(inbox)}) \in Int
      <3>1. lastIndex \in Int /\ Len(inbox) \in Int
        BY <1>1 DEF SelectionInv
      <3> QED BY ONLY <3>1, OfTwo
    <2>2. 1 \in Int
      OBVIOUS
    <2>3. /\ Inbox!Max({1, Inbox!Min({lastIndex, Len(inbox)})}) \in Int
          /\ Inbox!Max({1, Inbox!Min({lastIndex, Len(inbox)})}) >= 1
      BY <2>1, <2>2, OfTwo
    <2> QED BY <1>3, <2>3 DEF Inbox!SelectedRow
  <1> QED BY <1>2, <1>3

(* What a new frame shows.                                                 *)
LEMMA DrawnFrame ==
  ASSUME SelectionInv, Inbox!Draw
  PROVE  /\ Inbox!Highlighted(screen)' \in Inbox!Range(inbox) \cup {Nobody}
         /\ screen'.rows = inbox
         /\ anchor \in Inbox!Range(inbox) => Inbox!Highlighted(screen)' = anchor
         /\ screen'.option # 0 =>
              screen'.option = option /\ optionOf = Inbox!Highlighted(screen)'
  <1> DEFINE row == Inbox!SelectedRow
             rec == IF row <= Len(inbox) THEN inbox[row] ELSE Nobody
  <1>1. screen' = [rows |-> inbox, at |-> row, option |-> Inbox!EffectiveOption(rec)]
    BY DEF Inbox!Draw
  <1>2. /\ row \in Int /\ row >= 1
        /\ anchor \in Inbox!Range(inbox) => row \in DOMAIN inbox /\ inbox[row] = anchor
    BY SelectedIsListed
  <1>3. Len(inbox) \in Nat /\ DOMAIN inbox = 1..Len(inbox)
    BY InboxIsSequence DEF SelectionInv
  <1> HIDE DEF row
  <1>4. row <= Len(inbox) <=> row \in DOMAIN inbox
    BY <1>2, <1>3
  <1>5. Inbox!Highlighted(screen)' = rec
    BY <1>1, <1>4 DEF Inbox!Highlighted
  <1>6. rec \in Inbox!Range(inbox) \cup {Nobody}
    BY <1>4 DEF Inbox!Range
  <1>7. anchor \in Inbox!Range(inbox) => rec = anchor
    BY <1>2, <1>4
  <1>8. Inbox!EffectiveOption(rec) # 0 =>
          Inbox!EffectiveOption(rec) = option /\ optionOf = rec
    BY DEF Inbox!EffectiveOption
  <1> HIDE DEF rec
  <1> QED BY <1>1, <1>5, <1>6, <1>7, <1>8

LEMMA InitSelection == Init => SelectionInv
  <1> SUFFICES ASSUME Init PROVE SelectionInv
    OBVIOUS
  <1>1. Inbox!Init
    BY DEF Init
  <1>2. screen = [rows |-> inbox, at |-> 1, option |-> 0] /\ hands = screen
    BY <1>1 DEF Inbox!Init
  <1>3. screen.option = 0 /\ option = 0
    BY <1>1, <1>2 DEF Inbox!Init
  <1> QED BY <1>1, <1>3 DEF Inbox!Init, SelectionInv

LEMMA DrawSelection == ASSUME SelectionInv, Inbox!Draw PROVE SelectionInv'
  <1>1. /\ UNCHANGED <<inbox, option, optionOf, resetFor, hands>> /\ hands = screen
        /\ anchor' = Inbox!Highlighted(screen)' /\ lastIndex' = Inbox!SelectedRow
        /\ picked' = IF Inbox!Highlighted(screen)' = Inbox!Highlighted(screen)
                       THEN picked ELSE {}
    BY DEF Inbox!Draw, Inbox!Highlighted
  <1>2. lastIndex' \in Int
    BY <1>1, SelectedIsListed
  <1>3. screen'.option # 0 =>
          screen'.option = option /\ optionOf = Inbox!Highlighted(screen)'
    BY DrawnFrame
  <1>4. Inbox!Highlighted(hands)' = Inbox!Highlighted(hands)
        /\ Inbox!Highlighted(hands) = Inbox!Highlighted(screen)
    BY <1>1 DEF Inbox!Highlighted
  <1> QED BY <1>1, <1>2, <1>3, <1>4 DEF SelectionInv, Inbox!Lists

LEMMA StepSelection ==
  ASSUME SelectionInv, Inbox!Step \/ Inbox!DaemonComesOrGoes PROVE SelectionInv'
  <1> USE DEF SelectionInv
  <1>1. CASE Inbox!Draw
    BY <1>1, DrawSelection
  <1>2. CASE Inbox!ListChanges
    BY <1>2 DEF Inbox!ListChanges, Inbox!Lists, Inbox!Highlighted
  <1>3. CASE Inbox!EffectsRun
    <2>1. /\ hands' = screen /\ resetFor' = Inbox!Highlighted(screen)
          /\ option' = IF resetFor # Inbox!Highlighted(screen) THEN 0 ELSE option
          /\ UNCHANGED <<inbox, lastIndex, moved, anchor, screen, optionOf, picked>>
      BY <1>3 DEF Inbox!EffectsRun
    <2>2. /\ Inbox!Highlighted(hands)' = Inbox!Highlighted(screen)
          /\ Inbox!Highlighted(screen)' = Inbox!Highlighted(screen)
      BY <2>1 DEF Inbox!Highlighted
    <2> QED BY <2>1, <2>2 DEF Inbox!Lists
  <1>4. ASSUME NEW step \in {-1, 1}, Inbox!Arrow(step) PROVE SelectionInv'
    BY <1>4 DEF Inbox!Arrow, Inbox!Lists, Inbox!Highlighted
  <1>5. ASSUME NEW n \in Inbox!Option, Inbox!Digit(n) PROVE SelectionInv'
    <2>1. /\ optionOf' = Inbox!Highlighted(hands)
          /\ picked' = IF Inbox!Highlighted(hands) = Inbox!Highlighted(screen)
                         THEN picked \cup {option'} ELSE picked
          /\ UNCHANGED <<inbox, lastIndex, moved, anchor, screen, hands, resetFor>>
      BY <1>5 DEF Inbox!Digit
    <2>2. /\ Inbox!Highlighted(hands)' = Inbox!Highlighted(hands)
          /\ Inbox!Highlighted(screen)' = Inbox!Highlighted(screen)
      BY <2>1 DEF Inbox!Highlighted
    <2> QED BY <2>1, <2>2 DEF Inbox!Lists
  <1>6. CASE Inbox!Approve \/ Inbox!Decide \/ Inbox!Switch \/ Inbox!DaemonComesOrGoes
    BY <1>6 DEF Inbox!Approve, Inbox!Decide, Inbox!Switch, Inbox!DaemonComesOrGoes,
                Inbox!Lists, Inbox!Highlighted
  <1> QED BY <1>1, <1>2, <1>3, <1>4, <1>5, <1>6 DEF Inbox!Step

LEMMA NextSelection == SelectionInv /\ [Next]_vars => SelectionInv'
  <1> SUFFICES ASSUME SelectionInv, [Next]_vars PROVE SelectionInv'
    OBVIOUS
  <1>1. CASE UNCHANGED inboxVars
    BY <1>1 DEF inboxVars, SelectionInv, Inbox!Lists, Inbox!Highlighted
  <1>2. CASE User \/ DaemonComesOrGoes
    BY <1>2, StepSelection DEF User, DaemonComesOrGoes
  <1> QED BY <1>1, <1>2 DEF Next, FanOut, Plugin, vars

(* A choice never passes from one recommendation to another, whatever the  *)
(* daemon does to the list and however late the reset and the handler of a *)
(* frame come (effectiveSelectedOption in tui/app.js).                     *)
THEOREM ChoicesStay == Spec => []ChoiceStaysWithItsRow
  <1>1. SelectionInv => ChoiceStaysWithItsRow
    BY DEF SelectionInv, ChoiceStaysWithItsRow, Inbox!ChoiceStaysWithItsRow
  <1> QED BY <1>1, InitSelection, NextSelection, PTL DEF Spec

(* The highlight leaves a row only by an arrow or because the row has left *)
(* the list, for every way of reordering it.                               *)
THEOREM HighlightsStay == Spec => HighlightStays
  <1> DEFINE Leaves == Inbox!Highlighted(screen)' # Inbox!Highlighted(screen)
             Reason == moved \/ Inbox!Highlighted(screen) \notin Inbox!Range(screen'.rows)
  <1>1. ASSUME SelectionInv, [Next]_vars PROVE [Leaves => Reason]_inboxVars
    <2>1. CASE Inbox!Draw
      <3>1. screen'.rows = inbox
            /\ (anchor \in Inbox!Range(inbox) => Inbox!Highlighted(screen)' = anchor)
        BY <1>1, <2>1, DrawnFrame
      <3> QED BY <1>1, <3>1 DEF SelectionInv
    <2>2. CASE UNCHANGED screen
      BY <2>2 DEF Inbox!Highlighted
    <2>3. Inbox!Draw \/ UNCHANGED screen
      BY <1>1 DEF Next, User, FanOut, DaemonComesOrGoes, Plugin, vars, inboxVars, Inbox!Step,
        Inbox!ListChanges, Inbox!EffectsRun, Inbox!Arrow, Inbox!Digit, Inbox!Approve,
        Inbox!Decide, Inbox!Switch, Inbox!DaemonComesOrGoes
    <2> QED BY <2>1, <2>2, <2>3
  <1>2. [Leaves => Reason]_inboxVars =>
          [Inbox!Highlighted(screen') # Inbox!Highlighted(screen) =>
             moved \/ Inbox!Highlighted(screen) \notin Inbox!Range(screen'.rows)]_Inbox!inboxVars
    BY DEF inboxVars, Inbox!inboxVars, Inbox!Highlighted
  <1> HIDE DEF Leaves, Reason
  <1> QED BY <1>1, <1>2, InitSelection, NextSelection, PTL
      DEF Spec, HighlightStays, Inbox!HighlightStays
=============================================================================
