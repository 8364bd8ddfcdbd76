---------------------------- MODULE ApprovedWork ----------------------------
(***************************************************************************)
(* From the key to GitHub: the interactive inbox (InboxSelection), the     *)
(* event log between it and the daemon, and the GitHub plugin at work      *)
(* (GithubWork).  Of the daemon's loop, which EventQueue and Approval      *)
(* have, only its promise is left here: an approval is processed once,     *)
(* while there is a daemon, and its option's work is started once.         *)
(***************************************************************************)
EXTENDS Integers, Sequences, FiniteSets

CONSTANTS
  Rec, LastOption, Nobody, MaxKeys, MaxChanges,  \* see InboxSelection
  MaxTroubles,                                   \* see GithubWork
  Mine,   \* the recommendation that is about GithubWork's item
  Cases   \* kinds of item and configuration, with what Mine's options do,
          \* from the recommended one on

VARIABLES
  inbox, served, log, view, anchor, lastIndex, option, optionOf, resetFor,
  screen, hands, moved, picked, before, meant, keys, changes,  \* see InboxSelection
  setup, role, item, done, act, fix, fixRole, branch, edited, remote, pull,
  gate, job, troubles,  \* see GithubWork
  offer    \* what Mine's options do

Inbox == INSTANCE InboxSelection
Work == INSTANCE GithubWork WITH Setups <- {c.setup : c \in Cases}

inboxVars == <<inbox, served, log, view, anchor, lastIndex, option, optionOf,
  resetFor, screen, hands, moved, picked, before, meant, keys, changes>>
workVars == <<setup, role, item, done, act, fix, fixRole, branch, edited, remote,
  pull, gate, job, troubles>>
vars == <<inboxVars, workVars, offer>>

ASSUME ApprovedWorkAssumption ==
  /\ IsFiniteSet(Rec) /\ Mine \in Rec /\ Nobody \notin Rec
  /\ LastOption \in 0..8 /\ MaxKeys \in Nat /\ MaxChanges \in Nat
  /\ MaxTroubles \in Nat
  /\ Cases \subseteq
       [setup : Work!Setup, offer : [0..LastOption -> Work!ActionType \cup {"fix"}]]

Init ==
  /\ Inbox!Init /\ Work!Init
  /\ offer \in {c.offer : c \in {d \in Cases : d.setup = setup}}

(* processApproval, fanOut, dispatchActions and dispatchJob                *)
FanOut ==
  \E o \in 0..LastOption :
    /\ served
    /\ Inbox!Approved(Mine, o) \in log
    /\ IF offer[o] = "fix" THEN Work!StartFix
       ELSE Work!StartAction(offer[o])
    /\ UNCHANGED <<inboxVars, offer>>

(* A daemon that goes takes its effects with it.                           *)
DaemonComesOrGoes ==
  /\ Inbox!DaemonComesOrGoes
  /\ IF served THEN Work!Forgotten ELSE UNCHANGED workVars
  /\ UNCHANGED offer

User == Inbox!Step /\ UNCHANGED <<workVars, offer>>

Plugin ==
  /\ Work!External \/ (served /\ Work!Step)
  /\ UNCHANGED <<inboxVars, offer>>

Next == FanOut \/ DaemonComesOrGoes \/ User \/ Plugin

Spec == Init /\ [][Next]_vars

-----------------------------------------------------------------------------
(* Properties                                                              *)

HighlightStays == Inbox!HighlightStays
ChoiceStaysWithItsRow == Inbox!ChoiceStaysWithItsRow
ReportedFixIsPublished == Work!ReportedFixIsPublished
SubmittedAsConfigured == Work!SubmittedAsConfigured

(* All that is done at GitHub, and every fix that is begun, is the work of *)
(* an option that the screen highlighted when `a' was pressed and brought  *)
(* it into the log, however the list moved, the daemon died and calls      *)
(* failed since (act in tui/app.js).  One case is excepted: between the    *)
(* drawing of a frame and the effect that installs its key handler, the    *)
(* handler is that of the frame before, and the key may approve what that  *)
(* frame showed.                                                           *)
OnlyWhatWasMeant ==
  LET Meant == {offer[o] : o \in {n \in 0..LastOption : <<Mine, n>> \in meant}} IN
  /\ done \cap Work!ActionType \subseteq Meant
  /\ job # "none" => "fix" \in Meant
=============================================================================
