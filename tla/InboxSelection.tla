--------------------------- MODULE InboxSelection ---------------------------
(***************************************************************************)
(* The interactive inbox (InboxApp in tui/app.js): a list that is read     *)
(* anew for every frame while the daemon reorders it, a highlight anchored *)
(* to a recommendation, an option chosen with the number keys, and the     *)
(* keys that enqueue a decision.                                           *)
(*                                                                         *)
(* A frame is what is on the screen.  The key handler is a closure over a  *)
(* frame; React installs the one of a new frame, and runs the effect that  *)
(* resets the option, some time after the frame has been drawn, but before *)
(* it draws the next.  Scrolling, notices and layout are left out.         *)
(***************************************************************************)
EXTENDS Integers, Sequences, FiniteSets, SequencesExt

CONSTANTS
  Rec,         \* the recommendations that may be listed
  LastOption,  \* options are numbered from 0, the recommended one
  Nobody,      \* no recommendation: null
  MaxKeys,     \* bound on keys pressed
  MaxChanges   \* bound on changes of the listing and of the daemon

Option == 0..LastOption
Lists == UNION {{s \in [1..n -> Rec] : IsInjective(s)} : n \in 0..Cardinality(Rec)}
Frame == [rows : Lists, at : Nat, option : Option]

Approved(r, o) == [what |-> "approved", rec |-> r, option |-> o]
Decided(r) == [what |-> "decided", rec |-> r, option |-> 0]

VARIABLES
  inbox,      \* what listInbox answers now
  served,     \* daemonPid(): there is a daemon
  log,        \* the decisions in the event log
  view,       \* "inbox", "info" or "left"
  anchor,     \* selectedRecId
  lastIndex,  \* lastSelectedIndexRef
  option,     \* selectedOption
  optionOf,   \* selectedOptionRecommendationId
  resetFor,   \* previousRecommendationId
  screen,     \* the frame drawn last
  hands,      \* the frame the key handler was made for
  moved,      \* history: an arrow was pressed since the last frame
  picked,     \* history: the options picked for the row highlighted
  before,     \* history: what the frame before showed, until the effects have run
  meant,      \* history: what the screen highlighted at each approval, and the
              \* frame before it where its effects were still to run
  keys, changes

inboxVars == <<inbox, served, log, view, anchor, lastIndex, option, optionOf,
  resetFor, screen, hands, moved, picked, before, meant, keys, changes>>

Highlighted(f) == IF f.at \in DOMAIN f.rows THEN f.rows[f.at] ELSE Nobody

Shown(f) == <<Highlighted(f), f.option>>

(* The first frame anchors itself: state and refs start from its first row. *)
Init ==
  /\ inbox \in Lists
  /\ served = TRUE
  /\ screen = [rows |-> inbox, at |-> 1, option |-> 0]
  /\ hands = screen
  /\ anchor = Highlighted(screen) /\ optionOf = anchor /\ resetFor = anchor
  /\ lastIndex = 1 /\ option = 0
  /\ log = {} /\ view = "inbox"
  /\ moved = FALSE /\ picked = {} /\ before = Shown(screen) /\ meant = {}
  /\ keys = 0 /\ changes = 0

-----------------------------------------------------------------------------
(* The daemon: folding events adds, removes and reorders rows.             *)

ListChanges ==
  /\ changes < MaxChanges
  /\ changes' = changes + 1
  /\ inbox' \in Lists \ {inbox}
  /\ UNCHANGED <<served, log, view, anchor, lastIndex, option, optionOf, resetFor,
                 screen, hands, moved, picked, before, meant, keys>>

DaemonComesOrGoes ==
  /\ changes < MaxChanges
  /\ changes' = changes + 1
  /\ served' = ~ served
  /\ UNCHANGED <<inbox, log, view, anchor, lastIndex, option, optionOf, resetFor,
                 screen, hands, moved, picked, before, meant, keys>>

-----------------------------------------------------------------------------
(* Drawing                                                                 *)

Position(rec) == CHOOSE i \in DOMAIN inbox : inbox[i] = rec

IndexedRow ==  \* mutant: the highlight is a position in the list
  Max({1, Min({lastIndex, Len(inbox)})})

(* The anchored row, wherever it is now; when it has left the list, the    *)
(* row that has taken its position.                                        *)
SelectedRow ==
  IF anchor \in Range(inbox) THEN Position(anchor)
  ELSE Max({1, Min({lastIndex, Len(inbox)})})

WhateverOption(rec) == option  \* mutant: the choice is not tied to a recommendation

(* effectiveSelectedOption: a choice made for another row does not count,  *)
(* even where its reset has not run yet.                                   *)
EffectiveOption(rec) == IF optionOf = rec THEN option ELSE 0

(* The poll's and the keys' re-render, with the re-anchoring in it.        *)
Draw ==
  /\ view # "left" /\ hands = screen
  /\ screen' = [rows |-> inbox, at |-> SelectedRow, option |->
       EffectiveOption(IF SelectedRow <= Len(inbox) THEN inbox[SelectedRow] ELSE Nobody)]
  /\ screen' # screen
  /\ anchor' = Highlighted(screen')
  /\ lastIndex' = SelectedRow
  /\ before' = Shown(screen)
  /\ moved' = FALSE
  /\ picked' = IF Highlighted(screen') = Highlighted(screen) THEN picked ELSE {}
  /\ UNCHANGED <<inbox, served, log, view, option, optionOf, resetFor, hands, meant,
                 keys, changes>>

(* useEffect on currentRecommendationId, and useInput's on the handler.    *)
EffectsRun ==
  /\ hands # screen
  /\ hands' = screen
  /\ before' = Shown(screen)
  /\ resetFor' = Highlighted(screen)
  /\ option' = IF resetFor # Highlighted(screen) THEN 0 ELSE option
  /\ UNCHANGED <<inbox, served, log, view, anchor, lastIndex, optionOf, screen,
                 moved, picked, meant, keys, changes>>

-----------------------------------------------------------------------------
(* Keys: the handler of the frame `hands'                                  *)

Press(in) == view = in /\ keys < MaxKeys /\ keys' = keys + 1

Arrow(step) ==
  LET at == Max({1, Min({hands.at + step, Len(hands.rows)})}) IN
  /\ Press("inbox")
  /\ anchor' = Highlighted([hands EXCEPT !.at = at])
  /\ optionOf' = Nobody
  /\ option' = 0
  /\ moved' = TRUE
  /\ UNCHANGED <<inbox, served, log, view, lastIndex, resetFor, screen, hands,
                 picked, before, meant, changes>>

(* Number keys select, clamped to the options there are.                   *)
Digit(n) ==
  /\ Press("inbox")
  /\ Highlighted(hands) # Nobody
  /\ optionOf' = Highlighted(hands)
  /\ option' = Min({n, LastOption})
  /\ picked' = IF Highlighted(hands) = Highlighted(screen) THEN picked \cup {option'} ELSE picked
  /\ UNCHANGED <<inbox, served, log, view, anchor, lastIndex, resetFor, screen,
                 hands, moved, before, meant, changes>>

(* What the user saw when `a' brought an approval into the log: what the   *)
(* screen highlighted; between the drawing of a frame and its effects,     *)
(* what the frame before it did as well.                                   *)
NoteApproval ==
  meant' = IF log' = log THEN meant
           ELSE meant \cup {Shown(screen)} \cup (IF hands # screen THEN {before} ELSE {})

ApproveAsListed ==  \* mutant: the key looks the row up in the list as it is now
  /\ Press("inbox")
  /\ LET rec == Highlighted([hands EXCEPT !.rows = inbox]) IN
     /\ rec # Nobody
     /\ log' = IF served /\ \A e \in log : e.what = "approved" => e.rec # rec
               THEN log \cup {Approved(rec, hands.option)} ELSE log
     /\ NoteApproval
  /\ UNCHANGED <<inbox, served, view, anchor, lastIndex, option, optionOf, resetFor,
                 screen, hands, moved, picked, before, changes>>

(* `a': refused without a daemon; the key of the event is the              *)
(* recommendation, so that a second approval of it is a duplicate.         *)
Approve ==
  /\ Press("inbox")
  /\ LET rec == Highlighted(hands) IN
     /\ rec # Nobody
     /\ log' = IF served /\ \A e \in log : e.what = "approved" => e.rec # rec
               THEN log \cup {Approved(rec, hands.option)} ELSE log
     /\ NoteApproval
  /\ UNCHANGED <<inbox, served, view, anchor, lastIndex, option, optionOf, resetFor,
                 screen, hands, moved, picked, before, changes>>

(* `d' and `s', which differ in the state they ask for                      *)
Decide ==
  /\ Press("inbox")
  /\ Highlighted(hands) # Nobody
  /\ log' = IF served THEN log \cup {Decided(Highlighted(hands))} ELSE log
  /\ UNCHANGED <<inbox, served, view, anchor, lastIndex, option, optionOf, resetFor,
                 screen, hands, moved, picked, before, meant, changes>>

(* The info screen swallows every key but `i' and escape, and `q'.         *)
Switch ==
  /\ \/ Press("inbox") /\ view' \in {"info", "left"}
     \/ Press("info") /\ view' \in {"inbox", "left"}
  /\ UNCHANGED <<inbox, served, log, anchor, lastIndex, option, optionOf, resetFor,
                 screen, hands, moved, picked, before, meant, changes>>

Step ==
  \/ ListChanges \/ Draw \/ EffectsRun
  \/ \E step \in {-1, 1} : Arrow(step)
  \/ \E n \in Option : Digit(n)
  \/ Approve \/ Decide \/ Switch

-----------------------------------------------------------------------------
(* Properties                                                              *)

(* "Selection is anchored to a recommendation id, not a list position":    *)
(* however the list is reordered, the highlight changes only by an arrow   *)
(* or because its row has gone.                                            *)
HighlightStays ==
  [][Highlighted(screen') # Highlighted(screen) =>
       moved \/ Highlighted(screen) \notin Range(screen'.rows)]_inboxVars

(* Any option but the recommended one has been picked for the row it is    *)
(* highlighted on: a choice never passes from one recommendation to        *)
(* another, in the frames before its reset included.                       *)
ChoiceStaysWithItsRow == screen.option # 0 => screen.option \in picked
=============================================================================
