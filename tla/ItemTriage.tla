----------------------------- MODULE ItemTriage -----------------------------
(***************************************************************************)
(* One item between its source, the agent and the user: the local_state,   *)
(* the snooze timer and the recommendations of core/projections.js, the    *)
(* attention policy of core/handlers.js, the triage effect of              *)
(* host/effects.js and the user's decisions (cli/index.js, tui/app.js), on *)
(* the daemon's event loop.                                                *)
(*                                                                         *)
(* A triage effect, its agent turn and the recommendation that comes of it *)
(* go by the name of the event that asked for them.  A version of the item *)
(* stands for activity_at and the fingerprint of the source's objects;     *)
(* versions only grow.  What an approval executes is Approval's business:  *)
(* here it is approved once and settles once.                              *)
(***************************************************************************)
EXTENDS Integers, Sequences, FiniteSets

CONSTANTS
  LastVersion,  \* bound on the activity of the source
  Surfacing,    \* versions whose attention says should_surface
  Command,      \* the user's commands about the item (a bound on them)
  Moves,        \* what the user and the source do besides new activity
  None,
  SnoozeFor,    \* time from a snooze to its end
  MaxAttempts, RetryAfter, MaxConcurrency,  \* see EventLoop
  MaxTroubles   \* bound on failing transactions (a locked database), failing
                \* agent turns and daemon deaths, together

Version == 1..LastVersion

-----------------------------------------------------------------------------
(* Events and effects                                                      *)

Source(v) == [type |-> "source", version |-> v]
Closed == [type |-> "item.closed"]
Wake(c) == [type |-> "snooze_expired", command |-> c]
Reset(c) == [type |-> "reset_for_rerun", command |-> c]

Asking ==  \* the events that may ask for a triage
  {Source(v) : v \in Version} \cup UNION {{Wake(c), Reset(c)} : c \in Command}

Decision == {"dismissed", "snoozed", "handled"}

Decided(c, d) == [type |-> "decided", command |-> c, decision |-> d]
RerunCloses(c, x) == [type |-> "recommendation.closed", command |-> c, rec |-> x]

(* activity_at and content_fingerprint; closing an item changes the latter *)
Watermark == [version : 0..LastVersion, open : BOOLEAN]

RecCreated(x) == [type |-> "recommendation.created", rec |-> x]
Approved(x) == [type |-> "approval.created", rec |-> x]
Settled(x, ok) == [type |-> "settled", rec |-> x, ok |-> ok]

UserEvent ==
  UNION { {Reset(c) : c \in Command},
          {Decided(c, d) : c \in Command, d \in Decision},
          {RerunCloses(c, x) : c \in Command, x \in Asking},
          {Approved(x) : x \in Asking} }

ItemEvent ==
  UNION { Asking, UserEvent, {Closed},
          {RecCreated(x) : x \in Asking},
          {Settled(x, ok) : x \in Asking, ok \in BOOLEAN} }

(* dedup_key.  What the source's facts, approvals and settlements are      *)
(* named after is what their keys are made of, so the name alone keeps     *)
(* them apart; two snoozes end at different instants.                      *)
EventKey ==
  [e \in ItemEvent |->
     IF e.type = "snooze_expired" THEN <<"snooze-expired", e.command>> ELSE None]

EventLane ==
  [e \in ItemEvent |->
     IF e \in UserEvent THEN 0
     ELSE IF e.type \in {"source", "item.closed", "snooze_expired"} THEN 2 ELSE 1]

EventHold == [e \in ItemEvent |-> IF e.type = "snooze_expired" THEN SnoozeFor ELSE 0]

-----------------------------------------------------------------------------

VARIABLES
  log, queue, pendingEffects, inFlight, pc,  \* see EventLoop
  item,      \* items table: local, seen (the watermark), until (a snooze)
  recs,      \* recommendations table: status per asking event
  mark,      \* the watermark a triage read when it started, and its
             \* recommendation carries; None: it has not, or found no new item
  emitted,   \* the source: the latest version a sync has emitted
  rerun,     \* rerun commands that have closed and are still to reset
  failures, faults, crashes  \* history

(* An effect is named after its event.  Depth stays far below the budget.  *)
INSTANCE EventLoop WITH
  Event <- ItemEvent, Effect <- Asking, NoKey <- None, Key <- EventKey,
  Lane <- EventLane, Depth <- [e \in ItemEvent |-> 0], Hold <- EventHold,
  MaxDepth <- 32

ASSUME TriageAssumption ==
  /\ LoopAssumption
  /\ Moves \subseteq Decision \cup {"rerun", "approve", "close"}
  /\ LastVersion \in Nat /\ Surfacing \subseteq Version
  /\ SnoozeFor \in Nat
  /\ MaxTroubles \in Nat

tables == <<item, recs>>
outside == <<emitted, rerun>>
history == <<failures, faults, crashes>>
vars == <<log, queue, pendingEffects, inFlight, pc, tables, mark, outside, history>>

Live(x) == recs[x] = "live"

Exists == item.local # "absent"

Seen(v) == [version |-> v, open |-> TRUE]

-----------------------------------------------------------------------------
(* The source and the user: other processes, at any time.  Commands need   *)
(* the item; each command name is used once.                               *)

Unused(c) ==
  \A e \in log : e.type \in {"reset_for_rerun", "decided", "recommendation.closed"}
                  => e.command # c

(* Syncs are a poll or a command apart and go over the network: what one   *)
(* reported has been folded, or has failed, before the next reports.       *)
SyncReports ==
  /\ pc = "idle"
  /\ \A v \in Version : ~ Due(Source(v))
  /\ ~ Due(Closed)

(* New activity, or the item is gone.                                      *)
Report(v) ==
  /\ SyncReports
  /\ v = emitted + 1
  /\ Enqueue({Source(v)})
  /\ emitted' = v
  /\ UNCHANGED <<pendingEffects, inFlight, pc, tables, mark, rerun, history>>

ReportClosed ==
  /\ "close" \in Moves
  /\ SyncReports
  /\ emitted > 0
  /\ Enqueue({Closed})
  /\ UNCHANGED <<pendingEffects, inFlight, pc, tables, mark, outside, history>>

(* dismiss, snooze, mark-handled.                                          *)
Decide(c, d) ==
  /\ d \in Moves
  /\ Exists /\ Unused(c)
  /\ Enqueue({Decided(c, d)})
  /\ UNCHANGED <<pendingEffects, inFlight, pc, tables, mark, outside, history>>

(* triage of a new item, or rerun of one that has no live recommendation.  *)
AskAgain(c) ==
  /\ "rerun" \in Moves
  /\ Exists /\ Unused(c)
  /\ item.local = "new" \/ \A x \in Asking : ~ Live(x)
  /\ Enqueue({Reset(c)})
  /\ UNCHANGED <<pendingEffects, inFlight, pc, tables, mark, outside, history>>

(* rerun: close the live recommendation ...                                *)
Rerun(c, x) ==
  /\ "rerun" \in Moves
  /\ Exists /\ Unused(c)
  /\ Live(x)
  /\ Enqueue({RerunCloses(c, x)})
  /\ rerun' = rerun \cup {c}
  /\ UNCHANGED <<pendingEffects, inFlight, pc, tables, mark, emitted, history>>

(* ... and reset the item, in an enqueue of its own.                       *)
RerunResets(c) ==
  /\ c \in rerun
  /\ Enqueue({Reset(c)})
  /\ rerun' = rerun \ {c}
  /\ UNCHANGED <<pendingEffects, inFlight, pc, tables, mark, emitted, history>>

Approve(x) ==
  /\ "approve" \in Moves
  /\ Live(x)
  /\ Enqueue({Approved(x)})
  /\ UNCHANGED <<pendingEffects, inFlight, pc, tables, mark, outside, history>>

(* The approved work ends (checkComplete, maybeSettle: see Approval).      *)
WorkEnds(x, ok) ==
  /\ pc # "down"
  /\ Approved(x) \in log /\ queue[Approved(x)] = NoRow
  /\ Settled(x, ~ ok) \notin log
  /\ Enqueue({Settled(x, ok)})
  /\ UNCHANGED <<pendingEffects, inFlight, pc, tables, mark, outside, history>>

-----------------------------------------------------------------------------
(* Handler chains, each in its commit                                      *)

AttentionPolicyOnce(local, surfaces, e) ==  \* mutant: one triage at a time
  IF local = "new" /\ surfaces /\ inFlight = {} THEN <<e>> ELSE <<>>

AttentionPolicy(local, surfaces, e) ==
  IF local = "new" /\ surfaces THEN <<e>> ELSE <<>>

(* upsertItem: created and updated both end in new.                        *)
FoldSource(v) ==
  /\ NextDue(Source(v))
  /\ Commit(Source(v), {}, AttentionPolicy("new", v \in Surfacing, Source(v)))
  /\ item' = [item EXCEPT !.local = "new", !.seen = Seen(v)]
  /\ UNCHANGED <<recs, mark, outside, history>>

(* Keeps the local_state of an item it knows.                              *)
FoldClosed ==
  /\ NextDue(Closed)
  /\ Commit(Closed, {}, <<>>)
  /\ item' = [item EXCEPT !.local = IF Exists THEN @ ELSE "handled",
                          !.seen.open = FALSE]
  /\ UNCHANGED <<recs, mark, outside, history>>

(* scheduleSnooze emits the wake-up; nothing ever cancels it.              *)
FoldDecided(c, d) ==
  /\ NextDue(Decided(c, d))
  /\ Commit(Decided(c, d), IF d = "snoozed" THEN {Wake(c)} ELSE {}, <<>>)
  /\ item' = [item EXCEPT !.local = d, !.until = IF d = "snoozed" THEN c ELSE @]
  /\ UNCHANGED <<recs, mark, outside, history>>

WakeClearsOnly(c) ==  \* mutant: clears the end of the snooze, not the state
  /\ NextDue(Wake(c))
  /\ Commit(Wake(c), {}, <<>>)
  /\ item' = [item EXCEPT !.until = None]
  /\ UNCHANGED <<recs, mark, outside, history>>

FoldWake(c) ==
  /\ NextDue(Wake(c))
  /\ Commit(Wake(c), {}, AttentionPolicy("new", TRUE, Wake(c)))
  /\ item' = [item EXCEPT !.local = "new", !.until = None]
  /\ UNCHANGED <<recs, mark, outside, history>>

FoldReset(c) ==
  /\ NextDue(Reset(c))
  /\ Commit(Reset(c), {}, AttentionPolicy("new", TRUE, Reset(c)))
  /\ item' = [item EXCEPT !.local = "new"]
  /\ UNCHANGED <<recs, mark, outside, history>>

Supersede(xs) ==
  [x \in Asking |-> IF x \in xs /\ Live(x)
                      THEN "superseded" ELSE recs[x]]

(* closeRecommendation.                                                    *)
FoldRerunCloses(c, x) ==
  /\ NextDue(RerunCloses(c, x))
  /\ Commit(RerunCloses(c, x), {}, <<>>)
  /\ recs' = Supersede({x})
  /\ UNCHANGED <<item, mark, outside, history>>

InsertBesideOthers(x) ==  \* mutant: earlier recommendations stay live
  [recs EXCEPT ![x] = IF mark[x] = item.seen THEN "live" ELSE "superseded"]

(* A recommendation for another watermark is recorded as superseded; one   *)
(* for the current watermark supersedes all others.                        *)
Insert(x) ==
  IF mark[x] = item.seen
    THEN [Supersede(Asking) EXCEPT ![x] = "live"]
    ELSE [recs EXCEPT ![x] = "superseded"]

Overridable == {"new", "snoozed", "action_error"}

LocalAfterAny(x) ==  \* mutant: a stale recommendation is shown as well
  IF item.local \in Overridable THEN "recommended" ELSE item.local

LocalAfter(x) ==
  IF mark[x] = item.seen /\ item.local \in Overridable
    THEN "recommended" ELSE item.local

FoldRecCreated(x) ==
  /\ NextDue(RecCreated(x))
  /\ Commit(RecCreated(x), {}, <<>>)
  /\ recs' = Insert(x)
  /\ item' = [item EXCEPT !.local = LocalAfter(x)]
  /\ UNCHANGED <<mark, outside, history>>

FoldApproved(x) ==
  /\ NextDue(Approved(x))
  /\ Commit(Approved(x), {}, <<>>)
  /\ recs' = Supersede({x})
  /\ item' = [item EXCEPT !.local = "approved_pending"]
  /\ UNCHANGED <<mark, outside, history>>

(* upsertItem with the local_state of settleItem.                          *)
FoldSettled(x, ok) ==
  /\ NextDue(Settled(x, ok))
  /\ Commit(Settled(x, ok), {}, <<>>)
  /\ item' = [item EXCEPT !.local = IF ok THEN "handled" ELSE "action_error"]
  /\ UNCHANGED <<recs, mark, outside, history>>

(* The transaction throws.                                                 *)
Fail(e) ==
  /\ failures + faults + crashes < MaxTroubles
  /\ NextDue(e)
  /\ RecordFailure(e)
  /\ faults' = faults + 1
  /\ UNCHANGED <<tables, mark, outside, failures, crashes>>

-----------------------------------------------------------------------------
(* The triage effect: it reads the item when it starts, and goes to the    *)
(* agent only if the item is new then.                                     *)

Snapshot == IF item.local = "new" THEN item.seen ELSE None

Launch ==
  mark' = [x \in Asking |-> IF x \in inFlight' \ inFlight THEN Snapshot ELSE mark[x]]

Recommends(x) ==
  /\ mark[x] # None
  /\ EffectReturns(x, RecCreated(x))
  /\ Launch
  /\ UNCHANGED <<tables, outside, history>>

TurnFails(x) ==
  /\ mark[x] # None
  /\ failures + faults + crashes < MaxTroubles
  /\ EffectSettles(x)
  /\ Launch
  /\ failures' = failures + 1
  /\ UNCHANGED <<tables, outside, faults, crashes>>

(* The item was no longer new.                                             *)
TurnIsMoot(x) ==
  /\ mark[x] = None
  /\ EffectSettles(x)
  /\ Launch
  /\ UNCHANGED <<tables, outside, history>>

-----------------------------------------------------------------------------
(* The daemon                                                              *)

Begin == BeginBatch /\ UNCHANGED <<tables, mark, outside, history>>
Finish == EndBatch /\ Launch /\ UNCHANGED <<tables, outside, history>>
Pass == Tick /\ UNCHANGED <<tables, mark, outside, history>>
Recover == Restart /\ UNCHANGED <<tables, mark, outside, history>>

Crash ==
  /\ failures + faults + crashes < MaxTroubles
  /\ Halt
  /\ crashes' = crashes + 1
  /\ UNCHANGED <<log, queue, tables, mark, outside, failures, faults>>

Init ==
  /\ LoopInit
  /\ item = [local |-> "absent", seen |-> [version |-> 0, open |-> TRUE], until |-> None]
  /\ recs = [x \in Asking |-> "none"]
  /\ mark = [x \in Asking |-> None]
  /\ emitted = 0
  /\ rerun = {}
  /\ failures = 0 /\ faults = 0 /\ crashes = 0

Fold ==
  \/ \E v \in Version : FoldSource(v)
  \/ FoldClosed
  \/ \E c \in Command, d \in Decision : FoldDecided(c, d)
  \/ \E c \in Command : FoldWake(c) \/ FoldReset(c)
  \/ \E c \in Command, x \in Asking : FoldRerunCloses(c, x)
  \/ \E x \in Asking : FoldRecCreated(x) \/ FoldApproved(x)
  \/ \E x \in Asking, ok \in BOOLEAN : FoldSettled(x, ok)

Returns(x) == TurnIsMoot(x) \/ Recommends(x)

Next ==
  \/ \E v \in Version : Report(v)
  \/ ReportClosed
  \/ \E c \in Command, d \in Decision : Decide(c, d)
  \/ \E c \in Command : AskAgain(c) \/ RerunResets(c)
  \/ \E c \in Command, x \in Asking : Rerun(c, x)
  \/ \E x \in Asking : Approve(x) \/ Returns(x) \/ TurnFails(x)
  \/ \E x \in Asking, ok \in BOOLEAN : WorkEnds(x, ok)
  \/ Fold
  \/ \E e \in ItemEvent : Fail(e)
  \/ Begin \/ Finish \/ Pass \/ Crash \/ Recover

(* The loop turns, time passes, the daemon is started again.  That an      *)
(* agent turn ends is assumed of the agent, for the host sets it no limit. *)
(* Nothing is assumed of the source and the user, not even that rerun gets *)
(* to its second enqueue.                                                  *)
Fairness ==
  /\ WF_vars(Begin) /\ WF_vars(Finish) /\ WF_vars(Pass) /\ WF_vars(Recover)
  /\ WF_vars(Fold)
  /\ \A x \in Asking : WF_vars(Returns(x) \/ TurnFails(x))

Spec == Init /\ [][Next]_vars

FairSpec == Spec /\ Fairness

-----------------------------------------------------------------------------
(* Properties                                                              *)

(* "One live recommendation per item" (projections.js:215), however many   *)
(* turns of it are in flight and in whatever order they answer.            *)
OneLiveRec == \A x, y \in Asking : Live(x) /\ Live(y) => x = y

(* An item shown as recommended has a live recommendation, made for the    *)
(* activity the item shows: attentionPolicy, the staleness check and the   *)
(* supersession of insertRecommendation together.  Two exceptions: a rerun *)
(* has closed it and has not reset the item yet, and a closed item keeps   *)
(* what it had.                                                            *)
RerunHalfway ==
  \E c \in Command, x \in Asking :
    /\ RerunCloses(c, x) \in log
    /\ Reset(c) \notin log \/ queue[Reset(c)] # NoRow

RecommendedHasCurrentRec ==
  item.local = "recommended" /\ item.seen.open /\ ~ RerunHalfway =>
    \E x \in Asking : Live(x) /\ mark[x] = item.seen

(* New activity that should surface does not stay untriaged: whatever      *)
(* overtakes the turn that is to answer it asks for another                *)
(* (attentionPolicy and the staleness check).  For runs without troubles:  *)
(* nobody asks again after a turn that failed or died with the daemon.     *)
AwaitsTriage ==
  item.local = "new" /\ item.seen.open /\ item.seen.version \in Surfacing

NewIsTriaged == AwaitsTriage ~> ~ AwaitsTriage

(* A snooze ends, also over restarts: its timer is a queue row of its own  *)
(* (scheduleSnooze: "re-surface the item when the snooze elapses"), which   *)
(* only a parked event can lose.                                           *)
SnoozeEnds ==
  (item.local = "snoozed") ~> (item.local # "snoozed" \/ \E c \in Command : Dead(Wake(c)))
=============================================================================
