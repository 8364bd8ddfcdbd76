-------------------------------- MODULE Sync --------------------------------
(***************************************************************************)
(* Source synchronisation of one plugin, seen through one of its items:    *)
(* the scheduler (core/scheduler.js, scheduleSync in cli/index.js), the    *)
(* sync effect (host/effects.js), the plugin's diff against the baseline   *)
(* it is handed (diff in both plugins), the permanent dedup keys           *)
(* (host/plugin.js) and the item's projection.                             *)
(*                                                                         *)
(* The events of syncs travel in the background lane, first in first out;  *)
(* what a failing transaction does to that order is EventQueue's matter    *)
(* and what triage makes of an item is ItemTriage's.                       *)
(***************************************************************************)
EXTENDS Integers, Sequences, FiniteSets, Backoff

CONSTANTS
  Slots,        \* bound on the syncs of the plugin under way at once
  Absent,       \* nothing: not listed by the source, or not in the baseline
  Content,        \* Seq of fingerprints: what the source shows, version by version
  Base, Cap,    \* SYNC_BACKOFF_BASE_MS and SYNC_BACKOFF_CAP_MS
  Hints,        \* retry_after_seconds a failing source may give, -1 for none
  MaxFailures,  \* bound on syncs that fail
  MaxCrashes,   \* bound on daemon deaths
  MaxResets     \* bound on re-installations of the plugin

Slot == 1..Slots

Version == 1..Len(Content)

Fingerprint == {Content[v] : v \in Version} \ {Absent}

ASSUME SyncAssumption ==
  /\ Slots \in Nat \ {0}
  /\ Len(Content) > 0
  /\ "closed" \notin Fingerprint
  /\ Base \in Nat \ {0} /\ Cap \in Nat \ {0} /\ Hints \subseteq Int
  /\ MaxFailures \in Nat /\ MaxCrashes \in Nat /\ MaxResets \in Nat

(* An event is its dedup key: lifecycle and fingerprint (the plugin and    *)
(* the external id being those of the one item).                           *)
Created(f) == [lifecycle |-> "created", print |-> f]
Updated(f) == [lifecycle |-> "updated", print |-> f]
Closed == [lifecycle |-> "closed", print |-> "closed"]

VARIABLES
  source,    \* the version the source is at
  baseline,  \* plugins.fingerprints_json, the item's entry
  status,    \* plugins.status: "active" or "failed" (the three of them)
  failures,  \* plugins.consecutive_failures
  retryIn,   \* plugins.next_retry_at - now
  syncs,     \* [Slot -> sync effects]: phase, what they read, what they were told
  log,       \* events table, by dedup key
  queue,     \* queue table, the background lane
  shown,     \* items table: the fingerprint shown, "closed", or "none"
  faults, crashes, resets,  \* history
  overlapped,  \* history: two syncs were under way at once
  forgot       \* history: the baseline once missed what had been reported

plugin == <<baseline, status, failures, retryIn>>
history == <<faults, crashes, resets, overlapped, forgot>>
vars == <<source, plugin, syncs, log, queue, shown, history>>

Idle == [phase |-> "idle", prior |-> Absent, answer |-> Absent]

Busy(s) == syncs[s].phase # "idle"

-----------------------------------------------------------------------------
(* Scheduling                                                              *)

DueForSyncActiveOnly ==  \* mutant: a failed plugin leaves the rotation
  status = "active"

(* selectPluginsDueForSync.                                                *)
DueForSync == status = "active" \/ retryIn <= 0

(* scheduleSync, at start, at every poll and when a command nudges the     *)
(* daemon; the effect reads the baseline before it asks the plugin.  That  *)
(* one is under way does not matter; slots are taken in order.             *)
Launch(s) ==
  /\ DueForSync
  /\ ~ Busy(s) /\ \A t \in Slot : t < s => Busy(t)
  /\ syncs' = [syncs EXCEPT ![s] = [phase |-> "asking", prior |-> baseline, answer |-> Absent]]
  /\ overlapped' = (overlapped \/ \E t \in Slot : Busy(t))
  /\ UNCHANGED <<source, plugin, log, queue, shown, faults, crashes, resets, forgot>>

(* The plugin lists its source.                                            *)
PluginReads(s) ==
  /\ syncs[s].phase = "asking"
  /\ syncs' = [syncs EXCEPT ![s].phase = "answering", ![s].answer = Content[source]]
  /\ UNCHANGED <<source, plugin, log, queue, shown, history>>

-----------------------------------------------------------------------------
(* The answer                                                              *)

(* diff.                                                                   *)
Diff(prior, live) ==
  IF prior = live THEN {}
  ELSE IF prior = Absent THEN {Created(live)}
  ELSE IF live = Absent THEN {Closed}
  ELSE {Updated(live)}

(* pluginEventToCoreEvent and enqueue: a key seen before is turned away.   *)
Enqueue(events) ==
  /\ log' = log \cup events
  /\ queue' = IF events \subseteq log THEN queue ELSE Append(queue, CHOOSE e \in events : TRUE)

SyncReturnsRowFirst(s) ==  \* mutant: the baseline is written even if no event gets out
  /\ syncs[s].phase = "answering"
  /\ baseline' = syncs[s].answer
  /\ status' = "active" /\ failures' = 0 /\ retryIn' = 0
  /\ \/ Enqueue(Diff(syncs[s].prior, syncs[s].answer))
     \/ UNCHANGED <<log, queue>>
  /\ syncs' = [syncs EXCEPT ![s] = Idle]
  /\ UNCHANGED <<source, shown, history>>

(* A complete (or partial, which is taken for complete) answer: the events *)
(* first, then the new baseline, which is what the plugin saw.             *)
SyncReturns(s) ==
  /\ syncs[s].phase = "answering"
  /\ Enqueue(Diff(syncs[s].prior, syncs[s].answer))
  /\ baseline' = syncs[s].answer
  /\ status' = "active" /\ failures' = 0 /\ retryIn' = 0
  /\ syncs' = [syncs EXCEPT ![s] = Idle]
  /\ UNCHANGED <<source, shown, history>>

SyncFailsAdvancing(s) ==  \* mutant: the new baseline is kept, the events are not
  /\ faults < MaxFailures
  /\ syncs[s].phase = "answering"
  /\ baseline' = syncs[s].answer
  /\ status' = "failed"
  /\ failures' = failures + 1 /\ retryIn' = Base
  /\ syncs' = [syncs EXCEPT ![s] = Idle]
  /\ faults' = faults + 1
  /\ UNCHANGED <<source, log, queue, shown, crashes, resets, overlapped, forgot>>

(* rate_limited, permission_denied or error: what the answer says of the   *)
(* source is dropped, and the plugin parked.                               *)
SyncFails(s) ==
  /\ faults < MaxFailures
  /\ Busy(s)
  /\ status' = "failed"
  /\ failures' = failures + 1
  /\ \E h \in Hints : retryIn' = SyncRetryDelay(failures', h, Base, Cap)
  /\ syncs' = [syncs EXCEPT ![s] = Idle]
  /\ faults' = faults + 1
  /\ UNCHANGED <<source, baseline, log, queue, shown, crashes, resets, overlapped, forgot>>

(* The plugin exits with an error or answers what the protocol forbids:    *)
(* the effect throws and leaves no trace.                                  *)
SyncThrows(s) ==
  /\ faults < MaxFailures
  /\ Busy(s)
  /\ syncs' = [syncs EXCEPT ![s] = Idle]
  /\ faults' = faults + 1
  /\ UNCHANGED <<source, plugin, log, queue, shown, crashes, resets, overlapped, forgot>>

-----------------------------------------------------------------------------
(* Deaths, re-installation, the rest                                       *)

Crash ==
  /\ crashes < MaxCrashes
  /\ crashes' = crashes + 1
  /\ syncs' = [s \in Slot |-> Idle]
  /\ UNCHANGED <<source, plugin, log, queue, shown, faults, resets, overlapped, forgot>>

(* The daemon dies after the events and before the baseline.               *)
CrashHalfway(s) ==
  /\ crashes < MaxCrashes
  /\ syncs[s].phase = "answering"
  /\ Diff(syncs[s].prior, syncs[s].answer) # {}
  /\ Enqueue(Diff(syncs[s].prior, syncs[s].answer))
  /\ crashes' = crashes + 1
  /\ forgot' = TRUE
  /\ syncs' = [t \in Slot |-> Idle]
  /\ UNCHANGED <<source, plugin, shown, faults, resets, overlapped>>

(* plugin add, setup and import replace the row, and with it the baseline  *)
(* and the failures.                                                       *)
AddAgain ==
  /\ resets < MaxResets
  /\ resets' = resets + 1
  /\ baseline' = Absent /\ status' = "active" /\ failures' = 0 /\ retryIn' = 0
  /\ forgot' = TRUE
  /\ UNCHANGED <<source, syncs, log, queue, shown, faults, crashes, overlapped>>

(* plugin configure makes it active and leaves its failures.               *)
Configure ==
  /\ status = "failed"
  /\ status' = "active"
  /\ UNCHANGED <<source, baseline, failures, retryIn, syncs, log, queue, shown, history>>

SourceMoves ==
  /\ source < Len(Content)
  /\ source' = source + 1
  /\ UNCHANGED <<plugin, syncs, log, queue, shown, history>>

FoldNewest ==  \* mutant: the queue is served from its end
  /\ queue # <<>>
  /\ shown' = queue[Len(queue)].print
  /\ queue' = SubSeq(queue, 1, Len(queue) - 1)
  /\ UNCHANGED <<source, plugin, syncs, log, history>>

(* upsertItem: the item shows what the event says.                         *)
Fold ==
  /\ queue # <<>>
  /\ shown' = Head(queue).print
  /\ queue' = Tail(queue)
  /\ UNCHANGED <<source, plugin, syncs, log, history>>

Pass ==
  /\ retryIn > 0
  /\ retryIn' = retryIn - 1
  /\ UNCHANGED <<source, baseline, status, failures, syncs, log, queue, shown, history>>

Init ==
  /\ source = 1
  /\ baseline = Absent
  /\ status = "active" /\ failures = 0 /\ retryIn = 0
  /\ syncs = [s \in Slot |-> Idle]
  /\ log = {} /\ queue = <<>> /\ shown = "none"
  /\ faults = 0 /\ crashes = 0 /\ resets = 0
  /\ overlapped = FALSE /\ forgot = FALSE

Next ==
  \/ \E s \in Slot : Launch(s) \/ PluginReads(s) \/ SyncReturns(s) \/ SyncFails(s)
                       \/ SyncThrows(s) \/ CrashHalfway(s)
  \/ Crash \/ AddAgain \/ Configure \/ SourceMoves \/ Fold \/ Pass

(* The daemon polls, and is started again if it died; time passes; the     *)
(* loop folds.  That every plugin process ends is assumed of the plugins:  *)
(* the host sets them no time limit.                                       *)
Fairness ==
  /\ WF_vars(\E s \in Slot : Launch(s))
  /\ \A s \in Slot : WF_vars(PluginReads(s)) /\ WF_vars(SyncReturns(s))
  /\ WF_vars(Fold) /\ WF_vars(Pass)

Spec == Init /\ [][Next]_vars

FairSpec == Spec /\ Fairness

-----------------------------------------------------------------------------
(* Properties                                                              *)

(* The baseline never runs ahead of what was reported: whatever syncs      *)
(* overlap, fail or die, a fingerprint in it has its event in the log      *)
(* (effects.js writes it after the events; the requirements ask for it).   *)
BaselineIsReported ==
  baseline # Absent => \E e \in log : e.print = baseline

(* The version that shows a fingerprint, where only one does.              *)
VersionOf(f) ==
  CASE f = "none" -> 0
    [] f = "closed" -> CHOOSE v \in Version : Content[v] = Absent
    [] OTHER -> CHOOSE v \in Version : Content[v] = f

(* The item never goes back to an earlier state of its source, as long as  *)
(* syncs do not overlap.                                                   *)
MovesForward ==
  [][~ overlapped => VersionOf(shown') >= VersionOf(shown)]_vars

(* A state the source stays in gets through, whatever syncs overlapped,    *)
(* failed or died before: it is reported.                                  *)
LastingStateIsReported ==
  \A v \in Version : Content[v] # Absent =>
    (source = v) ~> (source # v \/ \E e \in log : e.print = Content[v])

(* ... and shown, unless syncs overlapped; a disappearance only if the     *)
(* baseline never missed the item.                                         *)
Mirrors(v) ==
  IF Content[v] = Absent THEN shown \in {"none", "closed"} ELSE shown = Content[v]

CatchesUp ==
  \A v \in Version :
    (source = v) ~> (source # v \/ Mirrors(v) \/ overlapped \/ (Content[v] = Absent /\ forgot))

-----------------------------------------------------------------------------
(* What a comment says and the code does not do                            *)

(* "A PR later marked ready (or with fresh activity) reappears as created" *)
(* (the GitHub plugin, of items its filters had dropped).                  *)
Reappears ==
  \A v \in Version : (source = v) ~> (source # v \/ Mirrors(v))
=============================================================================
