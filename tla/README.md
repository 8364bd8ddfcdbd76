# m87 in TLA+

m87 is a local-first triage queue: plugins report items from GitHub or mail, an
agent recommends what to do about them, the user approves one option, and a
daemon carries it out. Everything is an event: a durable log and queue in SQLite
and one loop that folds each event into tables, emits child events, and starts
asynchronous effects. This directory models that machinery in TLA+, checks it
with TLC on small instances, and proves with TLAPS that its invariants and action
properties hold for every instance.

Paths below are relative to the repository (`src/` is the implementation).

## 1. Inventory

| component | state | operations | hard because |
|---|---|---|---|
| event queue and log (`src/core/queue.js`, `event.js`, `database.js`) | tables `events`, `queue` | enqueue, dequeueDue, commit, recordFailure | writers in several processes, crashes around a commit, retries and the dead letter, permanent dedup keys |
| event loop and effect pool (`src/core/loop.js`) | in memory: `pending` effects, `inFlight`, `running` | processOne, processDueBatch, pumpEffects, makeApi, runForever, drain, settle | synchronous batches between awaits, effects that outlive their event, restart with empty memory |
| approval, actions, jobs (`src/core/handlers.js`, `projections.js`, `src/host/effects.js`, `src/cli/index.js`) | tables `approvals`, `action_results`, `jobs`, `items.local_state` | approve, gateCheck, fanOut, dispatch, checkComplete, maybeSettle, settleItem, action, fix | the human gate, concurrent completions that wait for one another, partial failure |
| items, recommendations, triage (the same files) | `items`, `recommendations`, `agent_runs` | source updates, dismiss, snooze, mark-handled, rerun, triage | timers that fire late, agent results that arrive after the user has moved on |
| source synchronisation (`effects.js` sync, `src/host/plugin.js`, `src/core/scheduler.js`, `plugins/`) | `plugins.fingerprints_json`, `status`, `next_retry_at` | scheduleSync, sync, the plugins' diffs | a baseline read before an await and written after it, keys that never expire, backoff |
| fix jobs and pull-request probes (`effects.js` fix, fixDetect; `schedulePrChecks`) | `jobs.phase`, `next_check_at` | progress, submit, probe, attach | probes that overlap, updates after the close |
| daemon lifecycle (`src/cli/index.js`, `daemon-lifecycle.js`, `upgrade-watch.js`, `src/core/control.js`) | pid file, control socket, upgrade state, login service | start, stop, restart, upgrade drain, install | races between processes, a stop during a drain, recycled process ids |
| retention (`src/core/retention.js`) | policies, cutoffs | sweep, redact, sweep of workspaces | what is swept may still be needed |
| terminal inbox (`src/tui/`) | selection, selected option | keys, reload | the list changes under the selection |
| setup (`src/setup/`) | a plan, configuration on disk | apply | a step that fails half-way |
| GitHub plugin (`plugins/github/`) | `@probe_meta` inside the baseline; none else | sync (listing, activity probe, diff), execute-action, prepare, submit, detect | every call of `gh`, `git` or `no-mistakes` may fail; roles and configuration choose among many ways out |
| agent turns, prompts, logging, queries, formatting | none that outlives a call | | not state machines |

How they interact: commands and the TUI are separate processes that only ever
*enqueue*; the daemon is the only one to *dequeue*. A handler runs inside the
transaction that acknowledges its event, so its table writes and its child
events commit together, and the effects it asks for start after the commit. An
effect talks back by enqueuing. The scheduler starts effects without an event.
The control socket only nudges the daemon (sync, stop, ping).

What makes each correct, in one line: the queue processes effectively once and
never forgets; the loop never wedges and never idles a slot; the gate lets only
approved actions out, once; completions settle an item once, rightly and at the
end; the newest decision about an item wins; a source change is ingested once and
not lost; a job closes once; one daemon runs; retention removes only what nothing
needs; a key acts on what the user saw; a fix leaves by the way the configuration asks
for, and what it has to publish is published when it is reported so.

## 2. Modules

    DurableWork   <- refined by -  EventQueue   - instantiates ->  EventLoop
    ApprovalGate  <- refined by -  Approval     - instantiates ->  EventLoop
    ItemTriage, FixJob            - instantiate ->  EventLoop
    ApprovedWork  - instantiates ->  InboxSelection, GithubWork
    Sync          - extends ->       Backoff
    GithubSource, DaemonLifecycle, Retention      on their own
    MC...                            instances for TLC
    EventLoop_proofs       theorems about the pool and Backoff, used by
                           Approval_proofs, ItemTriage_proofs, FixJob_proofs
    EventQueue_proofs      theorems about EventQueue and Retention
    Sync_proofs            theorems about Sync and GithubSource
    ApprovedWork_proofs, DaemonLifecycle_proofs

**EventLoop** has no behaviour of its own. It holds the five variables every
component on the loop shares (`log` and `queue`, the tables; `pendingEffects`,
`inFlight` and `pc`, the daemon's memory) and the operations on them, one operator
per function: `Enqueue` (enqueue), `NextDue` (dequeueDue), `Commit`,
`RecordFailure`, `Pump` (pumpEffects), `BeginBatch`/`EndBatch` (a pass of
runForever and processDueBatch), `EffectEmits`, `EffectSettles`, `EffectReturns`
(an effect's api and the end of its promise), `Tick`, `Halt` and `Restart`.

* JavaScript's run-to-completion is `pc`. Between `BeginBatch` and `EndBatch`
  (`pc = "batch"`) the daemon does not await, so no effect continues; other
  processes do run, and the daemon may die.
* An event is its row id. What the envelope fixes at construction (dedup key,
  lane, depth, delay) are functions of it.
* A row's `wait` is `available_at - now`, so that the state space is finite;
  `Tick` lets a unit pass. Rows with equal timestamps may be dequeued in either
  order.
* A torn enqueue (`TornEnqueue`) is a process that dies between the two
  statements of `enqueue`, which are a transaction only inside `commit`.

**EventQueue** is the loop under an arbitrary workload: which children, which
effect and which results an event has are constants, and so the module stands
for any set of handlers. `Submit` is a writer, `Fold` and `Fail` the two ends of
processOne, `Post` and `Settle` an effect's doings, `Crash` and `Recover` the
daemon's. History variables count folds, failures and launches.

**DurableWork** is what the queue promises: an accepted fact is finished once,
handing over its children in that very step, or is given up on. The refinement
mapping is `Stage`, from a row and the fold count.

**Approval** puts the handlers of `approval.created`, `action.*`, `job.*` and the
settling `item.updated`, their projections and their effects onto the loop. An
item carries one recommendation here and both have one name. Every event of an
approval follows from the recommendation, so events are small records. The
actions `Execute` and `ReturnAction` separate what happens in the outside world
from the answer about it: a crash may come between. **ApprovalGate** is the human
gate: one grant per recommendation, only actions of the granted option are
performed, each at most once.

**ItemTriage** is one item between its source, the agent and the user: source
updates and the closing, dismiss, snooze, mark-handled, triage, rerun (two
enqueues, `Rerun` and `RerunResets`), approvals and their settlements, the snooze
timer, and agent turns. An effect, its turn and its recommendation are named after
the event that asked for them (`Asking`). A `Watermark` is what
insertRecommendation compares: the source's version (activity and fingerprint) and
whether the item is open (closing changes the fingerprint). `mark` is what the
triage effect read when it started, since an answer is about that and not about
what the item has become. What an approval executes is left to Approval; here it
settles once (`WorkEnds`), at any time.

**FixJob** is the row of one fix job and everybody who writes it: the fix effect
with its progress events, the probes that look for a pull request opened later
(scheduled by `schedulePrChecks`, which claims a probe by pushing `next_check_at`
forward, or asked for by `job attach`), and the settlement. `upsertJob` is `Upsert`. How long a probe
is put off is a constant.

**Sync** is one plugin seen through one of its items: the scheduler, any number of
overlapping syncs (each remembers the baseline it read before its await), the three
failing answers, the throw, the death between the events and the baseline, the diff
of both plugins, the permanent dedup keys (an event *is* its key), re-installation
and configuration, and the item's projection. What the source shows, version by
version, is the constant `Content`.

**GithubSource** is one call of the GitHub plugin's sync against a changing
GitHub: which items it lists (explicit repositories, discovered ones, authored
ones), which fingerprint they get with or without the activity probe, what the
probe carries over between calls, whether they surface, and the diff. A call is
atomic; how calls overlap is Sync's matter.

**GithubWork** is what the plugin does to one item after an approval, one step
per call of `gh`, `git` or `no-mistakes`: `execute-action` with its role gate and
the merge fallback, and prepare, submit and detect of a fix in all modes of
`fix_contrib_push` and `fix_pr_create`, with the effects that call them.
A job is what `upsertJob` makes of its events: a clean tree ends as `pr_opened` here as
it does in the code.

**InboxSelection** is the interactive inbox. `screen` is the frame drawn last and
`hands` the frame whose closure handles the keys; React runs effects and installs
handlers some time after a frame is drawn, and in between a key meets the older
one. The list is read anew for every frame while the daemon reorders it. Two history
variables say what the user saw when `a` was pressed: `meant` what the screen
highlighted when an approval came into the log and, only where the effects of that
frame were still to run, what the frame before it did (`before`). They are taken from
the frames drawn and never from the handler. Ink may write a frame to the terminal up to
its throttle interval later; here a frame is on the screen when it is drawn.

**ApprovedWork** composes the two: from the key to GitHub. Between them it has the
event log and only the promise of the daemon's loop (an approval is processed once
while there is a daemon); a daemon that goes takes its effects with it.

**DaemonLifecycle** is the daemon as a process of one state directory: coming up
(pid file, socket), serving, upgrade detection, drain and handover, stop requests,
crashes, the five commands that find and move it, and launchd or systemd. Processes
know one another only by the pid file, the socket and pids, which dead processes
leave behind and the system gives to strangers (`Recycle`). A command is a
sequence of steps, each of which reads what may have changed since the last. A stop is
one step per call (gracefulStopDaemon): `Find` reads the pid file, `Ask` uses the
control channel, whose answer may come late or never (`AskInVain`: a request that ran
into its time-out has then arrived by that time or does not arrive), and after that
`daemonPidIdentity` has its three answers: a daemon is signalled (`Signal`), a stranger
is forgotten (`Forget`), and a pid that `ps` says nothing of is taken for gone, alive
or not (`TakeForGone`). The history variable `unidentified` marks the one case in which
that matters: an installation or a managed restart then goes on past a live daemon.
`startDetachedDaemon` asks the same question and refuses beside an unknown pid
(`Refuses`).

**Retention** is what is kept of one item's recommendations: prompt contexts,
drafts, action payloads and the same bodies in the event log, under a policy that
changes, swept between any two transactions.

**Backoff** holds the three retry clocks as pure functions.

## 3. Runs

| run | asks | bounds |
|---|---|---|
| `queue` | are commits atomic, is processing effectively once, are attempts bounded over restarts, is the pool bounded and never idle beside a backlog, is every queued event folded or parked, is DurableWork refined | 8 events: two rivals for one key, fan-out, an effect whose result asks for another, a child past the depth budget, poison in the urgent lane, a held timer; 2 attempts, pool of 1, 2 crashes |
| `approval` | is the gate kept and everything executed at most once, do completions meet and settle, on whose word | one recommendation with two options that share an action, an automation, 2 failing transactions, 2 crashes, 2 attempts, pool of 2 |
| `approval_handled` | a sentence of the requirements the code does not keep | the same, nothing fails |
| `triage_safety` | is there one live recommendation, does what is recommended fit what is shown, does a snooze end | two versions, a closing, one command, two turns at once, two troubles among failing transactions, failing turns and crashes |
| `triage_liveness` | is new activity always triaged | two versions, a closing, one command, approvals and settlements, no failure |
| `sync` | is the baseline never ahead, is a lasting state reported and shown, does the item never go back | three versions (appears, changes, goes), two syncs at once, one failure, one death, one re-installation |
| `sync_reappears` | a comment the code does not keep | an item that goes and comes back as it was |
| `github_source` | is the user's own activity quiet, are others heard, does a failing call lose nothing it must not | three items, two happenings, the probe and the draft filter on or off, one failing call |
| `fix_job` | is a job never orphaned, does it keep being probed, is its pull request found | two probes, one attach, one probe that overlooks or fails, one failing transaction, one death |
| `daemon` | one daemon, no stranger signalled, a stop kept, an upgrade picked up | two commands, three processes, one upgrade, one crash, both managers; time-outs and a failing `ps` at any stop |
| `retention` | is what is in use kept, do log and tables agree, is what was stored for a time purged after it | two recommendations, one change of policy, times 0 to 2 |
| `approved_work` | does a key act on what was seen, and is that what is done at GitHub, as configured and, if there was something, truly published when reported | two rows, two options, three keys, the list and the daemon change twice; five combinations of item, role and configuration, one thing going wrong |

Why the bounds are enough: every hazard in the list needs at most two actors that
overlap, one retry, and one thing that goes wrong in between (two where a second
failure could meet what the first left behind: `queue`, `approval` and
`triage_safety`). The pool is smaller than the backlog in `queue` and `approval`.
Two versions suffice for an answer to be stale; three let an item go. Three processes
are a daemon, the one that takes its place or stacks on it, and one more to respawn or to
become a stranger. The commands of `daemon` are numbered as they are given. The five
cases of `approved_work` take every mode of both settings, both kinds of item and
every way a role is found at least once; the proofs about it take all
combinations. `Max...` constants bound counters; `Tick` and `Pass` need no bound
where waits only shrink. Deadlock is not checked: when nothing is to be done and
nobody asks for anything, the system waits.

`Moves` and `Operations` name which kinds of command an instance has, `Command` how
many; both are bounds.

Fairness: the loop turns (`Begin`, `Fold`, `Finish`), time passes, the daemon polls,
ticks and sweeps, and a dead daemon is started again (the login service, or the next
user). That plugin processes and agent turns end is *assumed of them*: the host sets
neither a time limit (only calls of `no-mistakes` have one). Where this matters most
it is not assumed: in DaemonLifecycle effects may be wedged for ever. Nothing is
assumed of users, of sources, of GitHub, of a pull request ever appearing, or of a
rerun reaching its second enqueue. In ItemTriage syncs of one plugin are far enough
apart for the loop to have tried what the earlier one reported (`SyncReports`); how
they overlap is in Sync.

### What the code does not keep

Shown by runs that end in a violation:

* `checkComplete` decides from the actions alone and `maybeSettle` from the job
  alone, so whoever closes last decides: a failed required action or a failed job
  ends in `handled` (`HandledMeansSucceeded`).
* An item that a filter dropped and that comes back as it was stays closed: its
  created event has the permanent key of the first one and is turned away, while
  the baseline moves on (`Reappears`).

Read while translating. The models behave so too, except where the text says that a
thing is left out (`depends_on`, notices, the contents of texts and results, idempotency keys);
where a property would meet one of these, it names it as an exception.

* *Queue.* `enqueue` outside a transaction may leave a logged fact without a queue
  row, whose key then refuses every retry (`queue.js:50`, against `queue.js:32`).
  Effects whose event is acknowledged are lost with the daemon's memory, also at
  the end of an upgrade drain (`src/src/cli/index.js:1544`).
* *Approval.* A sibling whose event backs off has no row yet, so the item settles
  without it and it executes afterwards (`handlers.js:198`). `depends_on` is stored
  and never read. An approved item whose action dies with the daemon stays
  `approved_pending`.
* *Items.* A snooze timer is never cancelled and wakes a dismissed item
  (`handlers.js:42`). A late settlement marks activity handled that came in while
  the work ran (`handlers.js:221`). A failed turn leaves its item `new` until the
  source moves or the user asks. A closed item keeps its local state. A retried
  update puts an item back to older activity. Dismissing leaves the recommendation
  live.
* *Sync.* The older of two overlapping syncs may write its baseline last. A death
  between events and baseline, or `plugin add`, makes the baseline miss what was
  reported, so that a disappearance meanwhile is never reported. `partial` is taken
  for complete, and a rate-limited answer's events are dropped, where the
  requirements would keep them (`src/specs/m87-prd.md:326`). `plugin configure`
  leaves the failures and the retry time.
* *GitHub source.* A probe that fails makes the activity null and moves the
  fingerprint; a user name that cannot be had makes own items look like others'; a
  failing discovery closes the items of discovered repositories; the user's own
  comment wakes a stale item and re-triages it; a reopened item is told again.
* *Fix jobs.* A progress event that is retried past the close or past
  `waiting_for_pr` takes the job out of the rotation for good
  (`projections.js:368`); a late probe answer reopens a closed job, which is closed
  again; a daemon's death leaves a job in preparing, running or submitting for ever.
* *GitHub work.* A fix whose agent changed nothing is closed in the phase `pr_opened`
  (`effects.js:554`), where `specs/fix-job-execution-design.md:102-103` has `no_changes`
  for it and reserves `pr_opened` for an opened pull request; only the type of the event
  tells them apart, which `upsertJob` does not store. `ReportedFixIsPublished` excepts
  it. Under `fix_contrib_push=no-mistakes` a contributor's fix of an own
  pull request is left in the workspace, and the first probe finds the item's own
  pull request and closes the job as `pr_opened` though nothing was pushed
  (`effects.js:524`, `LeftForReview`). A contributor's fix of an issue is prepared on a branch
  without upstream, which a plain `git push` may refuse. A merge is tried by another
  method after any failure, not only a disallowed method. The idempotency key
  of a submission is not used, and commits the agent made itself are not looked for:
  the plugin answers `no_changes` for a clean tree.
* *Inbox.* A second approval of a recommendation is announced as queued though its
  key is refused. A key that comes between the drawing of a frame and its effects is
  handled by the frame before: if the new frame highlights another row or option, the
  key approves what the older one did.
* *Daemon.* "Any running daemon is gracefully stopped first", says installManagedService
  (`daemon-lifecycle.js:254`). When the control channel does not answer in time and `ps`
  says nothing of the pid, gracefulStopDaemon answers `not_running` of a daemon that
  lives (`daemon-lifecycle.js:113`), and one installation or managed restart activates
  another beside it, where `startDetachedDaemon` refuses (`daemon-lifecycle.js:137`).
  `OneDaemon` excepts it by name (`unidentified`). Overlapping starts stack daemons:
  nothing locks the state directory. An impatient second stop exits with a failure and systemd starts the daemon again;
  launchd does so after any exit. A session daemon beside a unit file exits for a
  manager that does not own it. A stop while a successor comes up answers that
  nothing runs. After that answer, of a pid that `ps` says nothing of, the pid file
  stays as it is.
* *Retention.* A queued approval that another supersession overtakes can be fanned
  out from a purged draft; a recommendation event that never folds keeps its draft in
  the log.

## 4. Proofs

`EventQueue_proofs` proves, for every workload, number of attempts, pool size and
number of crashes, under `WorkloadAssumption` only (types; an event has one
author; a child is one level deeper than its cause; no chain emits two events
with one key):

* `TypeCorrect`, `QueueIsEffectivelyOnce`, `CommitsAreAtomic`,
  `AttemptsAreBounded`, `PoolIsWorkConserving`: the invariants of `queue`;
* `QueueIsDurableWork`: every step is a step of DurableWork or a stutter, the
  safety half of the refinement that `queue` checks.

None of the invariants is inductive alone. `IInv` adds to the tables' side that
what is not in the log has left no trace (otherwise a fresh row could belong to an
event that was folded already), that keys in the log are unique, that a fold takes
the row away and that a row carries the number of failures; and to the memory's
side that what is buffered is new and buffered once (without it a launch could be
counted twice, and a full pool could not be told from one that started an effect
twice), and that memory is blank while the daemon is down. The argument goes by
one lemma per kind of table change (`OutsideFact`, `FoldTables`, `FailTables`,
`QuietTables`) and per kind of memory change (`PumpFills`, `PumpMemory`,
`FoldMemory`, `HaltMemory`, `QuietMemory`); `NextIInv` puts one of each together
for every action. `PumpFills` counts: what starts is a bijective image of a prefix
of the backlog and disjoint from what runs.

`EventLoop_proofs` holds what the components on the loop share: `LoopMemory`, that an
effect is in memory once, buffered or running, that the pool is within its limit and
that a backlog is a sequence; that `Pump` preserves it, loses nobody and starts nobody
twice (`PumpMoves`); and what buffering and starting with an empty memory do. It also
proves that no retry delay exceeds its cap and that a zero or negative hint does not
count (`DelaysAreCapped`), for all values. That a delay doubles is by definition; that
`2^n` is positive needs induction, which the provers lack.

`Approval_proofs` proves `OnlyApprovedActionsExecute`, `SettledMeansQuiet`,
`OutcomeHasAGround` and `KeepsTheGate`, the refinement of ApprovalGate, for every set of
recommendations, options and actions (an action may belong to several options), any
pool, and any number of failing transactions, deaths and repeated approvals. Its
`IInv` has three parts:

* `GateInv`: how often an action was executed can only be bounded by what is still in
  memory to execute it, so the invariant says where each effect comes from
  (`OriginInv`: an effect in memory has its folded event, of the approved option, and a
  row in the results) and that each comes once (`OnceInv`: an action is
  executed at most once, an executed action's event was folded, and an effect in memory
  that has not acted belongs to an action not executed). The grant is fixed by the
  permanent key of the approval (`GrantInv`).
* `WorkInv`: an item can only be said to be quiet when the completions are known to
  have been counted, so it ties each action's row to its effect and its events
  (`ActionInv`), the same for the job (`JobInv`), what fans out to the approval that
  does (`FanOutInv`), and each settlement in the log to the side that gave it
  (`OutcomeInv`).
* `SmoothInv`: while no transaction has failed, rows are fresh, the fan-out is folded as
  a whole, and a settled item has nothing under way. A sibling that backs off has no
  row, which is why `SettledMeansQuiet` speaks of runs without a failed transaction.

`ItemTriage_proofs` proves `OneLiveRec` and `RecommendedHasCurrentRec` for any number
of versions, commands, approvals, failing turns, failing transactions and deaths. The
first needs that an effect, its turn and its recommendation come once each (`TurnInv`:
a turn in memory has its fact folded and has not answered, a turn that answered has its
fact folded, and a recommendation exists only once its event was folded).
The second needs the order in which the two enqueues of a rerun are folded
(`RerunInv`: what a rerun closes has been made, and once its reset is folded what is
shown is not what it closes): what makes a recommendation stale is the activity or the closing, both
of which take the item out of `recommended`, or a rerun, whose reset does.

`FixJob_proofs` proves `OpenJobHasACarrier` and `ReopenedOnlyIntoRotation` for any
number of probes, attach commands, failing probes and failing transactions. `CarrierInv`
says that the fix is in memory until its outcome is in the log, and not after; `CauseInv`
what each fact and each probe comes from, without which a second fix, or a probe of a
job that never waited, could not be excluded; `OrderInv` that a progress event on the
queue is due before the outcome, which is what keeps progress from overwriting a close
(and what a retry breaks, hence `strayed`); `RowInv` what the row is once an outcome was
folded.

`DaemonLifecycle_proofs` proves `OneDaemon`, `StopIsKept` and `StrangersAreSpared` for
any number of processes, commands, upgrades and crashes, under both managers. What
makes them inductive is the order a command keeps: one command is under way at a time
(`AloneInv`), the pid file names the daemon there is, whoever a command waits for has
been told to stop, and no daemon comes up while a command waits (`CommandInv`,
`QuietInv`); all of it as long as commands and starts do not overlap (`raced`) and no
live daemon was taken for gone by an installation or a managed restart
(`unidentified`). A stop that is answered `not_running` of a live daemon does no harm to
the others: an unmanaged restart meets `startDetachedDaemon`, which refuses, and a stop
that is not confirmed does not count as one.
`StrangersAreSpared` needs how far each operation can be and that it asks
only a process it found (`PathInv`).

`Sync_proofs` proves `BaselineIsReported` for any sequence of fingerprints and any
number of overlapping syncs, failures, deaths and re-installations
(`NothingIsSkipped`). It is not inductive: a sync whose answer equals the baseline
it read reports nothing and writes the answer, so the baselines that syncs under way
remember must be reported ones too (`PriorsAreReported`). `ItemMovesForward` proves
`MovesForward` for every source each of whose states shows once (`EachStateOnce`; the
property speaks of the version a fingerprint tells). The strengthening, `ForwardInv`,
is that the queue is in the order of the source (`QueueIsInOrder`) and that the one
sync under way has been told nothing older than what is queued or shown
(`AnswersAreNewest`); that there is but one is what `~ overlapped` means.

Two components stand alone, on state of their own, and share a module of theorems with
the one they serve; that is why their specifications have names of their own
(`SourceSpec`, `RetentionSpec`). `Sync_proofs` proves of GithubSource, for any set of
items, probe interval and failing calls: `SelfActivityIsQuiet`, `OwnItemsWaitForOthers` and
`ExplicitItemsAreNotLost`. The first is an action property of two states and needs to
know what a call would find: `QuietInv` says that an item nobody else has touched since
the last probe is listed and that, unless a call has failed, activity and baseline are
those of the last foreign engagement. `EngagedInv` follows attention back to what others
did. `EventQueue_proofs` proves of Retention, for any policy and number of
recommendations: `NeededIsKept` and `LogAndTablesAgree`, by what a row is at each stage
of its life (`RecIsKept`, `ActionIsKept`): a body on the queue is whole in the log, and an
action under way has no completion for its age to count from.

`ApprovedWork_proofs` proves `ReportedFixIsPublished` and `SubmittedAsConfigured` for
every set of configurations, any number of failing calls, and any environment that
starts fixes and actions and lets the daemon die, of which ApprovedWork
is one. The first is about fixes that had something to publish. The strengthening says which way out the fix effect is on and why
(`WayOut`), and what exists at GitHub (`AtGithub`): a pull request stands on a
pushed commit, and a maintainer's fix is on a branch of its own, without which a
detected pull request could be the item's. `WorkIsMeant` proves `OnlyWhatWasMeant`
for the composition: `MeantInv` follows an action from the key to GitHub. The handler
is that of the frame on the screen or of the one before (`HandlerKeepsUp`), hence
nothing is in the log that was not shown when the key was pressed, on the screen or, in
the window the property names, on the frame before; the action and the fix
that run are approved work; what is done is what the running action does. Under it,
the list may move, the role may be restamped and the daemon may die at any point.
`ChoicesStay` and `HighlightsStay` prove the two properties of the inbox for any finite
set of recommendations and any number of keys. `SelectionInv` ties the three things that
lag behind one another: the anchor is the highlighted row unless an arrow was pressed,
the reset has run for the frame the handler belongs to, and an option that counts was
picked for the highlighted row unless handler and screen are about different rows.

Two properties were stated too strongly, and held in the runs only for want of another
step; proving them showed it. `StopIsKept` forgot that launchd may respawn between a
stop and an uninstall, which takes a third command. `OpenJobHasACarrier` forgot that the
outcome of a fix may end as a dead letter, which takes as many failing transactions as
there are attempts. Both now say so.

The assumptions are those the modules name (`...Assumption`): types, a limit of at
least nothing, delays that are integers, an event distinct from no event, and for
EventQueue that events have one author and chains are finite, for GithubSource that the
items are finitely many and that no fingerprint is `Unlisted`.

What is temporal beyond `[]` is only model-checked (`NothingWedges`,
`ApprovedWorkSettles`, `UpgradeIsPickedUp`, `KeepsProbing`, `FoundInTheEnd`,
`PromisesAreKept`, `LastingStateIsReported`, `CatchesUp`, `NewIsTriaged`, `SnoozeEnds`,
`OthersAreHeard`, the fairness half of `KeepsPromise`): liveness under fairness is out of
the prover's reach, as are ENABLED and induction over data. Every invariant and every
action property that a run checks, except the findings, has a theorem.

## 5. Not modelled, and why

* Agent prompts and turns, rendering, logging and queries carry no state. `drain()`
  and `settle()` only wait for the state the loop model has.
* The setup wizard is one process that asks, builds a plan and applies it step by
  step, with nothing beside it; what its steps change is modelled where it lives
  (Sync's `AddAgain`, the commands of DaemonLifecycle). When a step throws, what came
  before stays, and the command is given again.
* The calls of the mail service: the Gmail plugin's diff is the one of Sync, its
  actions are single calls. The mock plugin is a fixture.
* Approval leaves out edited actions (no client sends them) and the content of
  results; a fix job is one wait and one probe there, and whole in FixJob.
  ItemTriage leaves out `item.deleted`, which no plugin emits, the states
  `triaging`, `ignored` and `invalid_recommendation`, which no code sets, and the
  records of agent runs.
* In the inbox: scrolling, notices and the `r` key, which only nudges a sync.
* In DaemonLifecycle: Windows' schtasks, which starts at logon and owns no process,
  and `daemon run --once`. In Retention: the attachment cache, which nothing else
  reads, and that a recommendation has several options.
* Several daemons on one database. Nothing in the queue guards against them;
  `OneDaemon` says when there is one.

## 6. Plan

What is left for proof are the step simulations that remain of liveness: what each
fairness condition of EventQueue contributes to DurableWork's, and that the measures its
temporal properties rest on (an event's attempts, a backlog ahead of an effect) only
fall.

Runs are few and each asks its own question; when a component grows, what it asks
joins an existing run where one instance can serve both.
