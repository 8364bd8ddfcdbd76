----------------------------- MODULE EventQueue -----------------------------
(***************************************************************************)
(* The event loop under an arbitrary workload.  Which children and which   *)
(* effect an event's handler chain yields, and which results that effect   *)
(* may post, are constants, so this is the daemon for any set of handlers: *)
(* command-line writers on one side, one daemon that crashes and restarts  *)
(* on the other.                                                           *)
(***************************************************************************)
EXTENDS Integers, Sequences, FiniteSets

CONSTANTS
  Event, NoKey, Key, Lane, Depth, Hold,
  MaxDepth, MaxAttempts, RetryAfter, MaxConcurrency,
  Roots,      \* events other processes and the scheduler submit
  Children,   \* [Event -> SUBSET Event], emitted by an event's chain
  Launches,   \* events whose chain requests an effect, named after the event
  Results,    \* [Event -> SUBSET Event], what that effect may post
  Poison,     \* events whose chain always throws
  MaxCrashes  \* bound on daemon crashes

VARIABLES
  log, queue, pendingEffects, inFlight, pc,  \* see EventLoop
  folds,     \* history: commits per event
  fails,     \* history: failed attempts per event
  launches,  \* history: starts per effect
  crashes    \* history: daemon crashes so far

INSTANCE EventLoop WITH Effect <- Event

history == <<folds, fails, launches, crashes>>
vars == <<log, queue, pendingEffects, inFlight, pc, history>>

ASSUME WorkloadAssumption ==
  /\ LoopAssumption
  /\ Roots \subseteq Event /\ Launches \subseteq Event /\ Poison \subseteq Event
  /\ Children \in [Event -> SUBSET Event]
  /\ Results \in [Event -> SUBSET Event]
  /\ MaxCrashes \in Nat
  \* ids are minted once: an event has one author
  /\ \A e, f \in Event : e # f =>
       /\ Children[e] \cap Children[f] = {}
       /\ Results[e] \cap Results[f] = {}
  /\ \A e, f \in Event : Children[e] \cap (Results[f] \cup Roots) = {}
  \* childEvent: one deeper than the cause
  /\ \A e \in Event : \A c \in Children[e] \cup Results[e] : Depth[c] = Depth[e] + 1
  \* no chain emits two events under one dedup key
  /\ \A e \in Event : \A c, d \in Children[e] :
       c # d /\ Key[c] # NoKey => Key[c] # Key[d]

-----------------------------------------------------------------------------

(* A command, the TUI or the scheduler enqueues.                           *)
Submit(e) ==
  /\ e \in Roots
  /\ Enqueue({e})
  /\ UNCHANGED <<pendingEffects, inFlight, pc, history>>

(* The submitting process is killed inside enqueue.                        *)
SubmitTorn(e) ==
  /\ e \in Roots
  /\ TornEnqueue(e)
  /\ UNCHANGED <<pendingEffects, inFlight, pc, history>>

(* processOne, when the chain and its transaction succeed.                 *)
Fold(e) ==
  /\ NextDue(e)
  /\ e \notin Poison
  /\ Commit(e, Children[e], IF e \in Launches THEN <<e>> ELSE <<>>)
  /\ folds' = [folds EXCEPT ![e] = @ + 1]
  /\ UNCHANGED <<fails, launches, crashes>>

FailWithoutRollback(e) ==  \* mutant: the failed work is not undone
  /\ pc = "batch" /\ NextDue(e)
  /\ log' = log \cup Fresh(Children[e])
  /\ queue' = [f \in Event |->
       IF f = e THEN IF queue[e].attempts + 1 >= MaxAttempts
                       THEN [status |-> "dead_letter", wait |-> 0, attempts |-> MaxAttempts]
                       ELSE [status |-> "pending", wait |-> 1, attempts |-> queue[e].attempts + 1]
       ELSE IF f \in Fresh(Children[e]) THEN FreshRow(f) ELSE queue[f]]
  /\ fails' = [fails EXCEPT ![e] = @ + 1]
  /\ UNCHANGED <<pendingEffects, inFlight, pc, folds, launches, crashes>>

FailUnrecorded(e) ==  \* mutant: the attempt is not recorded
  /\ pc = "batch" /\ NextDue(e)
  /\ UNCHANGED vars

(* processOne, when it throws; a poison event does every time.             *)
Fail(e) ==
  /\ NextDue(e)
  /\ RecordFailure(e)
  /\ fails' = [fails EXCEPT ![e] = @ + 1]
  /\ UNCHANGED <<folds, launches, crashes>>

(* The effects that leave the backlog are the ones that start.             *)
CountLaunches(running) ==
  launches' = [x \in Event |-> launches[x] + (IF x \in inFlight' \ running THEN 1 ELSE 0)]

FinishBatch ==
  /\ EndBatch
  /\ CountLaunches(inFlight)
  /\ UNCHANGED <<folds, fails, crashes>>

Post(x, e) ==
  /\ e \in Results[x]
  /\ EffectEmits(x, e)
  /\ UNCHANGED history

Settle(x) ==
  /\ EffectSettles(x)
  /\ CountLaunches(inFlight \ {x})
  /\ UNCHANGED <<folds, fails, crashes>>

(* The daemon dies, between two steps ...                                  *)
Crash ==
  /\ crashes < MaxCrashes
  /\ Halt
  /\ crashes' = crashes + 1
  /\ UNCHANGED <<log, queue, folds, fails, launches>>

(* ... or while an effect of it is inside enqueue.                         *)
CrashWhilePosting(x, e) ==
  /\ crashes < MaxCrashes
  /\ pc = "idle" /\ x \in inFlight /\ e \in Results[x]
  /\ TornEnqueue(e)
  /\ Halt
  /\ crashes' = crashes + 1
  /\ UNCHANGED <<folds, fails, launches>>

Begin == BeginBatch /\ UNCHANGED history
Pass == Tick /\ UNCHANGED history
RecoverAfresh ==  \* mutant: a restart forgets the failed attempts
  /\ pc = "down"
  /\ pc' = "idle"
  /\ queue' = [e \in Event |-> IF Pending(e) THEN FreshRow(e) ELSE queue[e]]
  /\ UNCHANGED <<log, pendingEffects, inFlight, history>>

Recover == Restart /\ UNCHANGED history

Init ==
  /\ LoopInit
  /\ folds = [e \in Event |-> 0]
  /\ fails = [e \in Event |-> 0]
  /\ launches = [e \in Event |-> 0]
  /\ crashes = 0

Process == \E e \in Event : Fold(e) \/ Fail(e)

Next ==
  \/ \E e \in Event : Submit(e) \/ SubmitTorn(e) \/ Fold(e) \/ Fail(e)
  \/ \E x, e \in Event : Post(x, e) \/ CrashWhilePosting(x, e)
  \/ \E x \in Event : Settle(x)
  \/ Begin \/ FinishBatch \/ Pass \/ Crash \/ Recover

(* The loop never stops by itself, time passes, and the daemon is started  *)
(* again after a crash.  Nobody has to submit anything, and an effect need *)
(* not post a result nor ever settle: the host sets plugins and agents no  *)
(* time limit, and the queue goes on without them.                         *)
Fairness ==
  /\ WF_vars(Begin) /\ WF_vars(Process) /\ WF_vars(FinishBatch)
  /\ WF_vars(Pass) /\ WF_vars(Recover)

Spec == Init /\ [][Next]_vars

FairSpec == Spec /\ Fairness

-----------------------------------------------------------------------------
(* Properties                                                              *)

TypeOK ==
  /\ LoopTypeOK
  /\ folds \in [Event -> Nat]
  /\ fails \in [Event -> Nat]
  /\ launches \in [Event -> Nat]
  /\ crashes \in 0..MaxCrashes

(* Effectively once: whatever the crashes, retries and duplicate           *)
(* submissions, an event is folded at most once, its effect starts at most *)
(* as often as it was folded, and facts under one dedup key are folded at  *)
(* most once between them (commit's ack, processOne's launch after commit, *)
(* the unique index).                                                      *)
EffectivelyOnce ==
  /\ \A e \in Event : folds[e] <= 1 /\ launches[e] <= folds[e]
  /\ \A e, f \in Event :
       e # f /\ Key[e] # NoKey /\ Key[e] = Key[f] => folds[e] + folds[f] <= 1

(* Commit-as-ack is all or nothing: an event's children are in the log     *)
(* exactly when the event has been folded, save those a duplicate or the   *)
(* depth budget turned away; and a folded event has no row left.           *)
CommitIsAtomic ==
  \A e \in Event :
    /\ folds[e] = 0 => Children[e] \cap log = {}
    /\ folds[e] > 0 => /\ queue[e] = NoRow
                       /\ \A c \in Children[e] : ~ Accepts(c)

(* A failing event is tried MaxAttempts times in all, restarts included,   *)
(* before it is parked, and never after that (recordFailure).              *)
AttemptsSurviveRestarts ==
  \A e \in Event :
    /\ fails[e] <= MaxAttempts
    /\ Dead(e) <=> fails[e] = MaxAttempts

(* The pool is bounded and never idles a slot while work is buffered       *)
(* (pumpEffects runs after every batch and after every settled promise).   *)
PoolIsFullOrBacklogEmpty ==
  /\ Cardinality(inFlight) <= MaxConcurrency
  /\ pc = "idle" /\ pendingEffects # <<>> => Cardinality(inFlight) = MaxConcurrency

(* Every queued event is eventually folded or parked, whatever poison sits *)
(* in front of it and however often it fails.                              *)
NothingWedges ==
  \A e \in Event : Pending(e) ~> (folds[e] > 0 \/ Dead(e))

(* The queue keeps the promise DurableWork states.                         *)
Stage(e) ==
  IF folds[e] > 0 THEN "done"
  ELSE IF Dead(e) THEN "given_up"
  ELSE IF Pending(e) THEN "accepted"
  ELSE "unknown"

stages == [e \in Event |-> Stage(e)]

Durable == INSTANCE DurableWork
  WITH Outside <- Roots \cup UNION {Results[x] : x \in Event},
       Follows <- Children, stage <- stages

KeepsPromise == Durable!Spec
=============================================================================
