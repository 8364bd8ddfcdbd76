----------------------------- MODULE EventLoop -----------------------------
(***************************************************************************)
(* The event machinery every component of the daemon runs on: the durable  *)
(* log and queue (core/queue.js) and the in-memory loop with its bounded   *)
(* effect pool (core/loop.js).  The module has no behaviour of its own: it *)
(* gives the operations, and a component composes them with its handlers.  *)
(*                                                                         *)
(* An event is its row id, so an identity is appended at most once; what   *)
(* the envelope fixes when it is built (dedup key, lane, depth, delay) is  *)
(* a function of it.  Time is relative: a row's `wait' is available_at     *)
(* minus now, zero or negative once it is due.                             *)
(***************************************************************************)
EXTENDS Integers, Sequences, FiniteSets

CONSTANTS
  Event,          \* event identities
  Effect,         \* async effects a handler or the scheduler may request
  NoKey,          \* dedup_key is null
  Key,            \* [Event -> dedup keys and NoKey]
  Lane,           \* [Event -> 0..2], 0 interactive, 1 default, 2 background
  Depth,          \* [Event -> Nat], distance from the causal root
  Hold,           \* [Event -> Nat], delay the event is enqueued with
  MaxDepth,       \* cascade budget (32 in the code)
  MaxAttempts,    \* attempts before the dead letter (5 in the code)
  RetryAfter,     \* [1..MaxAttempts-1 -> Nat \ {0}], backoff per attempt
  MaxConcurrency  \* effects in flight at once (4 in the code)

(* What a component has to assume of these (it states the ASSUME itself).  *)
LoopAssumption ==
  /\ Lane \in [Event -> 0..2]
  /\ Depth \in [Event -> Nat]
  /\ Hold \in [Event -> Nat]
  /\ MaxDepth \in Nat
  /\ MaxAttempts \in Nat \ {0}
  /\ RetryAfter \in [1..(MaxAttempts - 1) -> Nat \ {0}]
  /\ MaxConcurrency \in Nat \ {0}

VARIABLES
  log,            \* events table: every fact ever appended
  queue,          \* queue table, a row or NoRow per event
  pendingEffects, \* in memory: effects requested, not yet started (FIFO)
  inFlight,       \* in memory: effects running
  pc              \* "down", "idle" (awaiting) or "batch" (synchronous loop)

loopVars == <<log, queue, pendingEffects, inFlight, pc>>

-----------------------------------------------------------------------------
(* Rows                                                                    *)

Status == {"absent", "pending", "dead_letter"}

Row == [status : Status, wait : Int, attempts : 0..MaxAttempts]

NoRow == [status |-> "absent", wait |-> 0, attempts |-> 0]

FreshRow(e) == [status |-> "pending", wait |-> Hold[e], attempts |-> 0]

Pending(e) == queue[e].status = "pending"

Dead(e) == queue[e].status = "dead_letter"

Due(e) == Pending(e) /\ queue[e].wait <= 0

(* Strict lane priority, then availability.  Rows that tie (equal          *)
(* timestamps) may come in either order.                                   *)
Precedes(e, f) ==
  \/ Lane[e] < Lane[f]
  \/ Lane[e] = Lane[f] /\ queue[e].wait <= queue[f].wait

(* dequeueDue may return e.                                                *)
NextDue(e) == Due(e) /\ \A f \in Event : Due(f) => Precedes(e, f)

-----------------------------------------------------------------------------
(* Ingestion                                                               *)

(* The unique index on dedup_key, and the primary key.                     *)
Duplicate(e) ==
  \E f \in log : f = e \/ (Key[e] # NoKey /\ Key[f] = Key[e])

Accepts(e) == Depth[e] <= MaxDepth /\ ~ Duplicate(e)

Fresh(es) == {e \in es : Accepts(e)}

Enqueue(es) ==
  /\ log' = log \cup Fresh(es)
  /\ queue' = [e \in Event |-> IF e \in Fresh(es) THEN FreshRow(e) ELSE queue[e]]

(* Outside a transaction enqueue is two autocommitted statements; its      *)
(* process may die between them.                                           *)
TornEnqueue(e) ==
  /\ Accepts(e)
  /\ log' = log \cup {e}
  /\ UNCHANGED queue

-----------------------------------------------------------------------------
(* Processing one event, in the synchronous batch                          *)

CommitWithoutAck(e, children, effects) ==  \* mutant: the row is not deleted
  /\ pc = "batch"
  /\ log' = log \cup Fresh(children)
  /\ queue' = [f \in Event |-> IF f \in Fresh(children) THEN FreshRow(f) ELSE queue[f]]
  /\ pendingEffects' = pendingEffects \o effects
  /\ UNCHANGED <<inFlight, pc>>

(* Commit-as-ack: children in, row out, one transaction; the effects the   *)
(* chain asked for are buffered in memory once it has committed.           *)
Commit(e, children, effects) ==
  /\ pc = "batch"
  /\ log' = log \cup Fresh(children)
  /\ queue' = [f \in Event |-> IF f = e THEN NoRow
                               ELSE IF f \in Fresh(children) THEN FreshRow(f)
                               ELSE queue[f]]
  /\ pendingEffects' = pendingEffects \o effects
  /\ UNCHANGED <<inFlight, pc>>

RecordFailureLate(e) ==  \* mutant: parks one attempt too late
  LET n == queue[e].attempts + 1 IN
  /\ pc = "batch"
  /\ queue' = [queue EXCEPT ![e] =
       IF n > MaxAttempts
         THEN [status |-> "dead_letter", wait |-> 0, attempts |-> n]
         ELSE [status |-> "pending", wait |-> RetryAfter[1], attempts |-> n]]
  /\ UNCHANGED <<log, pendingEffects, inFlight, pc>>

RecordFailure(e) ==
  LET n == queue[e].attempts + 1 IN
  /\ pc = "batch"
  /\ queue' = [queue EXCEPT ![e] =
       IF n >= MaxAttempts
         THEN [status |-> "dead_letter", wait |-> 0, attempts |-> n]
         ELSE [status |-> "pending", wait |-> RetryAfter[n], attempts |-> n]]
  /\ UNCHANGED <<log, pendingEffects, inFlight, pc>>

-----------------------------------------------------------------------------
(* The effect pool                                                         *)

Room(running) == MaxConcurrency - Cardinality(running)

Startable(waiting, running) ==
  IF Len(waiting) <= Room(running) THEN Len(waiting) ELSE Room(running)

(* pumpEffects, from a given backlog and pool.                             *)
Pump(waiting, running) ==
  LET n == Startable(waiting, running) IN
  /\ inFlight' = running \cup {waiting[i] : i \in 1..n}
  /\ pendingEffects' = SubSeq(waiting, n + 1, Len(waiting))

-----------------------------------------------------------------------------
(* Steps of the loop itself                                                *)

LoopInit ==
  /\ log = {}
  /\ queue = [e \in Event |-> NoRow]
  /\ pendingEffects = <<>>
  /\ inFlight = {}
  /\ pc = "idle"

(* runForever wakes up.  A wake-up with nothing due changes nothing, so it *)
(* is left to stuttering.                                                  *)
BeginBatch ==
  /\ pc = "idle"
  /\ \E e \in Event : Due(e)
  /\ pc' = "batch"
  /\ UNCHANGED <<log, queue, pendingEffects, inFlight>>

EndBatch ==
  /\ pc = "batch"
  /\ \A e \in Event : ~ Due(e)
  /\ Pump(pendingEffects, inFlight)
  /\ pc' = "idle"
  /\ UNCHANGED <<log, queue>>

(* An effect posts a result while the loop awaits.                         *)
EffectEmits(x, e) ==
  /\ pc = "idle"
  /\ x \in inFlight
  /\ Enqueue({e})
  /\ UNCHANGED <<pendingEffects, inFlight, pc>>

EffectSettlesQuietly(x) ==  \* mutant: the freed slot is not refilled
  /\ pc = "idle"
  /\ x \in inFlight
  /\ inFlight' = inFlight \ {x}
  /\ UNCHANGED <<log, queue, pendingEffects, pc>>

(* Its promise settles: the slot is freed and the pool pumped.             *)
EffectSettles(x) ==
  /\ pc = "idle"
  /\ x \in inFlight
  /\ Pump(pendingEffects, inFlight \ {x})
  /\ UNCHANGED <<log, queue, pc>>

(* The last thing an effect does is to post its outcome.                   *)
EffectReturns(x, e) ==
  /\ pc = "idle"
  /\ x \in inFlight
  /\ Enqueue({e})
  /\ Pump(pendingEffects, inFlight \ {x})
  /\ UNCHANGED pc

(* Time advances while some row still waits for it.                        *)
Tick ==
  /\ \E e \in Event : Pending(e) /\ queue[e].wait > 0
  /\ queue' = [e \in Event |->
       IF Pending(e) THEN [queue[e] EXCEPT !.wait = @ - 1] ELSE queue[e]]
  /\ UNCHANGED <<log, pendingEffects, inFlight, pc>>

(* The process dies: the tables stay, the memory goes.                     *)
Halt ==
  /\ pc # "down"
  /\ pc' = "down"
  /\ pendingEffects' = <<>>
  /\ inFlight' = {}

Restart ==
  /\ pc = "down"
  /\ pc' = "idle"
  /\ UNCHANGED <<log, queue, pendingEffects, inFlight>>

-----------------------------------------------------------------------------

LoopTypeOK ==
  /\ log \subseteq Event
  /\ queue \in [Event -> Row]
  /\ pendingEffects \in Seq(Effect)
  /\ inFlight \subseteq Effect
  /\ pc \in {"down", "idle", "batch"}
=============================================================================
