-------------------------- MODULE ItemTriage_proofs --------------------------
(***************************************************************************)
(* Proofs about ItemTriage, for any number of versions and commands, and   *)
(* any number of failures and deaths.                                      *)
(***************************************************************************)
EXTENDS ItemTriage, EventLoop_proofs

-----------------------------------------------------------------------------
(* The inductive invariant                                                 *)

Rows == {e \in ItemEvent : queue[e] # NoRow}

(* Committed: in the log, and its row is gone.                             *)
Folded == log \ Rows

Memory == Range(pendingEffects) \cup inFlight

LocalState ==
  {"absent", "new", "recommended", "approved_pending", "action_error"} \cup Decision

Typed ==
  /\ log \subseteq ItemEvent
  /\ queue \in [ItemEvent -> [status : Status, wait : Int, attempts : Nat]]
  /\ item \in [local : LocalState, seen : Watermark, until : Command \cup {None}]
  /\ recs \in [Asking -> {"none", "live", "superseded"}]
  /\ mark \in [Asking -> Watermark \cup {None}]

(* Every row has its fact, and the memory every turn once.                 *)
LoopInv ==
  /\ Rows \subseteq log
  /\ LoopMemory(Asking, pendingEffects, inFlight, MaxConcurrency)

(* A fact asks for at most one turn, when it is folded, and a turn answers *)
(* as it leaves the memory: what a turn has read is not read again once it *)
(* has answered.                                                           *)
TurnInv ==
  \A x \in Asking :
    /\ x \in Memory => x \in Folded /\ RecCreated(x) \notin log
    /\ RecCreated(x) \in log => x \in Folded
    /\ recs[x] # "none" => RecCreated(x) \in Folded

(* What a rerun closes has been made.  Its reset may overtake it; what is  *)
(* shown then is not what it closes.                                       *)
RerunInv ==
  \A c \in Command, x \in Asking : RerunCloses(c, x) \in log =>
    /\ recs[x] # "none"
    /\ Reset(c) \in Folded /\ item.local = "recommended" => ~ Live(x)

IInv == Typed /\ LoopInv /\ TurnInv /\ RerunInv /\ OneLiveRec /\ RecommendedHasCurrentRec

-----------------------------------------------------------------------------
(* Events                                                                  *)

LEMMA EventsAreEvents ==
  /\ Asking \subseteq ItemEvent
  /\ \A v \in Version : Source(v) \in Asking
  /\ \A c \in Command : Wake(c) \in Asking /\ Reset(c) \in Asking
  /\ Closed \in ItemEvent
  /\ \A c \in Command, d \in Decision : Decided(c, d) \in ItemEvent
  /\ \A c \in Command, x \in Asking : RerunCloses(c, x) \in ItemEvent
  /\ \A x \in Asking : RecCreated(x) \in ItemEvent
  /\ \A x \in Asking : Approved(x) \in ItemEvent
  /\ \A x \in Asking, ok \in BOOLEAN : Settled(x, ok) \in ItemEvent
<1>1. UserEvent \subseteq ItemEvent /\ Asking \subseteq ItemEvent
  BY DEF ItemEvent
<1>2. /\ \A v \in Version : Source(v) \in Asking
      /\ \A c \in Command : Wake(c) \in Asking /\ Reset(c) \in Asking
  BY DEF Asking
<1>3. Closed \in ItemEvent
  BY DEF ItemEvent
<1>4. \A c \in Command, d \in Decision : Decided(c, d) \in UserEvent
  BY DEF UserEvent
<1>5. \A c \in Command, x \in Asking : RerunCloses(c, x) \in UserEvent
  BY DEF UserEvent
<1>6. \A x \in Asking : Approved(x) \in UserEvent
  BY DEF UserEvent
<1>7. \A x \in Asking : RecCreated(x) \in ItemEvent
  BY DEF ItemEvent
<1>8. \A x \in Asking, ok \in BOOLEAN : Settled(x, ok) \in ItemEvent
  BY DEF ItemEvent
<1>9. QED
  BY <1>1, <1>2, <1>3, <1>4, <1>5, <1>6, <1>7, <1>8

LEMMA EventFields ==
  /\ \A v : Source(v).type = "source"
  /\ Closed.type = "item.closed"
  /\ \A c : Wake(c).type = "snooze_expired"
  /\ \A c : Reset(c).type = "reset_for_rerun" /\ Reset(c).command = c
  /\ \A c, d : Decided(c, d).type = "decided"
  /\ \A c, x : LET e == RerunCloses(c, x) IN
       e.type = "recommendation.closed" /\ e.command = c /\ e.rec = x
  /\ \A x : RecCreated(x).type = "recommendation.created" /\ RecCreated(x).rec = x
  /\ \A x : Approved(x).type = "approval.created"
  /\ \A x, ok : Settled(x, ok).type = "settled"
BY DEF Source, Closed, Wake, Reset, Decided, RerunCloses, RecCreated, Approved, Settled

-----------------------------------------------------------------------------
(* What the loop does to the log, its rows and the memory                  *)

TypedLog ==
  /\ log \subseteq ItemEvent
  /\ queue \in [ItemEvent -> [status : Status, wait : Int, attempts : Nat]]

LEMMA LimitIsNat == MaxConcurrency \in Nat
BY TriageAssumption DEF LoopAssumption

LEMMA FreshRowTyped ==
  ASSUME NEW e \in ItemEvent
  PROVE  FreshRow(e) \in [status : Status, wait : Int, attempts : Nat] /\ FreshRow(e) # NoRow
<1>1. EventHold[e] \in Int
  BY TriageAssumption DEF EventHold
<1>2. QED
  BY <1>1 DEF FreshRow, NoRow, Status

(* enqueue: a fact and its row, or nothing.                                *)
LEMMA EnqueueRows ==
  ASSUME Typed, Rows \subseteq log, NEW e \in ItemEvent, Enqueue({e})
  PROVE  /\ TypedLog' /\ Rows' \subseteq log' /\ Folded' = Folded
         /\ log \subseteq log' /\ log' \subseteq log \cup {e}
<1>1. CASE Accepts(e)
  <2>1. Fresh({e}) = {e} /\ e \notin log
    BY <1>1 DEF Fresh, Accepts, Duplicate
  <2>2. /\ log' = log \cup {e}
        /\ queue' = [f \in ItemEvent |-> IF f = e THEN FreshRow(e) ELSE queue[f]]
    BY <2>1 DEF Enqueue
  <2>3. TypedLog'
    BY <2>2, FreshRowTyped DEF Typed, TypedLog
  <2>4. Rows' = Rows \cup {e}
    BY <2>2, FreshRowTyped DEF Rows, Typed
  <2>5. QED
    BY <2>1, <2>2, <2>3, <2>4 DEF Folded
<1>2. CASE ~ Accepts(e)
  <2>1. Fresh({e}) = {}
    BY <1>2 DEF Fresh
  <2>2. UNCHANGED <<log, queue>>
    BY <2>1 DEF Enqueue, Typed
  <2>3. QED
    BY <2>2 DEF Typed, TypedLog, Rows, Folded
<1>3. QED
  BY <1>1, <1>2

(* A failed attempt and time keep every row where it is.                   *)
LEMMA QuietRows ==
  ASSUME Typed, \/ \E e \in ItemEvent : NextDue(e) /\ RecordFailure(e)
                \/ Tick
                \/ UNCHANGED <<log, queue>>
  PROVE  TypedLog' /\ Rows' = Rows /\ Folded' = Folded /\ log' = log
<1>1. CASE UNCHANGED <<log, queue>>
  BY <1>1 DEF Typed, TypedLog, Rows, Folded
<1>2. CASE Tick
  <2>1. log' = log /\ \A f \in ItemEvent :
          queue'[f] = IF Pending(f) THEN [queue[f] EXCEPT !.wait = @ - 1] ELSE queue[f]
    BY <1>2 DEF Tick
  <2>2. ASSUME NEW f \in ItemEvent
        PROVE  /\ queue'[f] \in [status : Status, wait : Int, attempts : Nat]
               /\ queue'[f] # NoRow <=> queue[f] # NoRow
    <3>1. queue[f] \in [status : Status, wait : Int, attempts : Nat]
      BY DEF Typed
    <3>2. CASE Pending(f)
      <4>1. queue'[f] = [queue[f] EXCEPT !.wait = @ - 1] /\ queue[f].status = "pending"
        BY <2>1, <3>2 DEF Pending
      <4>2. /\ queue'[f] \in [status : Status, wait : Int, attempts : Nat]
            /\ queue'[f].status = "pending"
        BY <3>1, <4>1
      <4>3. QED
        BY <4>1, <4>2 DEF NoRow
    <3>3. CASE ~ Pending(f)
      BY <2>1, <3>1, <3>3
    <3>4. QED
      BY <3>2, <3>3
  <2>3. TypedLog'
    BY <1>2, <2>1, <2>2 DEF Typed, TypedLog, Tick
  <2>4. QED
    BY <2>1, <2>2, <2>3 DEF Rows, Folded
<1>3. ASSUME NEW e \in ItemEvent, NextDue(e), RecordFailure(e)
      PROVE  TypedLog' /\ Rows' = Rows /\ Folded' = Folded /\ log' = log
  <2> DEFINE n == queue[e].attempts + 1
             row == IF n >= MaxAttempts
                      THEN [status |-> "dead_letter", wait |-> 0, attempts |-> n]
                      ELSE [status |-> "pending", wait |-> RetryAfter[n], attempts |-> n]
  <2>1. log' = log /\ queue' = [queue EXCEPT ![e] = row]
    BY <1>3 DEF RecordFailure
  <2>2. n \in Nat \ {0} /\ (~ n >= MaxAttempts => RetryAfter[n] \in Int)
    BY TriageAssumption DEF LoopAssumption, Typed
  <2>3. row \in [status : Status, wait : Int, attempts : Nat] /\ row # NoRow
    BY <2>2 DEF Status, NoRow
  <2>4. queue[e] # NoRow
    BY <1>3 DEF NextDue, Due, Pending, NoRow
  <2> HIDE DEF row
  <2>5. TypedLog'
    BY <2>1, <2>3 DEF Typed, TypedLog
  <2>6. Rows' = Rows
    BY <2>1, <2>3, <2>4 DEF Typed, Rows
  <2>7. QED
    BY <2>1, <2>5, <2>6 DEF Folded
<1>4. QED
  BY <1>1, <1>2, <1>3

(* A commit: its event is folded; what is new is not; it asks for a turn   *)
(* or not.                                                                 *)
LEMMA CommitRows ==
  ASSUME Typed, LoopInv, NEW e \in ItemEvent, NextDue(e),
         NEW children \in SUBSET ItemEvent, NEW effects, Commit(e, children, effects),
         effects = <<>> \/ (e \in Asking /\ e \notin Memory /\ effects = <<e>>)
  PROVE  /\ TypedLog' /\ LoopInv' /\ e \in Rows /\ Folded' = Folded \cup {e}
         /\ log \subseteq log' /\ log' \subseteq log \cup children
         /\ \A x \in Memory' : x \in Memory \/ (x = e /\ e \in Asking)
<1> DEFINE new == Fresh(children)
<1>1. /\ UNCHANGED inFlight /\ pendingEffects' = pendingEffects \o effects
      /\ log' = log \cup new
      /\ queue' = [f \in ItemEvent |-> IF f = e THEN NoRow
                                       ELSE IF f \in new THEN FreshRow(f) ELSE queue[f]]
  BY DEF Commit
<1>2. e \in Rows /\ Rows \subseteq log
  BY DEF NextDue, Due, Pending, Rows, NoRow, LoopInv
<1>3. new \subseteq children /\ new \cap log = {} /\ e \notin new
  BY <1>2 DEF Fresh, Accepts, Duplicate
<1> HIDE DEF new
<1>4. NoRow \in [status : Status, wait : Int, attempts : Nat]
  BY DEF NoRow, Status
<1>5. TypedLog'
  BY <1>1, <1>3, <1>4, FreshRowTyped DEF Typed, TypedLog
<1>6. Rows' = (Rows \ {e}) \cup new
  BY <1>1, <1>3, FreshRowTyped DEF Typed, Rows
<1>7. Folded' = Folded \cup {e} /\ Rows' \subseteq log'
  BY <1>1, <1>2, <1>3, <1>6 DEF Folded
<1>8. /\ LoopMemory(Asking, pendingEffects, inFlight, MaxConcurrency)'
      /\ \A x \in Memory' : x \in Memory \/ (x = e /\ e \in Asking)
  <2>1. LoopMemory(Asking, pendingEffects, inFlight, MaxConcurrency)
    BY DEF LoopInv
  <2>2. CASE effects = <<>>
    <3>1. pendingEffects \in Seq(Asking)
      BY <2>1 DEF LoopMemory
    <3>2. pendingEffects' = pendingEffects
      BY <1>1, <2>2, <3>1, BufferNothing
    <3>3. QED
      BY <1>1, <2>1, <3>2 DEF Memory
  <2>3. CASE e \in Asking /\ e \notin Memory /\ effects = <<e>>
    <3>1. e \notin Range(pendingEffects) /\ e \notin inFlight
      BY <2>3 DEF Memory
    <3>2. /\ LoopMemory(Asking, pendingEffects \o <<e>>, inFlight, MaxConcurrency)
          /\ Range(pendingEffects \o <<e>>) = Range(pendingEffects) \cup {e}
      BY <2>1, <2>3, <3>1, LimitIsNat, BufferOne
    <3>3. QED
      BY <1>1, <2>3, <3>2 DEF Memory
  <2>4. QED
    BY <2>2, <2>3
<1>9. QED
  BY <1>1, <1>2, <1>3, <1>5, <1>7, <1>8 DEF LoopInv

(* pumpEffects, once what left the pool has left it.                       *)
LEMMA PumpKeepsMemory ==
  ASSUME LoopInv, NEW left \in SUBSET inFlight, Pump(pendingEffects, left)
  PROVE  /\ LoopMemory(Asking, pendingEffects, inFlight, MaxConcurrency)'
         /\ Memory' = Range(pendingEffects) \cup left
<1> DEFINE n == Startable(pendingEffects, left)
<1>0. LoopMemory(Asking, pendingEffects, inFlight, MaxConcurrency)
  BY DEF LoopInv
<1>1. /\ IsFiniteSet(inFlight) /\ Cardinality(inFlight) <= MaxConcurrency
      /\ pendingEffects \in Seq(Asking)
  BY <1>0 DEF LoopMemory
<1>2. Cardinality(left) \in Nat /\ Cardinality(left) <= MaxConcurrency
  BY <1>1, LimitIsNat, FS_Subset, FS_CardinalityType
<1>3. /\ n \in 0..Len(pendingEffects) /\ n <= MaxConcurrency - Cardinality(left)
      /\ n < Len(pendingEffects) => n = MaxConcurrency - Cardinality(left)
  BY <1>1, <1>2, LimitIsNat DEF Startable, Room
<1>4. /\ inFlight' = left \cup {pendingEffects[i] : i \in 1..n}
      /\ pendingEffects' = SubSeq(pendingEffects, n + 1, Len(pendingEffects))
  BY DEF Pump
<1> HIDE DEF n
<1>5. Pumped(Asking, pendingEffects, left, MaxConcurrency, n, inFlight', pendingEffects')
  BY <1>1, <1>3, <1>4 DEF Pumped
<1>6. LoopMemory(Asking, pendingEffects', inFlight', MaxConcurrency)
  BY <1>0, <1>5, LimitIsNat, PumpMoves
<1>7. Range(pendingEffects') \cup inFlight' = Range(pendingEffects) \cup left
  BY <1>0, <1>5, LimitIsNat, PumpMoves
<1>8. QED
  BY <1>6, <1>7 DEF Memory

(* A turn is over, and others may start.                                   *)
LEMMA SlotFreed ==
  ASSUME LoopInv, NEW x \in inFlight, Pump(pendingEffects, inFlight \ {x})
  PROVE  /\ LoopMemory(Asking, pendingEffects, inFlight, MaxConcurrency)'
         /\ x \in Memory /\ Memory' = Memory \ {x}
<1>1. inFlight \ {x} \in SUBSET inFlight
  OBVIOUS
<1>2. /\ LoopMemory(Asking, pendingEffects, inFlight, MaxConcurrency)'
      /\ Memory' = Range(pendingEffects) \cup (inFlight \ {x})
  BY <1>1, PumpKeepsMemory
<1>3. x \notin Range(pendingEffects)
  BY DEF LoopInv, LoopMemory, Range
<1>4. QED
  BY <1>2, <1>3 DEF Memory

(* A turn reads the item when it starts, and only then.                    *)
LEMMA OnlyStartsRead ==
  ASSUME Typed, Launch
  PROVE  /\ mark' \in [Asking -> Watermark \cup {None}]
         /\ \A x \in Asking : x \notin Memory' => mark'[x] = mark[x]
<1>1. Snapshot \in Watermark \cup {None}
  BY DEF Snapshot, Typed
<1>2. QED
  BY <1>1 DEF Launch, Typed, Memory

-----------------------------------------------------------------------------
(* Steps that fold nothing                                                 *)

(* Only the fold of its reset ends a rerun.                                *)
LEMMA HalfwayStays ==
  ASSUME log \subseteq log', \A c \in Command : Reset(c) \in Folded' => Reset(c) \in Folded
  PROVE  RerunHalfway => RerunHalfway'
<1> SUFFICES ASSUME NEW c \in Command, NEW x \in Asking, RerunCloses(c, x) \in log,
                    Reset(c) \notin log \/ queue[Reset(c)] # NoRow
             PROVE  RerunHalfway'
  BY DEF RerunHalfway
<1>1. Reset(c) \notin Folded'
  BY EventsAreEvents DEF Folded, Rows
<1>2. Reset(c) \notin log' \/ queue'[Reset(c)] # NoRow
  BY <1>1 DEF Folded, Rows
<1>3. QED
  BY <1>2 DEF RerunHalfway

(* New facts may come, of turns that are over and of what is live now.     *)
LEMMA NothingFolded ==
  ASSUME IInv, Typed', LoopInv', Folded' = Folded, log \subseteq log',
         UNCHANGED <<item, recs>>, Memory' \subseteq Memory,
         \A x \in Asking : x \notin Memory' => mark'[x] = mark[x],
         \A x \in Asking : RecCreated(x) \in log' =>
           RecCreated(x) \in log \/ (x \in Memory /\ x \notin Memory'),
         \A c \in Command, x \in Asking : RerunCloses(c, x) \in log' =>
           RerunCloses(c, x) \in log \/ (Live(x) /\ Reset(c) \notin Folded)
  PROVE  IInv'
<1>1. TurnInv'
  BY DEF IInv, TurnInv
<1>2. RerunInv'
  BY DEF IInv, RerunInv, Live
<1>3. OneLiveRec'
  BY DEF IInv, OneLiveRec, Live
<1>4. RecommendedHasCurrentRec'
  <2> SUFFICES ASSUME item.local = "recommended", item.seen.open, ~ RerunHalfway'
               PROVE  \E x \in Asking : Live(x)' /\ mark'[x] = item.seen
    BY DEF RecommendedHasCurrentRec
  <2>1. ~ RerunHalfway
    BY HalfwayStays
  <2>2. PICK x \in Asking : Live(x) /\ mark[x] = item.seen
    BY <2>1 DEF IInv, RecommendedHasCurrentRec
  <2>3. x \notin Memory'
    BY <2>2 DEF IInv, TurnInv, Live, Folded
  <2>4. QED
    BY <2>2, <2>3 DEF Live
<1>5. QED
  BY <1>1, <1>2, <1>3, <1>4 DEF IInv

(* A fact from outside, which is no recommendation; a rerun closes a live  *)
(* recommendation under a name of its own.                                 *)
LEMMA FactComes ==
  ASSUME IInv, NEW e \in ItemEvent, Enqueue({e}),
         UNCHANGED <<pendingEffects, inFlight, item, recs, mark>>,
         e.type # "recommendation.created",
         \A c \in Command, x \in Asking :
           e = RerunCloses(c, x) => Live(x) /\ Reset(c) \notin log
  PROVE  IInv'
<1>1. /\ TypedLog' /\ Rows' \subseteq log' /\ Folded' = Folded
      /\ log \subseteq log' /\ log' \subseteq log \cup {e}
  BY EnqueueRows DEF IInv, LoopInv
<1>2. Memory' = Memory /\ LoopInv'
  BY <1>1 DEF Memory, IInv, LoopInv
<1>3. Typed'
  BY <1>1 DEF IInv, Typed, TypedLog
<1>4. \A x \in Asking : RecCreated(x) # e
  BY EventFields
<1>5. QED
  BY <1>1, <1>2, <1>3, <1>4, NothingFolded DEF Folded

LEMMA UserAndSource ==
  ASSUME IInv,
         \/ \E v \in Version : Report(v)
         \/ ReportClosed
         \/ \E c \in Command, d \in Decision : Decide(c, d)
         \/ \E c \in Command : AskAgain(c) \/ RerunResets(c)
         \/ \E x \in Asking : Approve(x)
         \/ \E x \in Asking, ok \in BOOLEAN : WorkEnds(x, ok)
  PROVE  IInv'
<1>1. PICK e \in ItemEvent :
        /\ Enqueue({e}) /\ UNCHANGED <<pendingEffects, inFlight, item, recs, mark>>
        /\ e.type \notin {"recommendation.created", "recommendation.closed"}
  <2>1. ASSUME NEW v \in Version, Report(v)
        PROVE  \E e \in ItemEvent :
                 /\ Enqueue({e}) /\ UNCHANGED <<pendingEffects, inFlight, item, recs, mark>>
                 /\ e.type \notin {"recommendation.created", "recommendation.closed"}
    BY <2>1, EventsAreEvents, EventFields DEF Report, tables
  <2>2. ASSUME ReportClosed
        PROVE  \E e \in ItemEvent :
                 /\ Enqueue({e}) /\ UNCHANGED <<pendingEffects, inFlight, item, recs, mark>>
                 /\ e.type \notin {"recommendation.created", "recommendation.closed"}
    BY <2>2, EventsAreEvents, EventFields DEF ReportClosed, tables
  <2>3. ASSUME NEW c \in Command, NEW d \in Decision, Decide(c, d)
        PROVE  \E e \in ItemEvent :
                 /\ Enqueue({e}) /\ UNCHANGED <<pendingEffects, inFlight, item, recs, mark>>
                 /\ e.type \notin {"recommendation.created", "recommendation.closed"}
    BY <2>3, EventsAreEvents, EventFields DEF Decide, tables
  <2>4. ASSUME NEW c \in Command, AskAgain(c) \/ RerunResets(c)
        PROVE  \E e \in ItemEvent :
                 /\ Enqueue({e}) /\ UNCHANGED <<pendingEffects, inFlight, item, recs, mark>>
                 /\ e.type \notin {"recommendation.created", "recommendation.closed"}
    BY <2>4, EventsAreEvents, EventFields DEF AskAgain, RerunResets, tables
  <2>5. ASSUME NEW x \in Asking, Approve(x)
        PROVE  \E e \in ItemEvent :
                 /\ Enqueue({e}) /\ UNCHANGED <<pendingEffects, inFlight, item, recs, mark>>
                 /\ e.type \notin {"recommendation.created", "recommendation.closed"}
    BY <2>5, EventsAreEvents, EventFields DEF Approve, tables
  <2>6. ASSUME NEW x \in Asking, NEW ok \in BOOLEAN, WorkEnds(x, ok)
        PROVE  \E e \in ItemEvent :
                 /\ Enqueue({e}) /\ UNCHANGED <<pendingEffects, inFlight, item, recs, mark>>
                 /\ e.type \notin {"recommendation.created", "recommendation.closed"}
    BY <2>6, EventsAreEvents, EventFields DEF WorkEnds, tables
  <2>7. QED
    BY <2>1, <2>2, <2>3, <2>4, <2>5, <2>6
<1>2. \A c \in Command, x \in Asking : e # RerunCloses(c, x)
  BY <1>1, EventFields
<1>3. QED
  BY <1>1, <1>2, FactComes

LEMMA StepRerun ==
  ASSUME IInv, NEW c \in Command, NEW x \in Asking, Rerun(c, x)
  PROVE  IInv'
<1>1. /\ Unused(c) /\ Live(x) /\ Enqueue({RerunCloses(c, x)})
      /\ UNCHANGED <<pendingEffects, inFlight, item, recs, mark>>
  BY DEF Rerun, tables
<1>2. RerunCloses(c, x) \in ItemEvent /\ RerunCloses(c, x).type # "recommendation.created"
  BY EventsAreEvents, EventFields
<1>3. Reset(c) \notin log
  BY <1>1, EventFields DEF Unused
<1>4. \A b \in Command, y \in Asking : RerunCloses(c, x) = RerunCloses(b, y) => b = c /\ y = x
  BY EventFields
<1>5. QED
  BY <1>1, <1>2, <1>3, <1>4, FactComes

(* An agent's turn ends, with a recommendation or without.                 *)
LEMMA TurnEnds ==
  ASSUME IInv, NEW x \in Asking, Recommends(x) \/ TurnFails(x) \/ TurnIsMoot(x)
  PROVE  IInv'
<1>1. /\ x \in inFlight /\ Pump(pendingEffects, inFlight \ {x}) /\ Launch
      /\ UNCHANGED <<item, recs>>
      /\ Enqueue({RecCreated(x)}) \/ UNCHANGED <<log, queue>>
  BY DEF Recommends, TurnFails, TurnIsMoot, EffectReturns, EffectSettles, tables
<1>2. /\ LoopMemory(Asking, pendingEffects, inFlight, MaxConcurrency)'
      /\ x \in Memory /\ Memory' = Memory \ {x}
  BY <1>1, SlotFreed DEF IInv
<1>3. /\ TypedLog' /\ Rows' \subseteq log' /\ Folded' = Folded
      /\ log \subseteq log' /\ log' \subseteq log \cup {RecCreated(x)}
  <2>1. CASE Enqueue({RecCreated(x)})
    BY <2>1, EventsAreEvents, EnqueueRows DEF IInv, LoopInv
  <2>2. CASE UNCHANGED <<log, queue>>
    BY <2>2, QuietRows DEF IInv, LoopInv
  <2>3. QED
    BY <1>1, <2>1, <2>2
<1>4. /\ mark' \in [Asking -> Watermark \cup {None}]
      /\ \A y \in Asking : y \notin Memory' => mark'[y] = mark[y]
  BY <1>1, OnlyStartsRead DEF IInv
<1>5. Typed'
  BY <1>1, <1>3, <1>4 DEF IInv, Typed, TypedLog
<1>6. LoopInv'
  BY <1>2, <1>3 DEF LoopInv
<1>7. /\ \A y \in Asking : RecCreated(y) = RecCreated(x) => y = x
      /\ \A c \in Command, y \in Asking : RerunCloses(c, y) # RecCreated(x)
  BY EventFields
<1>8. QED
  BY <1>1, <1>2, <1>3, <1>4, <1>5, <1>6, <1>7, NothingFolded

(* The loop, the clock and the end of the process.                         *)
LEMMA DaemonSteps ==
  ASSUME IInv,
         \/ \E e \in ItemEvent : Fail(e)
         \/ Begin \/ Finish \/ Pass \/ Crash \/ Recover
         \/ UNCHANGED vars
  PROVE  IInv'
<1>1. /\ UNCHANGED <<item, recs>>
      /\ \/ \E e \in ItemEvent : NextDue(e) /\ RecordFailure(e)
         \/ Tick
         \/ UNCHANGED <<log, queue>>
      /\ \/ Pump(pendingEffects, inFlight) /\ Launch
         \/ pendingEffects' = <<>> /\ inFlight' = {} /\ mark' = mark
         \/ UNCHANGED <<pendingEffects, inFlight, mark>>
  BY DEF Fail, Begin, Finish, Pass, Crash, Recover, RecordFailure, BeginBatch, EndBatch, Tick, Halt,
     Restart, vars, tables
<1>2. TypedLog' /\ Rows' = Rows /\ Folded' = Folded /\ log' = log
  BY <1>1, QuietRows DEF IInv
<1>3. /\ LoopMemory(Asking, pendingEffects, inFlight, MaxConcurrency)'
      /\ Memory' \subseteq Memory
      /\ mark' \in [Asking -> Watermark \cup {None}]
      /\ \A y \in Asking : y \notin Memory' => mark'[y] = mark[y]
  <2>1. CASE Pump(pendingEffects, inFlight) /\ Launch
    <3>1. inFlight \in SUBSET inFlight
      OBVIOUS
    <3>2. /\ LoopMemory(Asking, pendingEffects, inFlight, MaxConcurrency)'
          /\ Memory' = Memory
      BY <2>1, <3>1, PumpKeepsMemory DEF IInv, Memory
    <3>3. QED
      BY <2>1, <3>2, OnlyStartsRead DEF IInv
  <2>2. CASE pendingEffects' = <<>> /\ inFlight' = {} /\ mark' = mark
    <3>1. LoopMemory(Asking, pendingEffects, inFlight, MaxConcurrency)' /\ Memory' = {}
      BY <2>2, EmptyMemory, LimitIsNat DEF Memory
    <3>2. QED
      BY <2>2, <3>1 DEF IInv, Typed
  <2>3. CASE UNCHANGED <<pendingEffects, inFlight, mark>>
    BY <2>3 DEF IInv, LoopInv, Memory, Typed
  <2>4. QED
    BY <1>1, <2>1, <2>2, <2>3
<1>4. Typed'
  BY <1>1, <1>2, <1>3 DEF IInv, Typed, TypedLog
<1>5. LoopInv'
  BY <1>2, <1>3 DEF IInv, LoopInv
<1>6. QED
  BY <1>1, <1>2, <1>3, <1>4, <1>5, NothingFolded

-----------------------------------------------------------------------------
(* Folding an event                                                        *)

(* What every fold does.                                                   *)
FoldsOnly(e) ==
  /\ TypedLog' /\ LoopInv' /\ e \in Rows /\ Folded' = Folded \cup {e}
  /\ log \subseteq log'
  /\ \A x \in Asking : RecCreated(x) \in log' => RecCreated(x) \in log
  /\ \A c \in Command, x \in Asking : RerunCloses(c, x) \in log' => RerunCloses(c, x) \in log
  /\ \A x \in Memory' : x \in Memory \/ (x = e /\ e \in Asking)
  /\ mark' = mark

(* A fact that asks for a turn is folded once: its turn is not in memory.  *)
LEMMA FoldStep ==
  ASSUME IInv, NEW e \in ItemEvent, NextDue(e), NEW children, NEW effects,
         Commit(e, children, effects),
         children = {} \/ \E c \in Command : children = {Wake(c)},
         effects = <<>> \/ (e \in Asking /\ effects = <<e>>), mark' = mark
  PROVE  FoldsOnly(e)
<1>1. children \in SUBSET ItemEvent /\ \A f \in children : f.type = "snooze_expired"
  BY EventsAreEvents, EventFields
<1>2. e \in Asking => e \notin Memory
  <2>1. e \in Rows
    BY DEF NextDue, Due, Pending, Rows, NoRow
  <2>2. QED
    BY <2>1 DEF IInv, TurnInv, Folded
<1>3. /\ TypedLog' /\ LoopInv' /\ e \in Rows /\ Folded' = Folded \cup {e}
      /\ log \subseteq log' /\ log' \subseteq log \cup children
      /\ \A x \in Memory' : x \in Memory \/ (x = e /\ e \in Asking)
  BY <1>1, <1>2, CommitRows DEF IInv
<1>4. /\ \A x \in Asking : RecCreated(x) \notin children
      /\ \A c \in Command, x \in Asking : RerunCloses(c, x) \notin children
  BY <1>1, EventFields
<1>5. QED
  BY <1>3, <1>4 DEF FoldsOnly

LEMMA TurnsAfterFold ==
  ASSUME IInv, NEW e \in ItemEvent, FoldsOnly(e),
         \A x \in Asking : recs'[x] # "none" => recs[x] # "none" \/ e = RecCreated(x)
  PROVE  TurnInv'
<1>1. e \in log /\ e \in Rows
  BY DEF FoldsOnly, IInv, LoopInv
<1>2. ASSUME NEW x \in Asking, x = e
      PROVE  RecCreated(x) \notin log
  BY <1>1, <1>2 DEF IInv, TurnInv, Folded
<1>3. QED
  BY <1>1, <1>2 DEF IInv, TurnInv, FoldsOnly

(* A decision, new activity, a wake-up, a reset, an approval or the end of *)
(* approved work: whatever is live, the item is not shown as recommended.  *)
LEMMA ShownOtherwise ==
  ASSUME IInv, NEW e \in ItemEvent, FoldsOnly(e), Typed', item'.local # "recommended",
         \A x \in Asking : /\ recs'[x] # "none" <=> recs[x] # "none"
                           /\ Live(x)' => Live(x)
  PROVE  IInv'
<1>1. TurnInv'
  BY TurnsAfterFold
<1>2. RerunInv'
  BY DEF IInv, RerunInv, FoldsOnly
<1>3. OneLiveRec'
  BY DEF IInv, OneLiveRec
<1>4. RecommendedHasCurrentRec'
  BY DEF RecommendedHasCurrentRec
<1>5. QED
  BY <1>1, <1>2, <1>3, <1>4 DEF IInv, FoldsOnly

LEMMA Superseded ==
  ASSUME Typed, NEW xs
  PROVE  /\ Supersede(xs) \in [Asking -> {"none", "live", "superseded"}]
         /\ \A x \in Asking : /\ Supersede(xs)[x] # "none" <=> recs[x] # "none"
                              /\ Supersede(xs)[x] = "live" <=> Live(x) /\ x \notin xs
BY DEF Supersede, Live, Typed

LEMMA StepFoldSource ==
  ASSUME IInv, NEW v \in Version, FoldSource(v)
  PROVE  IInv'
<1> DEFINE e == Source(v)
           effects == AttentionPolicy("new", v \in Surfacing, e)
<1>1. /\ NextDue(e) /\ Commit(e, {}, effects) /\ e \in Asking /\ e \in ItemEvent
      /\ item' = [item EXCEPT !.local = "new", !.seen = Seen(v)]
      /\ UNCHANGED <<recs, mark>>
  BY EventsAreEvents DEF FoldSource
<1>2. effects = <<>> \/ effects = <<e>>
  BY DEF AttentionPolicy
<1> HIDE DEF effects, e
<1>3. FoldsOnly(e)
  BY <1>1, <1>2, FoldStep
<1>4. Seen(v) \in Watermark
  BY TriageAssumption DEF Seen, Watermark, Version
<1>5. Typed' /\ item'.local = "new"
  BY <1>1, <1>3, <1>4 DEF IInv, Typed, TypedLog, FoldsOnly, LocalState
<1>6. QED
  BY <1>1, <1>3, <1>5, ShownOtherwise DEF Live

(* An item that is gone is not shown as open.                              *)
LEMMA StepFoldClosed ==
  ASSUME IInv, FoldClosed
  PROVE  IInv'
<1> DEFINE e == Closed
<1>1. /\ NextDue(e) /\ Commit(e, {}, <<>>) /\ e \in ItemEvent
      /\ item' = [item EXCEPT !.local = IF Exists THEN @ ELSE "handled", !.seen.open = FALSE]
      /\ UNCHANGED <<recs, mark>>
  BY EventsAreEvents DEF FoldClosed
<1>2. FoldsOnly(e)
  BY <1>1, FoldStep
<1>3. /\ Typed' /\ ~ item'.seen.open
      /\ item'.local = "recommended" => item.local = "recommended"
  BY <1>1, <1>2 DEF IInv, Typed, TypedLog, FoldsOnly, LocalState, Decision, Watermark
<1>4. TurnInv'
  BY <1>1, <1>2, TurnsAfterFold
<1>5. \A c \in Command : Reset(c) # e
  BY EventFields
<1> HIDE DEF e
<1>6. RerunInv'
  BY <1>1, <1>2, <1>3, <1>5 DEF IInv, RerunInv, FoldsOnly, Live
<1>7. OneLiveRec'
  BY <1>1 DEF IInv, OneLiveRec, Live
<1>8. RecommendedHasCurrentRec'
  BY <1>3 DEF RecommendedHasCurrentRec
<1>9. QED
  BY <1>2, <1>3, <1>4, <1>6, <1>7, <1>8 DEF IInv, FoldsOnly

LEMMA StepFoldDecided ==
  ASSUME IInv, NEW c \in Command, NEW d \in Decision, FoldDecided(c, d)
  PROVE  IInv'
<1> DEFINE e == Decided(c, d)
           children == IF d = "snoozed" THEN {Wake(c)} ELSE {}
<1>1. /\ NextDue(e) /\ Commit(e, children, <<>>) /\ e \in ItemEvent
      /\ item' = [item EXCEPT !.local = d, !.until = IF d = "snoozed" THEN c ELSE @]
      /\ UNCHANGED <<recs, mark>>
  BY EventsAreEvents DEF FoldDecided
<1>2. children = {} \/ \E b \in Command : children = {Wake(b)}
  OBVIOUS
<1> HIDE DEF children, e
<1>3. FoldsOnly(e)
  BY <1>1, <1>2, FoldStep
<1>4. Typed' /\ item'.local # "recommended"
  BY <1>1, <1>3 DEF IInv, Typed, TypedLog, FoldsOnly, LocalState, Decision
<1>5. QED
  BY <1>1, <1>3, <1>4, ShownOtherwise DEF Live

LEMMA StepFoldWakeOrReset ==
  ASSUME IInv, NEW c \in Command, FoldWake(c) \/ FoldReset(c)
  PROVE  IInv'
<1>1. PICK e \in {Wake(c), Reset(c)} :
        /\ NextDue(e) /\ Commit(e, {}, AttentionPolicy("new", TRUE, e))
        /\ item' \in {[item EXCEPT !.local = "new", !.until = None],
                      [item EXCEPT !.local = "new"]}
        /\ UNCHANGED <<recs, mark>>
  BY DEF FoldWake, FoldReset
<1>2. e \in Asking /\ e \in ItemEvent /\ AttentionPolicy("new", TRUE, e) = <<e>>
  BY EventsAreEvents DEF AttentionPolicy
<1>3. FoldsOnly(e)
  BY <1>1, <1>2, FoldStep
<1>4. Typed' /\ item'.local = "new"
  <2>1. item' \in [local : LocalState, seen : Watermark, until : Command \cup {None}]
    BY <1>1 DEF IInv, Typed, LocalState
  <2>2. QED
    BY <1>1, <1>3, <2>1 DEF IInv, Typed, TypedLog, FoldsOnly
<1>5. QED
  BY <1>1, <1>2, <1>3, <1>4, ShownOtherwise DEF Live

LEMMA StepFoldApproved ==
  ASSUME IInv, NEW x \in Asking, FoldApproved(x)
  PROVE  IInv'
<1> DEFINE e == Approved(x)
<1>1. /\ NextDue(e) /\ Commit(e, {}, <<>>) /\ e \in ItemEvent
      /\ recs' = Supersede({x})
      /\ item' = [item EXCEPT !.local = "approved_pending"]
      /\ UNCHANGED mark
  BY EventsAreEvents DEF FoldApproved
<1> HIDE DEF e
<1>2. FoldsOnly(e)
  BY <1>1, FoldStep
<1>3. Typed' /\ item'.local # "recommended"
  BY <1>1, <1>2, Superseded DEF IInv, Typed, TypedLog, FoldsOnly, LocalState
<1>4. \A y \in Asking : /\ recs'[y] # "none" <=> recs[y] # "none"
                        /\ Live(y)' => Live(y)
  BY <1>1, Superseded DEF IInv, Live
<1>5. QED
  BY <1>1, <1>2, <1>3, <1>4, ShownOtherwise

LEMMA StepFoldSettled ==
  ASSUME IInv, NEW x \in Asking, NEW ok \in BOOLEAN, FoldSettled(x, ok)
  PROVE  IInv'
<1> DEFINE e == Settled(x, ok)
<1>1. /\ NextDue(e) /\ Commit(e, {}, <<>>) /\ e \in ItemEvent
      /\ item' = [item EXCEPT !.local = IF ok THEN "handled" ELSE "action_error"]
      /\ UNCHANGED <<recs, mark>>
  BY EventsAreEvents DEF FoldSettled
<1> HIDE DEF e
<1>2. FoldsOnly(e)
  BY <1>1, FoldStep
<1>3. Typed' /\ item'.local # "recommended"
  BY <1>1, <1>2 DEF IInv, Typed, TypedLog, FoldsOnly, LocalState, Decision
<1>4. QED
  BY <1>1, <1>2, <1>3, ShownOtherwise DEF Live

(* closeRecommendation: the rerun is halfway, or its reset came first and  *)
(* what is shown by now is another.                                        *)
LEMMA StepFoldRerunCloses ==
  ASSUME IInv, NEW c \in Command, NEW x \in Asking, FoldRerunCloses(c, x)
  PROVE  IInv'
<1> DEFINE e == RerunCloses(c, x)
<1>1. /\ NextDue(e) /\ Commit(e, {}, <<>>) /\ e \in ItemEvent
      /\ recs' = Supersede({x}) /\ UNCHANGED <<item, mark>>
  BY EventsAreEvents DEF FoldRerunCloses
<1>2. FoldsOnly(e)
  BY <1>1, FoldStep
<1>3. Typed'
  BY <1>1, <1>2, Superseded DEF IInv, Typed, TypedLog, FoldsOnly
<1>4. \A y \in Asking : /\ recs'[y] # "none" <=> recs[y] # "none"
                        /\ Live(y)' <=> Live(y) /\ y # x
  BY <1>1, Superseded DEF IInv, Live
<1>5. TurnInv'
  BY <1>1, <1>2, <1>4, TurnsAfterFold
<1>6. \A b \in Command : Reset(b) # e
  BY EventFields
<1>7. RerunInv'
  <2> HIDE DEF e
  <2>1. QED
    BY <1>1, <1>2, <1>4, <1>6 DEF IInv, RerunInv, FoldsOnly
<1>8. OneLiveRec'
  BY <1>4 DEF IInv, OneLiveRec
<1>9. RecommendedHasCurrentRec'
  <2> SUFFICES ASSUME item.local = "recommended", item.seen.open, ~ RerunHalfway'
               PROVE  \E y \in Asking : Live(y)' /\ mark'[y] = item.seen
    BY <1>1 DEF RecommendedHasCurrentRec
  <2>1. e \in log /\ e \in log'
    BY <1>2 DEF FoldsOnly, IInv, LoopInv
  <2>2. Reset(c) \in Folded
    <3>1. Reset(c) \in log' /\ queue'[Reset(c)] = NoRow
      BY <2>1 DEF RerunHalfway
    <3>2. Reset(c) \in Folded'
      BY <3>1 DEF Folded, Rows
    <3>3. QED
      BY <1>2, <1>6, <3>2 DEF FoldsOnly
  <2>3. ~ Live(x)
    BY <2>1, <2>2 DEF IInv, RerunInv
  <2>4. ~ RerunHalfway
    BY <1>2, <1>6, HalfwayStays DEF FoldsOnly
  <2>5. PICK y \in Asking : Live(y) /\ mark[y] = item.seen
    BY <2>4 DEF IInv, RecommendedHasCurrentRec
  <2>6. QED
    BY <1>1, <1>4, <2>3, <2>5
<1>10. QED
  BY <1>2, <1>3, <1>5, <1>7, <1>8, <1>9 DEF IInv, FoldsOnly

(* insertRecommendation: the one for what the item shows now is live and   *)
(* alone, any other is on record only.                                     *)
LEMMA StepFoldRecCreated ==
  ASSUME IInv, NEW x \in Asking, FoldRecCreated(x)
  PROVE  IInv'
<1> DEFINE e == RecCreated(x)
<1>1. /\ NextDue(e) /\ Commit(e, {}, <<>>) /\ e \in ItemEvent
      /\ recs' = Insert(x) /\ UNCHANGED mark
      /\ item' = [item EXCEPT !.local = LocalAfter(x)]
  BY EventsAreEvents DEF FoldRecCreated
<1>2. FoldsOnly(e)
  BY <1>1, FoldStep
<1>3. recs[x] = "none"
  BY <1>2 DEF FoldsOnly, IInv, TurnInv, Folded, Typed
<1>4. /\ item' \in [local : LocalState, seen : Watermark, until : Command \cup {None}]
      /\ item'.seen = item.seen /\ item'.local = LocalAfter(x)
  BY <1>1 DEF IInv, Typed, LocalAfter, LocalState
<1>5. /\ recs' \in [Asking -> {"none", "live", "superseded"}]
      /\ \A y \in Asking : y # x => /\ recs'[y] # "none" <=> recs[y] # "none"
                                    /\ Live(y)' => Live(y)
      /\ recs'[x] # "none"
      /\ mark[x] # item.seen => \A y \in Asking : Live(y)' <=> Live(y)
      /\ mark[x] = item.seen => \A y \in Asking : Live(y)' <=> y = x
  <2>1. CASE mark[x] = item.seen
    <3>1. recs' = [Supersede(Asking) EXCEPT ![x] = "live"]
      BY <1>1, <2>1 DEF Insert
    <3>2. QED
      BY <2>1, <3>1, Superseded DEF IInv, Live
  <2>2. CASE mark[x] # item.seen
    <3>1. recs' = [recs EXCEPT ![x] = "superseded"]
      BY <1>1, <2>2 DEF Insert
    <3>2. QED
      BY <1>3, <2>2, <3>1 DEF IInv, Live, Typed
  <2>3. QED
    BY <2>1, <2>2
<1>6. Typed'
  BY <1>1, <1>2, <1>4, <1>5 DEF IInv, Typed, TypedLog, FoldsOnly
<1>7. TurnInv'
  <2>1. \A y \in Asking : recs'[y] # "none" => recs[y] # "none" \/ e = RecCreated(y)
    BY <1>5
  <2>2. QED
    BY <1>1, <1>2, <2>1, TurnsAfterFold
<1>8. \A b \in Command : Reset(b) # e
  BY EventFields
<1>9. RerunInv'
  <2> SUFFICES ASSUME NEW c \in Command, NEW y \in Asking, RerunCloses(c, y) \in log
               PROVE  /\ recs'[y] # "none"
                      /\ Reset(c) \in Folded' /\ item'.local = "recommended" => ~ Live(y)'
    BY <1>2 DEF RerunInv, FoldsOnly
  <2>1. recs[y] # "none" /\ y # x
    BY <1>3 DEF IInv, RerunInv
  <2>2. Reset(c) \in Folded' => Reset(c) \in Folded
    BY <1>2, <1>8 DEF FoldsOnly
  <2>3. CASE mark[x] = item.seen
    BY <1>5, <2>1, <2>3
  <2>4. CASE mark[x] # item.seen
    <3>1. item'.local = item.local
      BY <1>4, <2>4 DEF LocalAfter
    <3>2. QED
      BY <1>5, <2>1, <2>2, <2>4, <3>1 DEF IInv, RerunInv
  <2>5. QED
    BY <2>3, <2>4
<1>10. OneLiveRec'
  BY <1>5 DEF IInv, OneLiveRec
<1>11. RecommendedHasCurrentRec'
  <2> SUFFICES ASSUME item'.local = "recommended", item'.seen.open, ~ RerunHalfway'
               PROVE  \E y \in Asking : Live(y)' /\ mark'[y] = item'.seen
    BY DEF RecommendedHasCurrentRec
  <2>1. CASE mark[x] = item.seen
    BY <1>1, <1>4, <1>5, <2>1
  <2>2. CASE mark[x] # item.seen
    <3>1. item.local = "recommended" /\ item.seen.open
      BY <1>4, <2>2 DEF LocalAfter
    <3>2. ~ RerunHalfway
      BY <1>2, <1>8, HalfwayStays DEF FoldsOnly
    <3>3. PICK y \in Asking : Live(y) /\ mark[y] = item.seen
      BY <3>1, <3>2 DEF IInv, RecommendedHasCurrentRec
    <3>4. QED
      BY <1>1, <1>4, <1>5, <2>2, <3>3
  <2>3. QED
    BY <2>1, <2>2
<1>12. QED
  BY <1>2, <1>6, <1>7, <1>9, <1>10, <1>11 DEF IInv, FoldsOnly

-----------------------------------------------------------------------------
(* What follows                                                            *)

LEMMA InitIInv == Init => IInv
<1> SUFFICES ASSUME Init
             PROVE  IInv
  OBVIOUS
<1>1. Rows = {} /\ log = {} /\ Folded = {}
  BY DEF Init, LoopInit, Rows, Folded
<1>2. LoopMemory(Asking, pendingEffects, inFlight, MaxConcurrency) /\ Memory = {}
  BY EmptyMemory, LimitIsNat DEF Init, LoopInit, Memory
<1>3. item \in [local : LocalState, seen : Watermark, until : Command \cup {None}]
  BY TriageAssumption DEF Init, LocalState, Watermark
<1>4. Typed
  BY <1>3 DEF Init, LoopInit, Typed, NoRow, Status
<1>5. TurnInv /\ RerunInv
  BY <1>1, <1>2 DEF Init, TurnInv, RerunInv
<1>6. OneLiveRec /\ RecommendedHasCurrentRec
  BY DEF Init, OneLiveRec, RecommendedHasCurrentRec, Live
<1>7. QED
  BY <1>1, <1>2, <1>4, <1>5, <1>6 DEF IInv, LoopInv

LEMMA NextIInv ==
  ASSUME IInv, [Next]_vars
  PROVE  IInv'
<1>1. CASE Fold
  BY <1>1, StepFoldSource, StepFoldClosed, StepFoldDecided, StepFoldWakeOrReset,
     StepFoldRerunCloses, StepFoldRecCreated, StepFoldApproved, StepFoldSettled DEF Fold
<1>2. CASE \E c \in Command, x \in Asking : Rerun(c, x)
  BY <1>2, StepRerun
<1>3. CASE \E x \in Asking : Returns(x) \/ TurnFails(x)
  BY <1>3, TurnEnds DEF Returns
<1>4. QED
  BY <1>1, <1>2, <1>3, UserAndSource, DaemonSteps DEF Next

LEMMA AlwaysIInv == Spec => []IInv
<1>1. IInv /\ [Next]_vars => IInv'
  BY NextIInv
<1>2. QED
  BY InitIInv, <1>1, PTL DEF Spec

(* An item has one live recommendation, however many turns of it are in    *)
(* flight, in whatever order they answer (insertRecommendation).           *)
THEOREM RecsAreAlone == Spec => []OneLiveRec
<1>1. IInv => OneLiveRec
  BY DEF IInv
<1>2. QED
  BY AlwaysIInv, <1>1, PTL

(* What is shown as recommended is live and made for the activity that the *)
(* item shows, through new activity, reruns whose halves change places,    *)
(* retries, and deaths of the daemon: a turn reads the item once, and its  *)
(* answer counts against what the item is by then.                         *)
THEOREM ShownIsCurrent == Spec => []RecommendedHasCurrentRec
<1>1. IInv => RecommendedHasCurrentRec
  BY DEF IInv
<1>2. QED
  BY AlwaysIInv, <1>1, PTL
=============================================================================
