--------------------------- MODULE Approval_proofs ---------------------------
(***************************************************************************)
(* Proofs about Approval, for every set of recommendations, options and    *)
(* actions, every offer, and any number of failures and deaths.            *)
(***************************************************************************)
EXTENDS Approval, EventLoop_proofs

-----------------------------------------------------------------------------
(* The inductive invariant                                                 *)

Rows == {e \in ApprovalEvent : queue[e] # NoRow}

(* Committed: in the log, and its row is gone.                             *)
Folded == log \ Rows

Memory == Range(pendingEffects) \cup inFlight

(* What an approval has fanned out waits to be folded; some of it works;   *)
(* some of it has reported.                                                *)
FanningOut(r) == JobCreated(r) \in Rows \/ \E x \in Action : ActionCreated(r, x) \in Rows

Working(r) == FixEffect(r) \in inFlight \/ \E x \in Action : ActionEffect(r, x) \in inFlight

Reported(r) ==
  \/ JobWaits(r) \in log
  \/ \E ok \in BOOLEAN : \/ JobClosed(r, ok) \in log
                         \/ \E x \in Action : ActionClosed(r, x, ok) \in log

Typed ==
  /\ log \subseteq ApprovalEvent
  /\ queue \in [ApprovalEvent -> [status : Status, wait : Int, attempts : Nat]]
  /\ pc \in {"down", "idle", "batch"}
  /\ approved \in [Rec -> Option \cup {None}]
  /\ results \in [Rec -> [Action -> {"none", "running", "succeeded", "failed"}]]
  /\ job \in [Rec -> {"none", "open", "waiting", "succeeded", "failed"}]
  /\ item \in [Rec -> {"recommended", "approved_pending", "handled", "action_error"}]
  /\ execs \in [Rec -> [Action -> Nat]]
  /\ faults \in Nat

(* The memory holds every effect once, and nothing while the daemon is     *)
(* down; every row has its fact.                                           *)
LoopInv ==
  /\ LoopMemory(ApprovalEffect, pendingEffects, inFlight, MaxConcurrency)
  /\ acted \subseteq inFlight /\ \A r \in Rec : FixEffect(r) \notin acted
  /\ pc = "down" => Memory = {}
  /\ Rows \subseteq log

(* The log has one approval per recommendation, of an option it offers,    *)
(* and the table has that option once the approval is folded.              *)
GrantInv ==
  \A r \in Rec :
    /\ \A o, p \in Option : ApprovalCreated(r, o) \in log /\ ApprovalCreated(r, p) \in log => o = p
    /\ \A o \in Option : ApprovalCreated(r, o) \in log => o \in Offers[r]
    /\ approved[r] # None => ApprovalCreated(r, approved[r]) \in Folded

(* Work has its records: an effect in memory that of its action or job,    *)
(* folded; these in turn the approval of an option that has them.          *)
OriginInv ==
  \A r \in Rec :
    /\ \A x \in Action :
         /\ ActionCreated(r, x) \in log =>
              approved[r] # None /\ x \in ActionsOf[approved[r]]
         /\ results[r][x] # "none" <=> ActionCreated(r, x) \in Folded
         /\ ActionEffect(r, x) \in Memory => ActionCreated(r, x) \in Folded
    /\ JobCreated(r) \in log => approved[r] # None
    /\ job[r] # "none" <=> JobCreated(r) \in Folded
    /\ FixEffect(r) \in Memory => JobCreated(r) \in Folded

(* An effect still to happen has not happened.                             *)
OnceInv ==
  \A r \in Rec, x \in Action :
    /\ execs[r][x] <= 1
    /\ execs[r][x] > 0 => ActionCreated(r, x) \in Folded
    /\ ActionEffect(r, x) \in Memory \ acted => execs[r][x] = 0

GateInv == LoopInv /\ GrantInv /\ OriginInv /\ OnceInv

(* An action reports once, and is running in the table until the report is *)
(* folded.                                                                 *)
ActionInv ==
  \A r \in Rec, x \in Action :
    /\ \A j, k \in BOOLEAN :
         ActionClosed(r, x, j) \in log /\ ActionClosed(r, x, k) \in log => j = k
    /\ \A ok \in BOOLEAN :
         /\ ActionEffect(r, x) \in Memory =>
              results[r][x] = "running" /\ ActionClosed(r, x, ok) \notin log
         /\ ActionClosed(r, x, ok) \in Rows => results[r][x] = "running"
         /\ ActionClosed(r, x, ok) \in log => ActionCreated(r, x) \in Folded

(* A job may report that it waits, and then that it is closed, once and    *)
(* well; else it is closed once.                                           *)
JobInv ==
  \A r \in Rec :
    /\ \A j, k \in BOOLEAN : JobClosed(r, j) \in log /\ JobClosed(r, k) \in log => j = k
    /\ FixEffect(r) \in Memory => job[r] = "open" /\ JobWaits(r) \notin log
    /\ JobWaits(r) \in Rows => job[r] = "open"
    /\ job[r] = "waiting" => JobWaits(r) \in log
    /\ JobWaits(r) \in log => JobClosed(r, FALSE) \notin log /\ JobCreated(r) \in Folded
    /\ \A ok \in BOOLEAN :
         /\ FixEffect(r) \in Memory \/ JobWaits(r) \in Rows => JobClosed(r, ok) \notin log
         /\ JobClosed(r, ok) \in Rows => job[r] \in {"open", "waiting"}
         /\ JobClosed(r, ok) \in log => JobCreated(r) \in Folded

(* The actions of an approved option are in the log with it.               *)
FanOutInv ==
  \A r \in Rec : approved[r] # None =>
    \A x \in ActionsOf[approved[r]] : ActionCreated(r, x) \in log

(* The table has an outcome that the log has.                              *)
OutcomeInv ==
  \A r \in Rec, ok \in BOOLEAN :
    item[r] = (IF ok THEN "handled" ELSE "action_error") => Settled(r, ok) \in log

WorkInv == ActionInv /\ JobInv /\ FanOutInv /\ OutcomeInv

(* As long as no transaction failed, every row is due: what fanned out is  *)
(* folded before the first effect of it starts.                            *)
RowsAreFresh == \A e \in ApprovalEvent : queue[e] \in {NoRow, FreshRow(e)}

FanOutIsFolded ==
  \A r \in Rec :
    /\ FanningOut(r) /\ pc # "batch" => Memory = {}
    /\ Working(r) \/ Reported(r) => ~ FanningOut(r)

(* ... so that whoever settles has seen all of the work.                   *)
Ground(r, ok) ==
  IF ok THEN job[r] = "succeeded" \/ \A x \in RequiredOf(r) : results[r][x] = "succeeded"
        ELSE job[r] = "failed" \/ \E x \in RequiredOf(r) : results[r][x] = "failed"

SettledInv ==
  \A r \in Rec :
    /\ \A j, k \in BOOLEAN : Settled(r, j) \in log /\ Settled(r, k) \in log => j = k
    /\ \A ok \in BOOLEAN : Settled(r, ok) \in log =>
         Reported(r) /\ ~ Running(r) /\ job[r] \notin {"open", "waiting"} /\ Ground(r, ok)

SmoothInv == faults = 0 => RowsAreFresh /\ FanOutIsFolded /\ SettledInv

IInv == Typed /\ GateInv /\ WorkInv /\ SmoothInv

-----------------------------------------------------------------------------
(* Events and effects                                                      *)

LEMMA EventsAreEvents ==
  /\ \A r \in Rec, o \in Option : ApprovalCreated(r, o) \in ApprovalEvent
  /\ \A r \in Rec, x \in Action : ActionCreated(r, x) \in ApprovalEvent
  /\ \A r \in Rec, x \in Action, ok \in BOOLEAN : ActionClosed(r, x, ok) \in ApprovalEvent
  /\ \A r \in Rec : JobCreated(r) \in ApprovalEvent
  /\ \A r \in Rec : JobWaits(r) \in ApprovalEvent
  /\ \A r \in Rec, ok \in BOOLEAN : JobClosed(r, ok) \in ApprovalEvent
  /\ \A r \in Rec, ok \in BOOLEAN : Settled(r, ok) \in ApprovalEvent
  /\ \A r \in Rec, x \in Action : ActionEffect(r, x) \in ApprovalEffect
  /\ \A r \in Rec : FixEffect(r) \in ApprovalEffect
<1>1. \A r \in Rec, o \in Option : ApprovalCreated(r, o) \in ApprovalEvent
  BY DEF ApprovalEvent
<1>2. \A r \in Rec, x \in Action : ActionCreated(r, x) \in ApprovalEvent
  BY DEF ApprovalEvent
<1>3. \A r \in Rec, x \in Action, ok \in BOOLEAN : ActionClosed(r, x, ok) \in ApprovalEvent
  BY DEF ApprovalEvent
<1>4. \A r \in Rec : JobCreated(r) \in ApprovalEvent /\ JobWaits(r) \in ApprovalEvent
  BY DEF ApprovalEvent
<1>5. \A r \in Rec, ok \in BOOLEAN :
        JobClosed(r, ok) \in ApprovalEvent /\ Settled(r, ok) \in ApprovalEvent
  BY DEF ApprovalEvent
<1>6. /\ \A r \in Rec, x \in Action : ActionEffect(r, x) \in ApprovalEffect
      /\ \A r \in Rec : FixEffect(r) \in ApprovalEffect
  BY DEF ApprovalEffect
<1>7. QED
  BY <1>1, <1>2, <1>3, <1>4, <1>5, <1>6

LEMMA EventFields ==
  /\ \A r, o : LET e == ApprovalCreated(r, o) IN
       e.type = "approval.created" /\ e.rec = r /\ e.option = o
  /\ \A r, x : LET e == ActionCreated(r, x) IN
       e.type = "action.created" /\ e.rec = r /\ e.action = x
  /\ \A r, x, ok : LET e == ActionClosed(r, x, ok) IN
       e.type = "action.closed" /\ e.rec = r /\ e.action = x /\ e.ok = ok
  /\ \A r : LET e == JobCreated(r) IN e.type = "job.created" /\ e.rec = r
  /\ \A r : LET e == JobWaits(r) IN e.type = "job.updated" /\ e.rec = r
  /\ \A r, ok : LET e == JobClosed(r, ok) IN
       e.type = "job.closed" /\ e.rec = r /\ e.ok = ok
  /\ \A r, ok : LET e == Settled(r, ok) IN
       e.type = "item.updated" /\ e.rec = r /\ e.ok = ok
  /\ \A r, x : LET f == ActionEffect(r, x) IN
       f.kind = "action" /\ f.rec = r /\ f.action = x
  /\ \A r : LET f == FixEffect(r) IN f.kind = "fix" /\ f.rec = r
BY DEF ApprovalCreated, ActionCreated, ActionClosed, JobCreated, JobWaits, JobClosed, Settled,
   ActionEffect, FixEffect

(* A key turns away the second approval only, and the depth nothing.       *)
LEMMA KeysAndDepths ==
  /\ \A e \in ApprovalEvent :
       /\ EventDepth[e] <= 32
       /\ e.type \notin {"approval.created", "item.updated"} => EventKey[e] = None
  /\ \A r \in Rec, o \in Option : EventKey[ApprovalCreated(r, o)] = <<"approval", r>>
<1>1. \A e \in ApprovalEvent : EventDepth[e] <= 32
  BY DEF EventDepth
<1>2. \A e \in ApprovalEvent :
        e.type \notin {"approval.created", "item.updated"} => EventKey[e] = None
  BY DEF EventKey
<1>3. ASSUME NEW r \in Rec, NEW o \in Option
      PROVE  EventKey[ApprovalCreated(r, o)] = <<"approval", r>>
  BY EventsAreEvents, EventFields DEF EventKey
<1>4. QED
  BY <1>1, <1>2, <1>3

-----------------------------------------------------------------------------
(* What the loop does to the tables and the memory                         *)

TypedLog ==
  /\ log \subseteq ApprovalEvent
  /\ queue \in [ApprovalEvent -> [status : Status, wait : Int, attempts : Nat]]

LEMMA KeylessAccepted ==
  ASSUME Typed, NEW e \in ApprovalEvent, e.type \notin {"approval.created", "item.updated"}
  PROVE  Accepts(e) <=> e \notin log
BY KeysAndDepths DEF Accepts, Duplicate

LEMMA FreshRowTyped ==
  ASSUME NEW e \in ApprovalEvent
  PROVE  /\ FreshRow(e) \in [status : Status, wait : Int, attempts : Nat]
         /\ FreshRow(e) # NoRow
         /\ FreshRow(e) = [status |-> "pending", wait |-> 0, attempts |-> 0]
BY DEF FreshRow, NoRow, Status

(* enqueue of one fact: a row of its own, or nothing.                      *)
LEMMA EnqueueRows ==
  ASSUME Typed, NEW e \in ApprovalEvent, Enqueue({e})
  PROVE  /\ TypedLog' /\ (RowsAreFresh => RowsAreFresh')
         /\ \/ ~ Accepts(e) /\ UNCHANGED <<log, queue>>
            \/ Accepts(e) /\ e \notin log /\ log' = log \cup {e} /\ Rows' = Rows \cup {e}
<1>1. CASE Accepts(e)
  <2>1. Fresh({e}) = {e} /\ e \notin log
    BY <1>1 DEF Fresh, Accepts, Duplicate
  <2>2. /\ log' = log \cup {e}
        /\ queue' = [f \in ApprovalEvent |-> IF f = e THEN FreshRow(e) ELSE queue[f]]
    BY <2>1 DEF Enqueue
  <2>3. TypedLog'
    BY <2>2, FreshRowTyped DEF Typed, TypedLog
  <2>4. Rows' = Rows \cup {e}
    BY <2>2, FreshRowTyped DEF Rows, Typed
  <2>5. RowsAreFresh => RowsAreFresh'
    BY <2>2 DEF RowsAreFresh
  <2>6. QED
    BY <1>1, <2>1, <2>2, <2>3, <2>4, <2>5
<1>2. CASE ~ Accepts(e)
  <2>1. Fresh({e}) = {}
    BY <1>2 DEF Fresh
  <2>2. UNCHANGED <<log, queue>>
    BY <2>1 DEF Enqueue, Typed
  <2>3. TypedLog' /\ (RowsAreFresh => RowsAreFresh')
    BY <2>2 DEF Typed, TypedLog, RowsAreFresh, FreshRow
  <2>4. QED
    BY <1>2, <2>2, <2>3
<1>3. QED
  BY <1>1, <1>2

(* A commit takes its row away and adds those of the children that are new.*)
LEMMA CommitRows ==
  ASSUME Typed, Rows \subseteq log, NEW e \in ApprovalEvent, NextDue(e),
         NEW children \in SUBSET ApprovalEvent, NEW effects, Commit(e, children, effects)
  PROVE  LET new == Fresh(children) IN
         /\ TypedLog' /\ (RowsAreFresh => RowsAreFresh')
         /\ e \in Rows
         /\ new \subseteq children /\ new \cap log = {}
         /\ log' = log \cup new /\ Rows' = (Rows \ {e}) \cup new
         /\ \A c \in children :
              c.type \notin {"approval.created", "item.updated"} => c \in log'
         /\ pc = "batch" /\ UNCHANGED <<pc, inFlight>>
         /\ pendingEffects' = pendingEffects \o effects
<1> DEFINE new == Fresh(children)
<1>1. /\ pc = "batch" /\ UNCHANGED <<pc, inFlight>>
      /\ pendingEffects' = pendingEffects \o effects
      /\ log' = log \cup new
      /\ queue' = [f \in ApprovalEvent |-> IF f = e THEN NoRow
                                           ELSE IF f \in new THEN FreshRow(f) ELSE queue[f]]
  BY DEF Commit
<1>2. e \in Rows
  BY DEF NextDue, Due, Pending, Rows, NoRow
<1>3. new \subseteq children /\ new \cap log = {}
  BY DEF Fresh, Accepts, Duplicate
<1>4. \A c \in children : c.type \notin {"approval.created", "item.updated"} => c \in log'
  BY <1>1, KeylessAccepted DEF Fresh
<1>5. e \notin new
  BY <1>2, <1>3
<1> HIDE DEF new
<1>6. NoRow \in [status : Status, wait : Int, attempts : Nat]
  BY DEF NoRow, Status
<1>7. TypedLog'
  BY <1>1, <1>3, <1>6, FreshRowTyped DEF Typed, TypedLog
<1>8. Rows' = (Rows \ {e}) \cup new
  BY <1>1, <1>3, <1>5, FreshRowTyped DEF Typed, Rows
<1>9. RowsAreFresh => RowsAreFresh'
  BY <1>1 DEF RowsAreFresh
<1>10. QED
  BY <1>1, <1>2, <1>3, <1>4, <1>7, <1>8, <1>9 DEF new

(* A failed attempt and time keep every row where it is.                   *)
LEMMA QuietRows ==
  ASSUME Typed, \/ \E e \in ApprovalEvent : NextDue(e) /\ RecordFailure(e)
                \/ Tick
                \/ UNCHANGED <<log, queue>>
  PROVE  TypedLog' /\ Rows' = Rows
<1>1. CASE UNCHANGED <<log, queue>>
  BY <1>1 DEF Typed, TypedLog, Rows
<1>2. CASE Tick
  <2>1. log' = log /\ \A f \in ApprovalEvent :
          queue'[f] = IF Pending(f) THEN [queue[f] EXCEPT !.wait = @ - 1] ELSE queue[f]
    BY <1>2 DEF Tick
  <2>2. ASSUME NEW f \in ApprovalEvent
        PROVE  /\ queue'[f] \in [status : Status, wait : Int, attempts : Nat]
               /\ queue'[f] # NoRow <=> queue[f] # NoRow
    <3>1. queue[f] \in [status : Status, wait : Int, attempts : Nat]
      BY DEF Typed
    <3>2. CASE Pending(f)
      <4>1. queue'[f] = [queue[f] EXCEPT !.wait = @ - 1] /\ queue[f].status = "pending"
        BY <2>1, <3>2 DEF Pending
      <4>2. /\ queue'[f] \in [status : Status, wait : Int, attempts : Nat]
            /\ queue'[f].status = "pending"
        BY <3>1, <4>1
      <4>3. QED
        BY <4>1, <4>2 DEF NoRow
    <3>3. CASE ~ Pending(f)
      BY <2>1, <3>1, <3>3
    <3>4. QED
      BY <3>2, <3>3
  <2>3. TypedLog'
    BY <1>2, <2>1, <2>2 DEF Typed, TypedLog, Tick
  <2>4. QED
    BY <2>2, <2>3 DEF Rows
<1>3. ASSUME NEW e \in ApprovalEvent, NextDue(e), RecordFailure(e)
      PROVE  TypedLog' /\ Rows' = Rows
  <2> DEFINE n == queue[e].attempts + 1
             row == IF n >= MaxAttempts
                      THEN [status |-> "dead_letter", wait |-> 0, attempts |-> n]
                      ELSE [status |-> "pending", wait |-> RetryAfter[n], attempts |-> n]
  <2>1. log' = log /\ queue' = [queue EXCEPT ![e] = row]
    BY <1>3 DEF RecordFailure
  <2>2. n \in Nat \ {0} /\ (~ n >= MaxAttempts => RetryAfter[n] \in Int)
    BY ApprovalAssumption DEF LoopAssumption, Typed
  <2>3. row \in [status : Status, wait : Int, attempts : Nat] /\ row # NoRow
    BY <2>2 DEF Status, NoRow
  <2>4. queue[e] # NoRow
    BY <1>3 DEF NextDue, Due, Pending, NoRow
  <2> HIDE DEF row
  <2>5. TypedLog'
    BY <2>1, <2>3 DEF Typed, TypedLog
  <2>6. Rows' = Rows
    BY <2>1, <2>3, <2>4 DEF Typed, Rows
  <2>7. QED
    BY <2>5, <2>6
<1>4. QED
  BY <1>1, <1>2, <1>3

(* pumpEffects, once what left the pool has left it.                       *)
LEMMA PumpKeepsMemory ==
  ASSUME LoopMemory(ApprovalEffect, pendingEffects, inFlight, MaxConcurrency),
         NEW rest \in SUBSET inFlight, Pump(pendingEffects, rest)
  PROVE  /\ LoopMemory(ApprovalEffect, pendingEffects, inFlight, MaxConcurrency)'
         /\ Memory' = Range(pendingEffects) \cup rest
         /\ rest \subseteq inFlight'
<1>1. MaxConcurrency \in Nat
  BY ApprovalAssumption DEF LoopAssumption
<1> DEFINE n == Startable(pendingEffects, rest)
<1>2. /\ IsFiniteSet(inFlight) /\ Cardinality(inFlight) <= MaxConcurrency
      /\ pendingEffects \in Seq(ApprovalEffect)
  BY DEF LoopMemory
<1>3. Cardinality(rest) \in Nat /\ Cardinality(rest) <= MaxConcurrency
  BY <1>1, <1>2, FS_Subset, FS_CardinalityType
<1>4. /\ n \in 0..Len(pendingEffects) /\ n <= MaxConcurrency - Cardinality(rest)
      /\ n < Len(pendingEffects) => n = MaxConcurrency - Cardinality(rest)
  BY <1>1, <1>2, <1>3 DEF Startable, Room
<1>5. /\ inFlight' = rest \cup {pendingEffects[i] : i \in 1..n}
      /\ pendingEffects' = SubSeq(pendingEffects, n + 1, Len(pendingEffects))
  BY DEF Pump
<1> HIDE DEF n
<1>6. Pumped(ApprovalEffect, pendingEffects, rest, MaxConcurrency, n, inFlight', pendingEffects')
  BY <1>2, <1>4, <1>5 DEF Pumped
<1>7. LoopMemory(ApprovalEffect, pendingEffects', inFlight', MaxConcurrency)
  BY <1>1, <1>6, PumpMoves
<1>8. Range(pendingEffects') \cup inFlight' = Range(pendingEffects) \cup rest
  BY <1>1, <1>6, PumpMoves
<1>9. rest \subseteq inFlight'
  BY <1>6 DEF Pumped
<1>10. QED
  BY <1>7, <1>8, <1>9 DEF Memory

-----------------------------------------------------------------------------
(* What a step shows of the log and the rows                               *)

(* Nothing: no fact, no row, no change of the tables, no new effect.       *)
LEMMA QuietSteps ==
  ASSUME GateInv, WorkInv, LoopInv',
         log' = log, Rows' = Rows, UNCHANGED <<approved, results, job, item, execs>>,
         Memory' \subseteq Memory, Memory' \ acted' \subseteq Memory \ acted
  PROVE  GateInv' /\ WorkInv'
<1>1. Folded' = Folded
  BY DEF Folded
<1>2. GrantInv'
  BY <1>1 DEF GateInv, GrantInv
<1>3. OriginInv'
  BY <1>1 DEF GateInv, OriginInv
<1>4. OnceInv'
  BY <1>1 DEF GateInv, OnceInv
<1>5. ActionInv'
  BY <1>1 DEF WorkInv, ActionInv
<1>6. JobInv'
  BY <1>1 DEF WorkInv, JobInv
<1>7. FanOutInv' /\ OutcomeInv'
  BY DEF WorkInv, FanOutInv, OutcomeInv
<1>8. QED
  BY <1>2, <1>3, <1>4, <1>5, <1>6, <1>7 DEF GateInv, WorkInv

(* A new fact, from outside or from an effect that ends with it.           *)
Posted(e) ==
  /\ e \notin log /\ log' = log \cup {e} /\ Rows' = Rows \cup {e}
  /\ UNCHANGED <<approved, results, job, item, execs>>
  /\ Memory' \subseteq Memory /\ Memory' \ acted' \subseteq Memory \ acted

LEMMA PostedKeepsFolded ==
  ASSUME NEW e, Rows \subseteq log, Posted(e)
  PROVE  Folded' = Folded
BY DEF Posted, Folded

(* approve: the key turns away all but the first of a recommendation.      *)
LEMMA ApprovalPosted ==
  ASSUME Typed, GateInv, WorkInv, LoopInv',
         NEW r \in Rec, NEW o \in Offers[r], o \in Option,
         Accepts(ApprovalCreated(r, o)), Posted(ApprovalCreated(r, o))
  PROVE  GateInv' /\ WorkInv'
<1> DEFINE e == ApprovalCreated(r, o)
<1> USE DEF Posted
<1>1. Folded' = Folded
  BY PostedKeepsFolded DEF GateInv, LoopInv
<1>2. \A p \in Option : ApprovalCreated(r, p) \notin log
  BY KeysAndDepths, ApprovalAssumption DEF Accepts, Duplicate
<1>3. /\ \A q, p : ApprovalCreated(q, p) = e => q = r /\ p = o
      /\ \A q, y : ActionCreated(q, y) # e
      /\ \A q, y, k : ActionClosed(q, y, k) # e
      /\ \A q : JobCreated(q) # e /\ JobWaits(q) # e
      /\ \A q, k : JobClosed(q, k) # e
  BY EventFields
<1>4. GrantInv'
  BY <1>1, <1>2, <1>3 DEF GateInv, GrantInv
<1>5. OriginInv'
  BY <1>1, <1>3 DEF GateInv, OriginInv
<1>6. OnceInv'
  BY <1>1 DEF GateInv, OnceInv
<1>7. ActionInv'
  BY <1>1, <1>3 DEF WorkInv, ActionInv
<1>8. JobInv'
  BY <1>1, <1>3 DEF WorkInv, JobInv
<1>9. FanOutInv' /\ OutcomeInv'
  BY DEF WorkInv, FanOutInv, OutcomeInv
<1>10. QED
  BY <1>4, <1>5, <1>6, <1>7, <1>8, <1>9 DEF GateInv, WorkInv

(* An action reports as it leaves the memory.                              *)
LEMMA ActionReported ==
  ASSUME Typed, GateInv, WorkInv, LoopInv',
         NEW r \in Rec, NEW x \in Action, NEW ok \in BOOLEAN,
         ActionEffect(r, x) \in Memory, ActionEffect(r, x) \notin Memory',
         Posted(ActionClosed(r, x, ok))
  PROVE  GateInv' /\ WorkInv'
<1> DEFINE e == ActionClosed(r, x, ok)
<1> USE DEF Posted
<1>1. Folded' = Folded
  BY PostedKeepsFolded DEF GateInv, LoopInv
<1>2. /\ results[r][x] = "running" /\ ActionCreated(r, x) \in Folded
      /\ \A k \in BOOLEAN : ActionClosed(r, x, k) \notin log
  BY DEF GateInv, OriginInv, WorkInv, ActionInv
<1>3. /\ \A q, p : ApprovalCreated(q, p) # e
      /\ \A q, y : ActionCreated(q, y) # e
      /\ \A q, y, k : ActionClosed(q, y, k) = e => q = r /\ y = x /\ k = ok
      /\ \A q : JobCreated(q) # e /\ JobWaits(q) # e
      /\ \A q, k : JobClosed(q, k) # e
  BY EventFields
<1>4. GrantInv'
  BY <1>1, <1>3 DEF GateInv, GrantInv
<1>5. OriginInv'
  BY <1>1, <1>3 DEF GateInv, OriginInv
<1>6. OnceInv'
  BY <1>1 DEF GateInv, OnceInv
<1>7. ActionInv'
  <2> SUFFICES ASSUME NEW q \in Rec, NEW y \in Action, NEW k \in BOOLEAN
               PROVE  /\ \A j \in BOOLEAN :
                           ActionClosed(q, y, j) \in log' /\ ActionClosed(q, y, k) \in log' => j = k
                      /\ ActionEffect(q, y) \in Memory' =>
                           results'[q][y] = "running" /\ ActionClosed(q, y, k) \notin log'
                      /\ ActionClosed(q, y, k) \in Rows' => results'[q][y] = "running"
                      /\ ActionClosed(q, y, k) \in log' => ActionCreated(q, y) \in Folded'
    BY DEF ActionInv
  <2>1. CASE q = r /\ y = x
    BY <1>1, <1>2, <1>3, <2>1
  <2>2. CASE ~ (q = r /\ y = x)
    BY <1>1, <1>3, <2>2 DEF WorkInv, ActionInv
  <2>3. QED
    BY <2>1, <2>2
<1>8. JobInv'
  BY <1>1, <1>3 DEF WorkInv, JobInv
<1>9. FanOutInv' /\ OutcomeInv'
  BY DEF WorkInv, FanOutInv, OutcomeInv
<1>10. QED
  BY <1>4, <1>5, <1>6, <1>7, <1>8, <1>9 DEF GateInv, WorkInv

(* A job reports: that it waits, or how it ended; its first report takes   *)
(* the effect out of the memory, and only a waiting job has a second one.  *)
LEMMA JobReported ==
  ASSUME Typed, GateInv, WorkInv, LoopInv', NEW r \in Rec, NEW ok \in BOOLEAN, NEW e,
         \/ FixEffect(r) \in Memory /\ e \in {JobWaits(r), JobClosed(r, ok)}
         \/ job[r] = "waiting" /\ ok /\ e = JobClosed(r, ok),
         FixEffect(r) \notin Memory', Posted(e)
  PROVE  GateInv' /\ WorkInv'
<1> USE DEF Posted
<1>1. Folded' = Folded
  BY PostedKeepsFolded DEF GateInv, LoopInv
<1>2. e = JobWaits(r) \/ e = JobClosed(r, ok)
  OBVIOUS
<1>0. e.type \in {"job.updated", "job.closed"} /\ e.rec = r
  <2>1. CASE e = JobWaits(r)
    BY <2>1, EventFields
  <2>2. CASE e = JobClosed(r, ok)
    BY <2>2, EventFields
  <2>3. QED
    BY <1>2, <2>1, <2>2
<1>3. /\ \A q, p : ApprovalCreated(q, p) # e
      /\ \A q, y : ActionCreated(q, y) # e
      /\ \A q, y, k : ActionClosed(q, y, k) # e
      /\ \A q : JobCreated(q) # e
      /\ \A q : JobWaits(q) = e => q = r
      /\ \A q, k : JobClosed(q, k) = e => q = r
  BY <1>0, EventFields
<1>4. GrantInv'
  BY <1>1, <1>3 DEF GateInv, GrantInv
<1>5. OriginInv'
  BY <1>1, <1>3 DEF GateInv, OriginInv
<1>6. OnceInv'
  BY <1>1 DEF GateInv, OnceInv
<1>7. ActionInv'
  BY <1>1, <1>3 DEF WorkInv, ActionInv
<1>8. JobInv'
  <2> SUFFICES ASSUME NEW q \in Rec, NEW k \in BOOLEAN
               PROVE  /\ \A j \in BOOLEAN : JobClosed(q, j) \in log' /\ JobClosed(q, k) \in log' => j = k
                      /\ FixEffect(q) \in Memory' => job[q] = "open" /\ JobWaits(q) \notin log'
                      /\ JobWaits(q) \in Rows' => job[q] = "open"
                      /\ job[q] = "waiting" => JobWaits(q) \in log'
                      /\ JobWaits(q) \in log' => JobClosed(q, FALSE) \notin log' /\ JobCreated(q) \in Folded'
                      /\ FixEffect(q) \in Memory' \/ JobWaits(q) \in Rows' => JobClosed(q, k) \notin log'
                      /\ JobClosed(q, k) \in Rows' => job[q] \in {"open", "waiting"}
                      /\ JobClosed(q, k) \in log' => JobCreated(q) \in Folded'
    BY DEF JobInv
  <2>1. CASE q # r
    BY <1>1, <1>3, <2>1 DEF WorkInv, JobInv
  <2>2. CASE q = r /\ e = JobWaits(r)
    <3>1. job[r] = "open" /\ JobCreated(r) \in Folded /\ \A j \in BOOLEAN : JobClosed(r, j) \notin log
      BY <2>2, EventFields DEF WorkInv, JobInv, GateInv, OriginInv
    <3>2. \A j : JobClosed(r, j) # e
      BY <2>2, EventFields
    <3>3. QED
      BY <1>1, <2>2, <3>1, <3>2
  <2>3. CASE q = r /\ e = JobClosed(r, ok)
    <3>1. JobWaits(r) # e /\ \A j : JobClosed(r, j) = e => j = ok
      BY <2>3, EventFields
    <3>2. job[r] \in {"open", "waiting"} /\ JobCreated(r) \in Folded /\ JobWaits(r) \notin Rows
      BY <2>3, <3>1 DEF WorkInv, JobInv, GateInv, LoopInv, OriginInv
    <3>3. JobWaits(r) \in log => ok
      BY <2>3, <3>1 DEF WorkInv, JobInv
    <3>4. \A j \in BOOLEAN : JobClosed(r, j) \notin log
      <4>1. CASE FixEffect(r) \in Memory
        BY <4>1 DEF WorkInv, JobInv
      <4>2. CASE ok
        <5>1. JobClosed(r, TRUE) \notin log
          BY <2>3, <4>2
        <5>2. JobClosed(r, FALSE) \notin log
          BY <4>1, <2>3, <3>1 DEF WorkInv, JobInv
        <5>3. QED
          BY <5>1, <5>2
      <4>3. QED
        BY <2>3, <3>1, <4>1, <4>2
    <3>5. QED
      BY <1>1, <2>3, <3>1, <3>2, <3>3, <3>4 DEF WorkInv, JobInv
  <2>4. QED
    BY <1>2, <2>1, <2>2, <2>3
<1>9. FanOutInv' /\ OutcomeInv'
  BY DEF WorkInv, FanOutInv, OutcomeInv
<1>10. QED
  BY <1>4, <1>5, <1>6, <1>7, <1>8, <1>9 DEF GateInv, WorkInv

-----------------------------------------------------------------------------
(* Folding an event                                                        *)

(* Its row goes, and rows of what is new come.                             *)
Took(e, new) ==
  /\ e \in Rows /\ new \cap log = {}
  /\ log' = log \cup new /\ Rows' = (Rows \ {e}) \cup new

LEMMA TookFolds ==
  ASSUME Rows \subseteq log, NEW e, NEW new, Took(e, new)
  PROVE  Folded' = Folded \cup {e} /\ e \notin Folded
BY DEF Took, Folded

(* Nothing but an approval's own fold grants anything or fans out.         *)
LEMMA GrantsStay ==
  ASSUME GrantInv, FanOutInv, Rows \subseteq log, NEW e, NEW new, Took(e, new),
         \A f \in new : f.type = "item.updated", approved' = approved
  PROVE  GrantInv' /\ FanOutInv'
<1>1. Folded \subseteq Folded' /\ log \subseteq log'
  BY TookFolds DEF Took
<1>2. \A q, p : ApprovalCreated(q, p) \in log' => ApprovalCreated(q, p) \in log
  BY EventFields DEF Took
<1>3. GrantInv'
  BY <1>1, <1>2 DEF GrantInv
<1>4. FanOutInv'
  BY <1>1 DEF FanOutInv
<1>5. QED
  BY <1>3, <1>4

(* gateCheck and fanOut: the option is granted, and its work recorded.     *)
LEMMA ApprovalFolded ==
  ASSUME Typed, GateInv, WorkInv, LoopInv', NEW r \in Rec, NEW o \in Option,
         NEW new \in SUBSET FanOut(r, o), Took(ApprovalCreated(r, o), new),
         FanOut(r, o) \subseteq log',
         Memory' = Memory, UNCHANGED <<acted, results, job, execs>>,
         approved' = [approved EXCEPT ![r] = IF @ = None THEN o ELSE @],
         item' = [item EXCEPT ![r] = "approved_pending"]
  PROVE  /\ approved[r] = None /\ approved' = [approved EXCEPT ![r] = o] /\ o \in Offers[r]
         /\ GateInv' /\ WorkInv'
<1> DEFINE e == ApprovalCreated(r, o)
<1>1. Folded' = Folded \cup {e} /\ e \notin Folded /\ e \in log
  BY TookFolds DEF GateInv, LoopInv, Took
<1>2. approved[r] = None /\ o \in Offers[r]
  <2>1. approved[r] # None => approved[r] = o
    BY <1>1 DEF GateInv, GrantInv, Folded, Typed
  <2>2. QED
    BY <1>1, <2>1 DEF GateInv, GrantInv
<1>3. /\ approved' = [approved EXCEPT ![r] = o]
      /\ approved'[r] = o /\ o # None
      /\ \A q \in Rec : q # r => approved'[q] = approved[q] /\ item'[q] = item[q]
      /\ item'[r] = "approved_pending"
  BY <1>2, ApprovalAssumption DEF Typed
<1>4. /\ \A q, p : ApprovalCreated(q, p) \notin new /\ (ApprovalCreated(q, p) = e => q = r /\ p = o)
      /\ \A q, y : /\ ActionCreated(q, y) \in new => q = r /\ y \in ActionsOf[o]
                   /\ ActionCreated(q, y) # e
      /\ \A q, y, k : ActionClosed(q, y, k) \notin new /\ ActionClosed(q, y, k) # e
      /\ \A q : JobCreated(q) # e /\ (JobCreated(q) \in new => q = r)
      /\ \A q : JobWaits(q) \notin new /\ JobWaits(q) # e
      /\ \A q, k : JobClosed(q, k) \notin new /\ JobClosed(q, k) # e
  <2>1. e.type = "approval.created" /\ e.rec = r /\ e.option = o
    BY EventFields
  <2>2. \A f \in new : /\ f.type \in {"action.created", "job.created"} /\ f.rec = r
                       /\ f.type = "action.created" => f.action \in ActionsOf[o]
    BY EventFields DEF FanOut
  <2> HIDE DEF e
  <2>3. QED
    BY <2>1, <2>2, EventFields
<1>5. /\ \A y \in Action : ActionCreated(r, y) \notin log
      /\ JobCreated(r) \notin log
  BY <1>2 DEF GateInv, OriginInv
<1>6. \A y \in ActionsOf[o] : ActionCreated(r, y) \in log'
  BY DEF FanOut
<1>7. log' = log \cup new /\ Rows' = (Rows \ {e}) \cup new /\ new \cap log = {}
  BY DEF Took
<1> HIDE DEF e
<1>8. GrantInv'
  <2> SUFFICES ASSUME NEW q \in Rec
               PROVE  /\ \A a, b \in Option :
                           ApprovalCreated(q, a) \in log' /\ ApprovalCreated(q, b) \in log' => a = b
                      /\ \A a \in Option : ApprovalCreated(q, a) \in log' => a \in Offers[q]
                      /\ approved'[q] # None => ApprovalCreated(q, approved'[q]) \in Folded'
    BY DEF GrantInv
  <2>1. approved'[q] # None => ApprovalCreated(q, approved'[q]) \in Folded'
    BY <1>1, <1>3 DEF GateInv, GrantInv, e
  <2>2. QED
    BY <1>4, <1>7, <2>1 DEF GateInv, GrantInv
<1>9. OriginInv'
  BY <1>1, <1>3, <1>4, <1>5, <1>7 DEF GateInv, OriginInv
<1>10. OnceInv'
  BY <1>1 DEF GateInv, OnceInv
<1>11. ActionInv'
  BY <1>1, <1>4, <1>7 DEF WorkInv, ActionInv
<1>12. JobInv'
  BY <1>1, <1>4, <1>7 DEF WorkInv, JobInv
<1>13. FanOutInv'
  BY <1>3, <1>6, <1>7 DEF WorkInv, FanOutInv
<1>14. OutcomeInv'
  BY <1>3, <1>7 DEF WorkInv, OutcomeInv
<1>15. QED
  BY <1>2, <1>3, <1>8, <1>9, <1>10, <1>11, <1>12, <1>13, <1>14 DEF GateInv, WorkInv

(* dispatchAction: the action runs in the table as its effect is buffered. *)
LEMMA ActionCreatedFolded ==
  ASSUME Typed, GateInv, WorkInv, LoopInv', NEW r \in Rec, NEW x \in Action,
         Took(ActionCreated(r, x), {}),
         Memory' = Memory \cup {ActionEffect(r, x)}, UNCHANGED <<acted, approved, job, item, execs>>,
         results' = [results EXCEPT ![r][x] = IF @ = "none" THEN "running" ELSE @]
  PROVE  GateInv' /\ WorkInv'
<1> DEFINE e == ActionCreated(r, x)
<1>1. Folded' = Folded \cup {e} /\ e \notin Folded /\ e \in log
  BY TookFolds DEF GateInv, LoopInv, Took
<1>2. results[r][x] = "none"
  BY <1>1 DEF GateInv, OriginInv
<1>3. /\ results'[r][x] = "running"
      /\ \A q \in Rec, y \in Action : ~ (q = r /\ y = x) => results'[q][y] = results[q][y]
  BY <1>2 DEF Typed
<1>4. /\ \A q, p : ApprovalCreated(q, p) # e
      /\ \A q, y : ActionCreated(q, y) = e => q = r /\ y = x
      /\ \A q, y, k : ActionClosed(q, y, k) # e
      /\ \A q : JobCreated(q) # e /\ JobWaits(q) # e /\ FixEffect(q) # ActionEffect(r, x)
      /\ \A q, k : JobClosed(q, k) # e
      /\ \A q, y : ActionEffect(q, y) = ActionEffect(r, x) => q = r /\ y = x
  BY EventFields
<1>5. log' = log /\ Rows' = Rows \ {e}
  BY DEF Took
<1>6. \A k \in BOOLEAN : ActionClosed(r, x, k) \notin log /\ ActionClosed(r, x, k) \notin Rows
  BY <1>1 DEF WorkInv, ActionInv, GateInv, LoopInv
<1>7. execs[r][x] = 0
  BY <1>1 DEF GateInv, OnceInv, Typed
<1>8. GrantInv' /\ FanOutInv'
  BY GrantsStay DEF GateInv, WorkInv, LoopInv
<1> HIDE DEF e
<1>9. OriginInv'
  BY <1>1, <1>3, <1>4, <1>5 DEF GateInv, OriginInv, e
<1>10. OnceInv'
  BY <1>1, <1>4, <1>7 DEF GateInv, OnceInv
<1>11. ActionInv'
  BY <1>1, <1>3, <1>4, <1>5, <1>6 DEF WorkInv, ActionInv
<1>12. JobInv'
  BY <1>1, <1>4, <1>5 DEF WorkInv, JobInv
<1>13. OutcomeInv'
  BY <1>5 DEF WorkInv, OutcomeInv
<1>14. QED
  BY <1>8, <1>9, <1>10, <1>11, <1>12, <1>13 DEF GateInv, WorkInv

(* upsertActionResult and checkComplete: the one report of an action is    *)
(* taken, and the item may be settled.                                     *)
LEMMA ActionClosedFolded ==
  ASSUME Typed, GateInv, WorkInv, LoopInv', NEW r \in Rec, NEW x \in Action, NEW ok \in BOOLEAN,
         NEW new, \A f \in new : f.type = "item.updated", Took(ActionClosed(r, x, ok), new),
         Memory' = Memory, UNCHANGED <<acted, approved, job, item, execs>>,
         results' \in [Rec -> [Action -> {"none", "running", "succeeded", "failed"}]],
         results'[r][x] = IF ok THEN "succeeded" ELSE "failed",
         \A q \in Rec, y \in Action : ~ (q = r /\ y = x) => results'[q][y] = results[q][y]
  PROVE  GateInv' /\ WorkInv'
<1> DEFINE e == ActionClosed(r, x, ok)
<1>1. Folded' = Folded \cup {e} /\ e \notin Folded /\ e \in log /\ e \in Rows
  BY TookFolds DEF GateInv, LoopInv, Took
<1>2. /\ results[r][x] = "running" /\ ActionCreated(r, x) \in Folded
      /\ ActionEffect(r, x) \notin Memory
  BY <1>1 DEF WorkInv, ActionInv
<1>3. /\ \A q, p : ApprovalCreated(q, p) # e /\ ApprovalCreated(q, p) \notin new
      /\ \A q, y : ActionCreated(q, y) # e /\ ActionCreated(q, y) \notin new
      /\ \A q, y, k : ActionClosed(q, y, k) \notin new
      /\ \A q, y, k : ActionClosed(q, y, k) = e => q = r /\ y = x /\ k = ok
      /\ \A q : JobCreated(q) # e /\ JobWaits(q) # e /\ JobCreated(q) \notin new /\ JobWaits(q) \notin new
      /\ \A q, k : JobClosed(q, k) # e /\ JobClosed(q, k) \notin new
  BY EventFields
<1>4. log' = log \cup new /\ Rows' = (Rows \ {e}) \cup new
  BY DEF Took
<1>5. \A k \in BOOLEAN : ActionClosed(r, x, k) \notin Rows'
  BY <1>1, <1>3, <1>4 DEF WorkInv, ActionInv, GateInv, LoopInv
<1>6. GrantInv' /\ FanOutInv'
  BY GrantsStay DEF GateInv, WorkInv, LoopInv
<1> HIDE DEF e
<1>7. OriginInv'
  BY <1>1, <1>2, <1>3, <1>4 DEF GateInv, OriginInv
<1>8. OnceInv'
  BY <1>1 DEF GateInv, OnceInv
<1>9. ActionInv'
  <2> SUFFICES ASSUME NEW q \in Rec, NEW y \in Action, NEW k \in BOOLEAN
               PROVE  /\ \A j \in BOOLEAN :
                           ActionClosed(q, y, j) \in log' /\ ActionClosed(q, y, k) \in log' => j = k
                      /\ ActionEffect(q, y) \in Memory' =>
                           results'[q][y] = "running" /\ ActionClosed(q, y, k) \notin log'
                      /\ ActionClosed(q, y, k) \in Rows' => results'[q][y] = "running"
                      /\ ActionClosed(q, y, k) \in log' => ActionCreated(q, y) \in Folded'
    BY DEF ActionInv
  <2>1. CASE q = r /\ y = x
    BY <1>1, <1>2, <1>3, <1>4, <1>5, <2>1 DEF WorkInv, ActionInv
  <2>2. CASE ~ (q = r /\ y = x)
    BY <1>1, <1>3, <1>4, <2>2 DEF WorkInv, ActionInv
  <2>3. QED
    BY <2>1, <2>2
<1>10. JobInv'
  BY <1>1, <1>3, <1>4 DEF WorkInv, JobInv
<1>11. OutcomeInv'
  BY <1>4 DEF WorkInv, OutcomeInv
<1>12. QED
  BY <1>6, <1>7, <1>8, <1>9, <1>10, <1>11 DEF GateInv, WorkInv

(* dispatchJob.                                                            *)
LEMMA JobCreatedFolded ==
  ASSUME Typed, GateInv, WorkInv, LoopInv', NEW r \in Rec, Took(JobCreated(r), {}),
         Memory' = Memory \cup {FixEffect(r)}, UNCHANGED <<acted, approved, results, item, execs>>,
         job' = [job EXCEPT ![r] = IF @ = "none" THEN "open" ELSE @]
  PROVE  GateInv' /\ WorkInv'
<1> DEFINE e == JobCreated(r)
<1>1. Folded' = Folded \cup {e} /\ e \notin Folded /\ e \in log
  BY TookFolds DEF GateInv, LoopInv, Took
<1>2. job[r] = "none"
  BY <1>1 DEF GateInv, OriginInv
<1>3. job'[r] = "open" /\ \A q \in Rec : q # r => job'[q] = job[q]
  BY <1>2 DEF Typed
<1>4. /\ \A q, p : ApprovalCreated(q, p) # e
      /\ \A q, y : ActionCreated(q, y) # e /\ ActionEffect(q, y) # FixEffect(r)
      /\ \A q, y, k : ActionClosed(q, y, k) # e
      /\ \A q : (JobCreated(q) = e => q = r) /\ JobWaits(q) # e
      /\ \A q : FixEffect(q) = FixEffect(r) => q = r
      /\ \A q, k : JobClosed(q, k) # e
  BY EventFields
<1>5. log' = log /\ Rows' = Rows \ {e}
  BY DEF Took
<1>6. /\ JobWaits(r) \notin log /\ JobWaits(r) \notin Rows
      /\ \A k \in BOOLEAN : JobClosed(r, k) \notin log /\ JobClosed(r, k) \notin Rows
  BY <1>1 DEF WorkInv, JobInv, GateInv, LoopInv
<1>7. GrantInv' /\ FanOutInv'
  BY GrantsStay DEF GateInv, WorkInv, LoopInv
<1> HIDE DEF e
<1>8. OriginInv'
  BY <1>1, <1>3, <1>4, <1>5 DEF GateInv, OriginInv, e
<1>9. OnceInv'
  BY <1>1, <1>4 DEF GateInv, OnceInv
<1>10. ActionInv'
  BY <1>1, <1>4, <1>5 DEF WorkInv, ActionInv
<1>11. JobInv'
  BY <1>1, <1>3, <1>4, <1>5, <1>6 DEF WorkInv, JobInv
<1>12. OutcomeInv'
  BY <1>5 DEF WorkInv, OutcomeInv
<1>13. QED
  BY <1>7, <1>8, <1>9, <1>10, <1>11, <1>12 DEF GateInv, WorkInv

(* upsertJob and maybeSettle, on either report of the job.                 *)
LEMMA JobReportFolded ==
  ASSUME Typed, GateInv, WorkInv, LoopInv', NEW r \in Rec, NEW ok \in BOOLEAN, NEW e,
         NEW new, \A f \in new : f.type = "item.updated", Took(e, new),
         Memory' = Memory, UNCHANGED <<acted, approved, results, item, execs>>,
         NEW status, job[r] # "none" => job' = [job EXCEPT ![r] = status],
         \/ e = JobWaits(r) /\ status = "waiting"
         \/ e = JobClosed(r, ok) /\ status \in {"succeeded", "failed"}
  PROVE  /\ job[r] \in {"open", "waiting"} /\ job' = [job EXCEPT ![r] = status]
         /\ GateInv' /\ WorkInv'
<1>1. Folded' = Folded \cup {e} /\ e \notin Folded /\ e \in log /\ e \in Rows
  BY TookFolds DEF GateInv, LoopInv, Took
<1>2. /\ job[r] \in {"open", "waiting"} /\ JobCreated(r) \in Folded
      /\ FixEffect(r) \notin Memory
  BY <1>1 DEF WorkInv, JobInv
<1>3. /\ job' = [job EXCEPT ![r] = status]
      /\ job'[r] = status /\ \A q \in Rec : q # r => job'[q] = job[q]
  BY <1>2 DEF Typed
<1>4. e.type \in {"job.updated", "job.closed"} /\ e.rec = r
  BY EventFields
<1>5. /\ \A q, p : ApprovalCreated(q, p) # e /\ ApprovalCreated(q, p) \notin new
      /\ \A q, y : ActionCreated(q, y) # e /\ ActionCreated(q, y) \notin new
      /\ \A q, y, k : ActionClosed(q, y, k) # e /\ ActionClosed(q, y, k) \notin new
      /\ \A q : JobCreated(q) # e /\ JobCreated(q) \notin new
      /\ \A q : JobWaits(q) \notin new /\ (JobWaits(q) = e => q = r)
      /\ \A q, k : JobClosed(q, k) \notin new /\ (JobClosed(q, k) = e => q = r)
  BY <1>4, EventFields
<1>6. log' = log \cup new /\ Rows' = (Rows \ {e}) \cup new
  BY DEF Took
<1>7. GrantInv' /\ FanOutInv'
  BY GrantsStay DEF GateInv, WorkInv, LoopInv
<1>8. OriginInv'
  BY <1>1, <1>2, <1>3, <1>5, <1>6 DEF GateInv, OriginInv
<1>9. OnceInv'
  BY <1>1 DEF GateInv, OnceInv
<1>10. ActionInv'
  BY <1>1, <1>5, <1>6 DEF WorkInv, ActionInv
<1>11. JobInv'
  <2> SUFFICES ASSUME NEW q \in Rec, NEW k \in BOOLEAN
               PROVE  /\ \A j \in BOOLEAN : JobClosed(q, j) \in log' /\ JobClosed(q, k) \in log' => j = k
                      /\ FixEffect(q) \in Memory' => job'[q] = "open" /\ JobWaits(q) \notin log'
                      /\ JobWaits(q) \in Rows' => job'[q] = "open"
                      /\ job'[q] = "waiting" => JobWaits(q) \in log'
                      /\ JobWaits(q) \in log' => JobClosed(q, FALSE) \notin log' /\ JobCreated(q) \in Folded'
                      /\ FixEffect(q) \in Memory' \/ JobWaits(q) \in Rows' => JobClosed(q, k) \notin log'
                      /\ JobClosed(q, k) \in Rows' => job'[q] \in {"open", "waiting"}
                      /\ JobClosed(q, k) \in log' => JobCreated(q) \in Folded'
    BY DEF JobInv
  <2>1. CASE q # r
    BY <1>1, <1>3, <1>5, <1>6, <2>1 DEF WorkInv, JobInv
  <2>2. CASE q = r /\ e = JobWaits(r)
    BY <1>1, <1>2, <1>3, <1>5, <1>6, <2>2 DEF WorkInv, JobInv, GateInv, LoopInv
  <2>3. CASE q = r /\ e = JobClosed(r, ok)
    <3>1. JobWaits(r) # e /\ JobWaits(r) \notin Rows
      BY <1>1, <2>3, EventFields DEF WorkInv, JobInv
    <3>2. \A j \in BOOLEAN : JobClosed(r, j) \notin Rows'
      BY <1>1, <1>5, <1>6, <2>3 DEF WorkInv, JobInv, GateInv, LoopInv
    <3>3. QED
      BY <1>1, <1>2, <1>3, <1>5, <1>6, <2>3, <3>1, <3>2 DEF WorkInv, JobInv
  <2>4. QED
    BY <2>1, <2>2, <2>3
<1>12. OutcomeInv'
  BY <1>6 DEF WorkInv, OutcomeInv
<1>13. QED
  BY <1>2, <1>3, <1>7, <1>8, <1>9, <1>10, <1>11, <1>12 DEF GateInv, WorkInv

(* settleItem.                                                             *)
LEMMA SettledFolded ==
  ASSUME Typed, GateInv, WorkInv, LoopInv', NEW r \in Rec, NEW ok \in BOOLEAN,
         Took(Settled(r, ok), {}),
         Memory' = Memory, UNCHANGED <<acted, approved, results, job, execs>>,
         item' = [item EXCEPT ![r] = IF ok THEN "handled" ELSE "action_error"]
  PROVE  GateInv' /\ WorkInv'
<1> DEFINE e == Settled(r, ok)
<1>1. Folded' = Folded \cup {e} /\ e \in log
  BY TookFolds DEF GateInv, LoopInv, Took
<1>2. /\ \A q, p : ApprovalCreated(q, p) # e
      /\ \A q, y : ActionCreated(q, y) # e
      /\ \A q, y, k : ActionClosed(q, y, k) # e
      /\ \A q : JobCreated(q) # e /\ JobWaits(q) # e
      /\ \A q, k : JobClosed(q, k) # e
  BY EventFields
<1>3. log' = log /\ Rows' = Rows \ {e}
  BY DEF Took
<1>4. OutcomeInv'
  <2>1. \A q \in Rec : q # r => item'[q] = item[q]
    BY DEF Typed
  <2>2. item'[r] = IF ok THEN "handled" ELSE "action_error"
    BY DEF Typed
  <2>3. \A k \in BOOLEAN : item'[r] = (IF k THEN "handled" ELSE "action_error") => k = ok
    BY <2>2
  <2>4. QED
    BY <1>1, <1>3, <2>1, <2>3 DEF WorkInv, OutcomeInv
<1>5. GrantInv' /\ FanOutInv'
  BY GrantsStay DEF GateInv, WorkInv, LoopInv
<1> HIDE DEF e
<1>6. OriginInv'
  BY <1>1, <1>2, <1>3 DEF GateInv, OriginInv
<1>7. OnceInv'
  BY <1>1 DEF GateInv, OnceInv
<1>8. ActionInv'
  BY <1>1, <1>2, <1>3 DEF WorkInv, ActionInv
<1>9. JobInv'
  BY <1>1, <1>2, <1>3 DEF WorkInv, JobInv
<1>10. QED
  BY <1>4, <1>5, <1>6, <1>7, <1>8, <1>9 DEF GateInv, WorkInv

-----------------------------------------------------------------------------
(* As long as no transaction fails                                         *)

(* No new row of what fans out, no new start, no first report.             *)
LEMMA FanOutStays ==
  ASSUME FanOutIsFolded,
         \A q \in Rec : FanningOut(q)' => FanningOut(q),
         \A q \in Rec : Reported(q)' => Reported(q),
         inFlight' \subseteq inFlight,
         pc' # "batch" => Memory' = {} \/ (pc # "batch" /\ Memory' \subseteq Memory)
  PROVE  FanOutIsFolded'
<1>1. \A q \in Rec : Working(q)' => Working(q)
  BY DEF Working
<1>2. QED
  BY <1>1 DEF FanOutIsFolded

(* Nothing settles, and where something has, the tables stay.              *)
LEMMA SettledStays ==
  ASSUME SettledInv, log \subseteq log',
         \A q \in Rec, k \in BOOLEAN : Settled(q, k) \in log' => Settled(q, k) \in log,
         \A q \in Rec, k \in BOOLEAN : Settled(q, k) \in log =>
           results'[q] = results[q] /\ job'[q] = job[q] /\ approved'[q] = approved[q]
  PROVE  SettledInv'
<1> SUFFICES ASSUME NEW r \in Rec
             PROVE  /\ \A j, k \in BOOLEAN : Settled(r, j) \in log' /\ Settled(r, k) \in log' => j = k
                    /\ \A ok \in BOOLEAN : Settled(r, ok) \in log' =>
                         Reported(r)' /\ ~ Running(r)' /\ job'[r] \notin {"open", "waiting"} /\ Ground(r, ok)'
  BY DEF SettledInv
<1>1. \A j, k \in BOOLEAN : Settled(r, j) \in log' /\ Settled(r, k) \in log' => j = k
  BY DEF SettledInv
<1>2. ASSUME NEW ok \in BOOLEAN, Settled(r, ok) \in log'
      PROVE  Reported(r)' /\ ~ Running(r)' /\ job'[r] \notin {"open", "waiting"} /\ Ground(r, ok)'
  <2>1. Reported(r) /\ ~ Running(r) /\ job[r] \notin {"open", "waiting"} /\ Ground(r, ok)
    BY <1>2 DEF SettledInv
  <2>2. results'[r] = results[r] /\ job'[r] = job[r] /\ approved'[r] = approved[r]
    BY <1>2
  <2>3. Reported(r)'
    BY <2>1 DEF Reported
  <2>4. ~ Running(r)' /\ job'[r] \notin {"open", "waiting"}
    BY <2>1, <2>2 DEF Running
  <2>5. Ground(r, ok)'
    BY <2>1, <2>2 DEF Ground, RequiredOf
  <2>6. QED
    BY <2>3, <2>4, <2>5
<1>3. QED
  BY <1>1, <1>2

(* A report, as its effect leaves the pool: nothing that fanned out waits. *)
LEMMA FanOutAfterReport ==
  ASSUME FanOutIsFolded, NEW e, Posted(e), e.type \notin {"action.created", "job.created"},
         Memory # {}, pc # "batch"
  PROVE  FanOutIsFolded'
<1>1. \A q \in Rec : ~ FanningOut(q)
  BY DEF FanOutIsFolded
<1>2. \A q \in Rec : ~ FanningOut(q)'
  BY <1>1, EventFields DEF FanningOut, Posted
<1>3. QED
  BY <1>2 DEF FanOutIsFolded

(* A batch ends when nothing is due any more.                              *)
LEMMA FanOutAfterBatch ==
  ASSUME RowsAreFresh, \A e \in ApprovalEvent : ~ Due(e), Rows' = Rows
  PROVE  FanOutIsFolded'
<1>1. Rows = {}
  BY FreshRowTyped DEF RowsAreFresh, Rows, Due, Pending
<1>2. \A q \in Rec : ~ FanningOut(q)'
  BY <1>1 DEF FanningOut
<1>3. QED
  BY <1>2 DEF FanOutIsFolded

(* An approval that is not folded has no effects and no reports.           *)
LEMMA UngrantedIsSilent ==
  ASSUME GateInv, WorkInv, NEW r \in Rec, approved[r] = None
  PROVE  ~ Working(r) /\ ~ Reported(r)
<1>1. /\ JobCreated(r) \notin log /\ JobCreated(r) \notin Folded
      /\ \A x \in Action : ActionCreated(r, x) \notin log /\ ActionCreated(r, x) \notin Folded
  BY DEF GateInv, OriginInv, Folded
<1>2. ~ Working(r)
  BY <1>1 DEF Working, Memory, GateInv, OriginInv
<1>3. ~ Reported(r)
  BY <1>1 DEF Reported, WorkInv, ActionInv, JobInv
<1>4. QED
  BY <1>2, <1>3

(* What a fold does to FanOutIsFolded, but for that of an approval.        *)
LEMMA FanOutAfterFold ==
  ASSUME FanOutIsFolded, NEW e, NEW new, Took(e, new), \A f \in new : f.type = "item.updated",
         inFlight' = inFlight, pc' = "batch"
  PROVE  FanOutIsFolded'
<1>1. \A q \in Rec : FanningOut(q)' => FanningOut(q)
  BY EventFields DEF FanningOut, Took
<1>2. \A q \in Rec : Reported(q)' => Reported(q)
  <2>1. \A q, x, k : ActionClosed(q, x, k) \notin new
    BY EventFields
  <2>2. \A q, k : JobClosed(q, k) \notin new /\ JobWaits(q) \notin new
    BY EventFields
  <2>3. QED
    BY <2>1, <2>2 DEF Reported, Took
<1>3. QED
  BY <1>1, <1>2, FanOutStays

(* checkComplete: the last of the actions to report settles, by what all   *)
(* required actions came to.                                               *)
LEMMA ActionSettles ==
  ASSUME Typed, GateInv, WorkInv, FanOutIsFolded, SettledInv,
         NEW r \in Rec, NEW x \in Action, NEW ok \in BOOLEAN,
         NEW new, new \subseteq CheckComplete(r, results'[r]), Took(ActionClosed(r, x, ok), new),
         UNCHANGED <<approved, job>>,
         results' \in [Rec -> [Action -> {"none", "running", "succeeded", "failed"}]],
         results'[r][x] = IF ok THEN "succeeded" ELSE "failed",
         \A q \in Rec, y \in Action : ~ (q = r /\ y = x) => results'[q][y] = results[q][y]
  PROVE  SettledInv'
<1> DEFINE e == ActionClosed(r, x, ok)
           good == \A y \in Required : results'[r][y] \in {"none", "succeeded"}
<1>1. e \in log /\ e \in Rows /\ log' = log \cup new
  BY DEF Took, GateInv, LoopInv
<1>2. results[r][x] = "running" /\ ActionCreated(r, x) \in log
  BY <1>1 DEF WorkInv, ActionInv, Folded
<1>3. approved[r] \in Option /\ ActionsOf[approved[r]] \subseteq Action
  BY <1>2, ApprovalAssumption DEF GateInv, OriginInv, Typed
<1>4. Reported(r) /\ ~ FanningOut(r)
  BY <1>1 DEF Reported, FanOutIsFolded
<1>5. \A k \in BOOLEAN : Settled(r, k) \notin log
  BY <1>2 DEF SettledInv, Running
<1>6. ASSUME NEW k \in BOOLEAN, Settled(r, k) \in new
      PROVE  /\ ~ Running(r)' /\ job[r] \notin {"open", "waiting"} /\ (k <=> good)
  <2>1. Settled(r, k) \in CheckComplete(r, results'[r])
    BY <1>6
  <2>2. ~ (\E y \in Action : results'[r][y] = "running") /\ job[r] \notin {"open", "waiting"}
    BY <2>1 DEF CheckComplete
  <2>3. Settled(r, k) = Settled(r, good)
    BY <2>1, <2>2 DEF CheckComplete
  <2>4. k = good
    BY <2>3 DEF Settled
  <2>5. QED
    BY <2>2, <2>4 DEF Running
<1>7. ASSUME NEW y \in ActionsOf[approved[r]]
      PROVE  results'[r][y] # "none"
  <2>1. ActionCreated(r, y) \in log /\ ActionCreated(r, y) \notin Rows /\ y \in Action
    BY <1>3, <1>4, ApprovalAssumption DEF WorkInv, FanOutInv, FanningOut
  <2>2. results[r][y] # "none"
    BY <2>1 DEF GateInv, OriginInv, Folded
  <2>3. QED
    BY <2>1, <2>2
<1>8. ASSUME NEW y \in Action, results'[r][y] # "none"
      PROVE  y \in ActionsOf[approved[r]]
  <2>1. ActionCreated(r, y) \in log
    BY <1>2, <1>8 DEF GateInv, OriginInv, Folded
  <2>2. QED
    BY <2>1 DEF GateInv, OriginInv
<1>9. ASSUME NEW k \in BOOLEAN, Settled(r, k) \in new
      PROVE  Ground(r, k)'
  <2>1. ~ Running(r)' /\ (k <=> good)
    BY <1>6, <1>9
  <2>2. CASE k
    <3>1. \A y \in RequiredOf(r) : results'[r][y] = "succeeded"
      BY <1>7, <2>1, <2>2 DEF RequiredOf
    <3>2. QED
      BY <2>2, <3>1 DEF Ground, RequiredOf
  <2>3. CASE ~ k
    <3>1. PICK y \in Required : results'[r][y] \notin {"none", "succeeded"}
      BY <2>1, <2>3
    <3>2. y \in Action
      BY ApprovalAssumption
    <3>3. results'[r][y] = "failed"
      BY <2>1, <3>1, <3>2 DEF Running
    <3>4. y \in RequiredOf(r)
      BY <1>8, <3>2, <3>3 DEF RequiredOf
    <3>5. QED
      BY <2>3, <3>3, <3>4 DEF Ground, RequiredOf
  <2>4. QED
    BY <2>2, <2>3
<1>10. \A q \in Rec, k \in BOOLEAN : Settled(q, k) \in new => q = r
  <2>1. CheckComplete(r, results'[r]) \subseteq {Settled(r, good)}
    BY DEF CheckComplete
  <2> HIDE DEF good
  <2>2. \A q, k : Settled(q, k) = Settled(r, good) => q = r
    BY DEF Settled
  <2>3. QED
    BY <2>1, <2>2
<1>11. Reported(r)'
  BY <1>1, <1>4 DEF Reported
<1> HIDE DEF good
<1>12. ASSUME NEW q \in Rec, q # r
       PROVE  /\ \A j, k \in BOOLEAN : Settled(q, j) \in log' /\ Settled(q, k) \in log' => j = k
              /\ \A k \in BOOLEAN : Settled(q, k) \in log' =>
                   Reported(q)' /\ ~ Running(q)' /\ job'[q] \notin {"open", "waiting"} /\ Ground(q, k)'
  <2>1. results'[q] = results[q]
    BY <1>12 DEF Typed
  <2>2. \A k \in BOOLEAN : Settled(q, k) \in log' => Settled(q, k) \in log
    BY <1>1, <1>10, <1>12
  <2>3. Reported(q) => Reported(q)'
    BY <1>1 DEF Reported
  <2>4. Running(q)' <=> Running(q)
    BY <2>1 DEF Running
  <2>5. \A k \in BOOLEAN : Ground(q, k) => Ground(q, k)'
    BY <2>1 DEF Ground, RequiredOf
  <2>6. QED
    BY <2>2, <2>3, <2>4, <2>5 DEF SettledInv
<1>13. /\ \A j, k \in BOOLEAN : Settled(r, j) \in log' /\ Settled(r, k) \in log' => j = k
       /\ \A k \in BOOLEAN : Settled(r, k) \in log' =>
            Reported(r)' /\ ~ Running(r)' /\ job'[r] \notin {"open", "waiting"} /\ Ground(r, k)'
  BY <1>1, <1>5, <1>6, <1>9, <1>11
<1>14. QED
  BY <1>12, <1>13 DEF SettledInv

(* maybeSettle: a job that closes after the actions settles by itself.     *)
LEMMA JobSettles ==
  ASSUME Typed, GateInv, WorkInv, SettledInv, NEW r \in Rec, NEW ok \in BOOLEAN,
         NEW new, new \subseteq MaybeSettle(r, ok), Took(JobClosed(r, ok), new),
         UNCHANGED <<approved, results>>, job[r] \in {"open", "waiting"},
         job' = [job EXCEPT ![r] = IF ok THEN "succeeded" ELSE "failed"]
  PROVE  SettledInv'
<1> DEFINE e == JobClosed(r, ok)
<1>1. e \in log /\ log' = log \cup new
  BY DEF Took, GateInv, LoopInv
<1>2. \A k \in BOOLEAN : Settled(r, k) \notin log
  BY DEF SettledInv
<1>3. job'[r] = (IF ok THEN "succeeded" ELSE "failed") /\ \A q \in Rec : q # r => job'[q] = job[q]
  BY DEF Typed
<1>4. \A q, k : Settled(q, k) \in new => q = r /\ k = ok /\ ~ Running(r)
  BY EventFields DEF MaybeSettle
<1>5. Reported(r)'
  BY <1>1 DEF Reported
<1>6. ASSUME NEW q \in Rec, q # r
      PROVE  /\ \A j, k \in BOOLEAN : Settled(q, j) \in log' /\ Settled(q, k) \in log' => j = k
             /\ \A k \in BOOLEAN : Settled(q, k) \in log' =>
                  Reported(q)' /\ ~ Running(q)' /\ job'[q] \notin {"open", "waiting"} /\ Ground(q, k)'
  <2>1. \A k \in BOOLEAN : Settled(q, k) \in log' => Settled(q, k) \in log
    BY <1>1, <1>4, <1>6
  <2>2. Reported(q) => Reported(q)'
    BY <1>1 DEF Reported
  <2>3. Running(q)' <=> Running(q)
    BY DEF Running
  <2>4. \A k \in BOOLEAN : Ground(q, k) => Ground(q, k)'
    BY <1>3, <1>6 DEF Ground, RequiredOf
  <2>5. QED
    BY <1>3, <1>6, <2>1, <2>2, <2>3, <2>4 DEF SettledInv
<1>7. /\ \A j, k \in BOOLEAN : Settled(r, j) \in log' /\ Settled(r, k) \in log' => j = k
      /\ \A k \in BOOLEAN : Settled(r, k) \in log' =>
           Reported(r)' /\ ~ Running(r)' /\ job'[r] \notin {"open", "waiting"} /\ Ground(r, k)'
  BY <1>1, <1>2, <1>3, <1>4, <1>5 DEF Running, Ground
<1>8. QED
  BY <1>6, <1>7 DEF SettledInv

-----------------------------------------------------------------------------
(* The operations of the loop, as the actions use them                     *)

LEMMA LimitIsNat == MaxConcurrency \in Nat
BY ApprovalAssumption DEF LoopAssumption

LEMMA SameMemory ==
  ASSUME UNCHANGED <<pendingEffects, inFlight>>
  PROVE  /\ Memory' = Memory
         /\ LoopMemory(ApprovalEffect, pendingEffects, inFlight, MaxConcurrency) =>
              LoopMemory(ApprovalEffect, pendingEffects, inFlight, MaxConcurrency)'
BY DEF Memory

(* An effect posts its outcome and is gone; others may start.              *)
LEMMA ReturnMemory ==
  ASSUME Typed, LoopInv, NEW f, NEW e \in ApprovalEvent, EffectReturns(f, e), acted' = acted \ {f}
  PROVE  /\ LoopInv' /\ f \in inFlight /\ f \in Memory /\ Memory' = Memory \ {f}
         /\ Memory' \ acted' \subseteq Memory \ acted
         /\ pc = "idle" /\ pc' = pc
<1>1. /\ pc = "idle" /\ pc' = pc /\ f \in inFlight /\ Enqueue({e})
      /\ Pump(pendingEffects, inFlight \ {f})
  BY DEF EffectReturns
<1>2. LoopMemory(ApprovalEffect, pendingEffects, inFlight, MaxConcurrency)
  BY DEF LoopInv
<1>3. /\ LoopMemory(ApprovalEffect, pendingEffects, inFlight, MaxConcurrency)'
      /\ Memory' = Range(pendingEffects) \cup (inFlight \ {f})
      /\ inFlight \ {f} \subseteq inFlight'
  <2>1. inFlight \ {f} \in SUBSET inFlight
    OBVIOUS
  <2>2. QED
    BY <1>1, <1>2, <2>1, PumpKeepsMemory
<1>4. f \notin Range(pendingEffects)
  BY <1>1, <1>2 DEF LoopMemory, Range
<1>5. Memory' = Memory \ {f} /\ f \in Memory
  BY <1>1, <1>3, <1>4 DEF Memory
<1>6. acted' \subseteq inFlight' /\ \A r \in Rec : FixEffect(r) \notin acted'
  BY <1>3 DEF LoopInv
<1>7. Rows' \subseteq log'
  <2>1. \/ UNCHANGED <<log, queue>>
        \/ log' = log \cup {e} /\ Rows' = Rows \cup {e}
    BY <1>1, EnqueueRows
  <2>2. Rows \subseteq log
    BY DEF LoopInv
  <2>3. UNCHANGED <<log, queue>> => Rows' = Rows
    BY DEF Rows
  <2>4. QED
    BY <2>1, <2>2, <2>3
<1>8. LoopInv'
  BY <1>1, <1>3, <1>6, <1>7 DEF LoopInv
<1>9. QED
  BY <1>1, <1>5, <1>8

LEMMA FoldWithoutEffect ==
  ASSUME Typed, LoopInv, NEW e \in ApprovalEvent, NEW children \in SUBSET ApprovalEvent,
         NextDue(e), Commit(e, children, <<>>), acted' = acted
  PROVE  /\ Fresh(children) \subseteq children /\ Took(e, Fresh(children))
         /\ \A c \in children :
              c.type \notin {"approval.created", "item.updated"} => c \in log'
         /\ TypedLog' /\ (RowsAreFresh => RowsAreFresh')
         /\ LoopInv' /\ Memory' = Memory
         /\ UNCHANGED <<pc, inFlight>> /\ pc = "batch"
<1>1. Rows \subseteq log /\ pendingEffects \in Seq(ApprovalEffect)
  BY DEF LoopInv, LoopMemory
<1>2. /\ Fresh(children) \subseteq children /\ Took(e, Fresh(children))
      /\ \A c \in children :
           c.type \notin {"approval.created", "item.updated"} => c \in log'
      /\ TypedLog' /\ (RowsAreFresh => RowsAreFresh')
      /\ UNCHANGED <<pc, inFlight>> /\ pc = "batch"
      /\ pendingEffects' = pendingEffects \o <<>>
  BY <1>1, CommitRows DEF Took
<1>3. pendingEffects' = pendingEffects
  BY <1>1, <1>2, BufferNothing
<1>4. Rows' \subseteq log'
  BY <1>1, <1>2 DEF Took
<1>5. LoopInv' /\ Memory' = Memory
  BY <1>2, <1>3, <1>4, SameMemory DEF LoopInv
<1>6. QED
  BY <1>2, <1>5

LEMMA FoldOfNothing ==
  ASSUME Typed, LoopInv, NEW e \in ApprovalEvent,
         NextDue(e), Commit(e, {}, <<>>), acted' = acted
  PROVE  /\ Took(e, {})
         /\ TypedLog' /\ (RowsAreFresh => RowsAreFresh')
         /\ LoopInv' /\ Memory' = Memory
         /\ UNCHANGED <<pc, inFlight>> /\ pc = "batch"
<1> DEFINE children == {}
<1>1. Fresh(children) = {} /\ children \in SUBSET ApprovalEvent
  BY DEF Fresh
<1>2. Commit(e, children, <<>>)
  OBVIOUS
<1> HIDE DEF children
<1>3. /\ Took(e, Fresh(children))
      /\ TypedLog' /\ (RowsAreFresh => RowsAreFresh')
      /\ LoopInv' /\ Memory' = Memory
      /\ UNCHANGED <<pc, inFlight>> /\ pc = "batch"
  BY <1>1, <1>2, FoldWithoutEffect
<1>4. QED
  BY <1>1, <1>3

LEMMA FoldWithEffect ==
  ASSUME Typed, LoopInv, NEW e \in ApprovalEvent, NEW f \in ApprovalEffect, f \notin Memory,
         NextDue(e), Commit(e, {}, <<f>>), acted' = acted
  PROVE  /\ Took(e, {})
         /\ TypedLog' /\ (RowsAreFresh => RowsAreFresh')
         /\ LoopInv' /\ Memory' = Memory \cup {f}
         /\ UNCHANGED <<pc, inFlight>> /\ pc = "batch"
<1>1. /\ Rows \subseteq log
      /\ LoopMemory(ApprovalEffect, pendingEffects, inFlight, MaxConcurrency)
  BY DEF LoopInv
<1>2. Fresh({}) = {} /\ {} \in SUBSET ApprovalEvent
  BY DEF Fresh
<1>3. /\ Took(e, {})
      /\ TypedLog' /\ (RowsAreFresh => RowsAreFresh')
      /\ UNCHANGED <<pc, inFlight>> /\ pc = "batch"
      /\ pendingEffects' = pendingEffects \o <<f>>
  BY <1>1, <1>2, CommitRows DEF Took
<1>4. f \notin Range(pendingEffects) /\ f \notin inFlight
  BY DEF Memory
<1>5. /\ LoopMemory(ApprovalEffect, pendingEffects \o <<f>>, inFlight, MaxConcurrency)
      /\ Range(pendingEffects \o <<f>>) = Range(pendingEffects) \cup {f}
  BY <1>1, <1>4, LimitIsNat, BufferOne
<1>6. /\ LoopMemory(ApprovalEffect, pendingEffects, inFlight, MaxConcurrency)'
      /\ Memory' = Memory \cup {f}
  BY <1>3, <1>5 DEF Memory
<1>7. Rows' \subseteq log'
  BY <1>1, <1>3 DEF Took
<1>8. LoopInv'
  BY <1>3, <1>6, <1>7 DEF LoopInv
<1>9. QED
  BY <1>3, <1>6, <1>8

-----------------------------------------------------------------------------
(* Every step keeps the invariant                                          *)

LEMMA InitIInv == Init => IInv
<1> SUFFICES ASSUME Init
             PROVE  IInv
  OBVIOUS
<1>1. Rows = {} /\ log = {} /\ Folded = {}
  BY DEF Init, LoopInit, Rows, Folded
<1>2. LoopMemory(ApprovalEffect, pendingEffects, inFlight, MaxConcurrency) /\ Memory = {}
  BY EmptyMemory, LimitIsNat DEF Init, LoopInit, Memory
<1>3. Typed
  BY DEF Init, LoopInit, Typed, NoRow, Status
<1>4. GateInv
  BY <1>1, <1>2 DEF Init, LoopInit, GateInv, LoopInv, GrantInv, OriginInv, OnceInv
<1>5. WorkInv
  BY <1>1, <1>2 DEF Init, WorkInv, ActionInv, JobInv, FanOutInv, OutcomeInv
<1>6. RowsAreFresh
  BY DEF Init, LoopInit, RowsAreFresh
<1>7. FanOutIsFolded
  BY <1>1 DEF FanOutIsFolded, FanningOut
<1>8. SettledInv
  BY <1>1 DEF SettledInv
<1>9. QED
  BY <1>3, <1>4, <1>5, <1>6, <1>7, <1>8 DEF IInv, SmoothInv

(* A step that shows nothing keeps what is settled.                        *)
LEMMA QuietSettled ==
  ASSUME SettledInv, log' = log, UNCHANGED <<results, job, approved>>
  PROVE  SettledInv'
BY SettledStays

LEMMA StepApprove ==
  ASSUME IInv, NEW r \in Rec, NEW o \in Option, Approve(r, o)
  PROVE  IInv'
<1> DEFINE e == ApprovalCreated(r, o)
<1>1. /\ Enqueue({e}) /\ o \in Offers[r] /\ e \in ApprovalEvent
      /\ UNCHANGED <<pendingEffects, inFlight, pc, approved, results, job, item, acted, execs, faults>>
  BY EventsAreEvents DEF Approve, tables, history
<1>2. /\ TypedLog' /\ (RowsAreFresh => RowsAreFresh')
      /\ \/ ~ Accepts(e) /\ UNCHANGED <<log, queue>>
         \/ Accepts(e) /\ e \notin log /\ log' = log \cup {e} /\ Rows' = Rows \cup {e}
  BY <1>1, EnqueueRows DEF IInv
<1>3. Typed'
  BY <1>1, <1>2 DEF IInv, Typed, TypedLog
<1>4. Memory' = Memory
  BY <1>1, SameMemory
<1>5. LoopInv'
  BY <1>1, <1>2, <1>4, SameMemory DEF IInv, GateInv, LoopInv, Rows
<1>6. CASE ~ Accepts(e) /\ UNCHANGED <<log, queue>>
  <2>1. log' = log /\ Rows' = Rows
    BY <1>6 DEF Rows
  <2>2. GateInv' /\ WorkInv'
    BY <1>1, <1>4, <1>5, <2>1, QuietSteps DEF IInv
  <2>3. faults' = 0 => FanOutIsFolded' /\ SettledInv'
    BY <1>1, <1>4, <2>1, FanOutStays, QuietSettled DEF IInv, SmoothInv, FanningOut, Reported
  <2>4. QED
    BY <1>1, <1>2, <1>3, <2>2, <2>3 DEF IInv, SmoothInv
<1>7. CASE Accepts(e) /\ e \notin log /\ log' = log \cup {e} /\ Rows' = Rows \cup {e}
  <2>1. Posted(e)
    BY <1>1, <1>4, <1>7 DEF Posted
  <2>2. GateInv' /\ WorkInv'
    BY <1>1, <1>5, <1>7, <2>1, ApprovalPosted DEF IInv
  <2>3. /\ \A q, y : ActionCreated(q, y) # e
        /\ \A q, y, k : ActionClosed(q, y, k) # e
        /\ \A q : JobCreated(q) # e /\ JobWaits(q) # e
        /\ \A q, k : JobClosed(q, k) # e /\ Settled(q, k) # e
    BY EventFields
  <2> HIDE DEF e
  <2>4. faults' = 0 => FanOutIsFolded'
    BY <1>1, <1>4, <1>7, <2>3, FanOutStays DEF IInv, SmoothInv, FanningOut, Reported
  <2>5. faults' = 0 => SettledInv'
    BY <1>1, <1>7, <2>3, SettledStays DEF IInv, SmoothInv
  <2>6. QED
    BY <1>1, <1>2, <1>3, <2>2, <2>4, <2>5 DEF IInv, SmoothInv
<1>8. QED
  BY <1>2, <1>6, <1>7

LEMMA DueIsRow ==
  ASSUME NEW e \in ApprovalEvent, NextDue(e)
  PROVE  e \in Rows
BY DEF NextDue, Due, Pending, Rows, NoRow

LEMMA StepFoldApproval ==
  ASSUME IInv, NEW r \in Rec, NEW o \in Option, FoldApproval(r, o)
  PROVE  /\ IInv'
         /\ approved[r] = None /\ o \in Offers[r] /\ approved' = [approved EXCEPT ![r] = o]
<1> DEFINE e == ApprovalCreated(r, o)
           new == Fresh(FanOut(r, o))
<1>1. /\ NextDue(e) /\ Commit(e, FanOut(r, o), <<>>) /\ e \in ApprovalEvent
      /\ approved' = [approved EXCEPT ![r] = IF @ = None THEN o ELSE @]
      /\ item' = [item EXCEPT ![r] = "approved_pending"]
      /\ UNCHANGED <<results, job, acted, execs, faults>>
  BY EventsAreEvents DEF FoldApproval, history
<1>2. FanOut(r, o) \in SUBSET ApprovalEvent
  BY EventsAreEvents, ApprovalAssumption DEF FanOut
<1>3. \A c \in FanOut(r, o) : c.type \in {"action.created", "job.created"} /\ c.rec = r
  BY EventFields DEF FanOut
<1>4. /\ new \subseteq FanOut(r, o) /\ Took(e, new)
      /\ \A c \in FanOut(r, o) :
           c.type \notin {"approval.created", "item.updated"} => c \in log'
      /\ TypedLog' /\ (RowsAreFresh => RowsAreFresh')
      /\ LoopInv' /\ Memory' = Memory
      /\ UNCHANGED <<pc, inFlight>> /\ pc = "batch"
  BY <1>1, <1>2, FoldWithoutEffect DEF IInv, GateInv
<1>5. FanOut(r, o) \subseteq log'
  BY <1>3, <1>4
<1> HIDE DEF new
<1>6. /\ approved[r] = None /\ approved' = [approved EXCEPT ![r] = o] /\ o \in Offers[r]
      /\ GateInv' /\ WorkInv'
  BY <1>1, <1>4, <1>5, ApprovalFolded DEF IInv
<1>7. Typed'
  BY <1>1, <1>4 DEF IInv, Typed, TypedLog
<1>8. ~ Working(r) /\ ~ Reported(r)
  BY <1>6, UngrantedIsSilent DEF IInv
<1>9. /\ \A q, y : /\ ActionCreated(q, y) # e
                   /\ ActionCreated(q, y) \in new => q = r
      /\ \A q : /\ JobCreated(q) # e /\ JobWaits(q) \notin new
                /\ JobCreated(q) \in new => q = r
      /\ \A q, y, k : ActionClosed(q, y, k) \notin new
      /\ \A q, k : JobClosed(q, k) \notin new /\ Settled(q, k) \notin new
  BY <1>3, <1>4, EventFields
<1>10. log' = log \cup new /\ Rows' = (Rows \ {e}) \cup new
  BY <1>4 DEF Took
<1> HIDE DEF e
<1>11. FanOutIsFolded => FanOutIsFolded'
  <2>1. \A q \in Rec : /\ Working(q)' <=> Working(q)
                       /\ Reported(q)' => Reported(q)
    BY <1>4, <1>9, <1>10 DEF Working, Reported
  <2>2. \A q \in Rec : FanningOut(q)' => FanningOut(q) \/ q = r
    BY <1>9, <1>10 DEF FanningOut
  <2>3. QED
    BY <1>4, <1>8, <2>1, <2>2 DEF FanOutIsFolded
<1>12. SettledInv => SettledInv'
  <2> SUFFICES ASSUME SettledInv
               PROVE  SettledInv'
    OBVIOUS
  <2>1. \A q \in Rec, k \in BOOLEAN : Settled(q, k) \in log => q # r
    BY <1>8 DEF SettledInv
  <2>2. \A q \in Rec : q # r => approved'[q] = approved[q]
    BY <1>1 DEF IInv, Typed
  <2>3. \A q \in Rec, k \in BOOLEAN : Settled(q, k) \in log' => Settled(q, k) \in log
    BY <1>9, <1>10
  <2>4. QED
    BY <1>1, <1>10, <2>1, <2>2, <2>3, SettledStays
<1>13. QED
  BY <1>1, <1>4, <1>6, <1>7, <1>11, <1>12 DEF IInv, SmoothInv

LEMMA StepFoldActionCreated ==
  ASSUME IInv, NEW r \in Rec, NEW x \in Action, FoldActionCreated(r, x)
  PROVE  IInv'
<1> DEFINE e == ActionCreated(r, x)
           f == ActionEffect(r, x)
<1>1. /\ NextDue(e) /\ Commit(e, {}, <<f>>) /\ e \in ApprovalEvent /\ f \in ApprovalEffect
      /\ results' = [results EXCEPT ![r][x] = IF @ = "none" THEN "running" ELSE @]
      /\ UNCHANGED <<approved, job, item, acted, execs, faults>>
  BY EventsAreEvents DEF FoldActionCreated, history
<1>2. e \in Rows
  BY <1>1, DueIsRow
<1>3. f \notin Memory
  BY <1>2 DEF IInv, GateInv, OriginInv, Folded
<1>4. /\ Took(e, {})
      /\ TypedLog' /\ (RowsAreFresh => RowsAreFresh')
      /\ LoopInv' /\ Memory' = Memory \cup {f}
      /\ UNCHANGED <<pc, inFlight>> /\ pc = "batch"
  BY <1>1, <1>3, FoldWithEffect DEF IInv, GateInv
<1>5. GateInv' /\ WorkInv'
  BY <1>1, <1>4, ActionCreatedFolded DEF IInv
<1>6. results' \in [Rec -> [Action -> {"none", "running", "succeeded", "failed"}]]
  BY <1>1 DEF IInv, Typed
<1>7. Typed'
  BY <1>1, <1>4, <1>6 DEF IInv, Typed, TypedLog
<1>8. FanOutIsFolded => FanOutIsFolded'
  BY <1>4, FanOutAfterFold
<1>9. ASSUME FanOutIsFolded, SettledInv
      PROVE  SettledInv'
  <2>1. \A q \in Rec, k \in BOOLEAN : Settled(q, k) \in log => q # r
    BY <1>2, <1>9 DEF SettledInv, FanOutIsFolded, FanningOut
  <2>2. \A q \in Rec : q # r => results'[q] = results[q]
    BY <1>1 DEF IInv, Typed
  <2>3. log' = log
    BY <1>4 DEF Took
  <2>4. QED
    BY <1>1, <1>9, <2>1, <2>2, <2>3, SettledStays
<1>10. QED
  BY <1>1, <1>4, <1>5, <1>7, <1>8, <1>9 DEF IInv, SmoothInv

LEMMA StepFoldActionClosed ==
  ASSUME IInv, NEW r \in Rec, NEW x \in Action, NEW ok \in BOOLEAN, FoldActionClosed(r, x, ok)
  PROVE  IInv'
<1> DEFINE e == ActionClosed(r, x, ok)
           after == [results[r] EXCEPT ![x] =
                       IF @ = "none" THEN @ ELSE IF ok THEN "succeeded" ELSE "failed"]
           children == CheckComplete(r, after)
           new == Fresh(children)
<1>1. /\ NextDue(e) /\ Commit(e, children, <<>>) /\ e \in ApprovalEvent
      /\ results' = [results EXCEPT ![r] = after]
      /\ UNCHANGED <<approved, job, item, acted, execs, faults>>
  BY EventsAreEvents DEF FoldActionClosed, history
<1>2. e \in Rows
  BY <1>1, DueIsRow
<1>3. results[r][x] = "running"
  BY <1>2 DEF IInv, WorkInv, ActionInv
<1>4. /\ after \in [Action -> {"none", "running", "succeeded", "failed"}]
      /\ after[x] = IF ok THEN "succeeded" ELSE "failed"
      /\ \A y \in Action : y # x => after[y] = results[r][y]
  <2>1. results[r] \in [Action -> {"none", "running", "succeeded", "failed"}]
    BY DEF IInv, Typed
  <2>2. QED
    BY <1>3, <2>1
<1>5. children \subseteq {Settled(r, k) : k \in BOOLEAN}
  BY DEF CheckComplete
<1> HIDE DEF after
<1>6. /\ results' \in [Rec -> [Action -> {"none", "running", "succeeded", "failed"}]]
      /\ results'[r] = after
      /\ results'[r][x] = IF ok THEN "succeeded" ELSE "failed"
      /\ \A q \in Rec, y \in Action : ~ (q = r /\ y = x) => results'[q][y] = results[q][y]
  BY <1>1, <1>4 DEF IInv, Typed
<1> HIDE DEF children
<1>7. children \in SUBSET ApprovalEvent
  BY <1>5, EventsAreEvents
<1>8. /\ new \subseteq children /\ Took(e, new)
      /\ TypedLog' /\ (RowsAreFresh => RowsAreFresh')
      /\ LoopInv' /\ Memory' = Memory
      /\ UNCHANGED <<pc, inFlight>> /\ pc = "batch"
  BY <1>1, <1>7, FoldWithoutEffect DEF IInv, GateInv
<1> HIDE DEF new
<1>9. \A c \in new : c.type = "item.updated"
  BY <1>5, <1>8, EventFields
<1>10. GateInv' /\ WorkInv'
  BY <1>1, <1>6, <1>8, <1>9, ActionClosedFolded DEF IInv
<1>11. Typed'
  BY <1>1, <1>6, <1>8 DEF IInv, Typed, TypedLog
<1>12. FanOutIsFolded => FanOutIsFolded'
  BY <1>8, <1>9, FanOutAfterFold
<1>13. ASSUME FanOutIsFolded, SettledInv
       PROVE  SettledInv'
  <2>1. new \subseteq CheckComplete(r, results'[r])
    BY <1>6, <1>8 DEF children
  <2>2. QED
    BY <1>1, <1>6, <1>8, <1>13, <2>1, ActionSettles DEF IInv
<1>14. QED
  BY <1>1, <1>8, <1>10, <1>11, <1>12, <1>13 DEF IInv, SmoothInv

LEMMA StepFoldJobCreated ==
  ASSUME IInv, NEW r \in Rec, FoldJobCreated(r)
  PROVE  IInv'
<1> DEFINE e == JobCreated(r)
           f == FixEffect(r)
<1>1. /\ NextDue(e) /\ Commit(e, {}, <<f>>) /\ e \in ApprovalEvent /\ f \in ApprovalEffect
      /\ job' = [job EXCEPT ![r] = IF @ = "none" THEN "open" ELSE @]
      /\ UNCHANGED <<approved, results, item, acted, execs, faults>>
  BY EventsAreEvents DEF FoldJobCreated, history
<1>2. e \in Rows
  BY <1>1, DueIsRow
<1>3. f \notin Memory
  BY <1>2 DEF IInv, GateInv, OriginInv, Folded
<1>4. /\ Took(e, {})
      /\ TypedLog' /\ (RowsAreFresh => RowsAreFresh')
      /\ LoopInv' /\ Memory' = Memory \cup {f}
      /\ UNCHANGED <<pc, inFlight>> /\ pc = "batch"
  BY <1>1, <1>3, FoldWithEffect DEF IInv, GateInv
<1>5. GateInv' /\ WorkInv'
  BY <1>1, <1>4, JobCreatedFolded DEF IInv
<1>6. Typed'
  BY <1>1, <1>4 DEF IInv, Typed, TypedLog
<1>7. FanOutIsFolded => FanOutIsFolded'
  BY <1>4, FanOutAfterFold
<1>8. ASSUME FanOutIsFolded, SettledInv
      PROVE  SettledInv'
  <2>1. \A q \in Rec, k \in BOOLEAN : Settled(q, k) \in log => q # r
    BY <1>2, <1>8 DEF SettledInv, FanOutIsFolded, FanningOut
  <2>2. \A q \in Rec : q # r => job'[q] = job[q]
    BY <1>1 DEF IInv, Typed
  <2>3. log' = log
    BY <1>4 DEF Took
  <2>4. QED
    BY <1>1, <1>8, <2>1, <2>2, <2>3, SettledStays
<1>9. QED
  BY <1>1, <1>4, <1>5, <1>6, <1>7, <1>8 DEF IInv, SmoothInv

LEMMA StepFoldJobWaits ==
  ASSUME IInv, NEW r \in Rec, FoldJobWaits(r)
  PROVE  IInv'
<1> DEFINE e == JobWaits(r)
<1>1. /\ NextDue(e) /\ Commit(e, {}, <<>>) /\ e \in ApprovalEvent
      /\ job' = [job EXCEPT ![r] = IF @ = "none" THEN @ ELSE "waiting"]
      /\ UNCHANGED <<approved, results, item, acted, execs, faults>>
  BY EventsAreEvents DEF FoldJobWaits, history
<1>3. /\ Took(e, {})
      /\ TypedLog' /\ (RowsAreFresh => RowsAreFresh')
      /\ LoopInv' /\ Memory' = Memory
      /\ UNCHANGED <<pc, inFlight>> /\ pc = "batch"
  BY <1>1, FoldOfNothing DEF IInv, GateInv
<1>4. PICK ok \in BOOLEAN : TRUE
  OBVIOUS
<1>5. ASSUME NEW status, status = "waiting", NEW new, new = {}
      PROVE  /\ job[r] \in {"open", "waiting"} /\ job' = [job EXCEPT ![r] = status]
             /\ GateInv' /\ WorkInv'
  <2>1. /\ job[r] # "none" => job' = [job EXCEPT ![r] = status]
        /\ Took(e, new) /\ \A c \in new : c.type = "item.updated"
        /\ \/ e = JobWaits(r) /\ status = "waiting"
           \/ e = JobClosed(r, ok) /\ status \in {"succeeded", "failed"}
    BY <1>1, <1>3, <1>5
  <2> HIDE DEF e
  <2>2. QED
    BY <1>1, <1>3, <2>1, JobReportFolded DEF IInv
<1>6. /\ job[r] \in {"open", "waiting"} /\ job' = [job EXCEPT ![r] = "waiting"]
      /\ GateInv' /\ WorkInv'
  BY <1>5
<1>7. Typed'
  BY <1>1, <1>3, <1>6 DEF IInv, Typed, TypedLog
<1>8. FanOutIsFolded => FanOutIsFolded'
  BY <1>3, FanOutAfterFold
<1>9. ASSUME SettledInv
      PROVE  SettledInv'
  <2>1. \A q \in Rec, k \in BOOLEAN : Settled(q, k) \in log => q # r
    BY <1>6, <1>9 DEF SettledInv
  <2>2. \A q \in Rec : q # r => job'[q] = job[q]
    BY <1>6 DEF IInv, Typed
  <2>3. log' = log
    BY <1>3 DEF Took
  <2>4. QED
    BY <1>1, <1>9, <2>1, <2>2, <2>3, SettledStays
<1>10. QED
  BY <1>1, <1>3, <1>6, <1>7, <1>8, <1>9 DEF IInv, SmoothInv

LEMMA StepFoldJobClosed ==
  ASSUME IInv, NEW r \in Rec, NEW ok \in BOOLEAN, FoldJobClosed(r, ok)
  PROVE  IInv'
<1> DEFINE e == JobClosed(r, ok)
           status == IF ok THEN "succeeded" ELSE "failed"
           children == MaybeSettle(r, ok)
           new == Fresh(children)
<1>1. /\ NextDue(e) /\ Commit(e, children, <<>>) /\ e \in ApprovalEvent
      /\ job' = [job EXCEPT ![r] = IF @ = "none" THEN @ ELSE status]
      /\ UNCHANGED <<approved, results, item, acted, execs, faults>>
  BY EventsAreEvents DEF FoldJobClosed, history
<1>2. children \in SUBSET ApprovalEvent /\ \A c \in children : c.type = "item.updated"
  BY EventsAreEvents, EventFields DEF MaybeSettle
<1> HIDE DEF children
<1>3. /\ new \subseteq children /\ Took(e, new)
      /\ TypedLog' /\ (RowsAreFresh => RowsAreFresh')
      /\ LoopInv' /\ Memory' = Memory
      /\ UNCHANGED <<pc, inFlight>> /\ pc = "batch"
  BY <1>1, <1>2, FoldWithoutEffect DEF IInv, GateInv
<1> HIDE DEF new
<1>4. /\ job[r] # "none" => job' = [job EXCEPT ![r] = status]
      /\ \/ e = JobWaits(r) /\ status = "waiting"
         \/ e = JobClosed(r, ok) /\ status \in {"succeeded", "failed"}
      /\ \A c \in new : c.type = "item.updated"
  BY <1>1, <1>2, <1>3
<1> HIDE DEF e
<1>5. /\ job[r] \in {"open", "waiting"} /\ job' = [job EXCEPT ![r] = status]
      /\ GateInv' /\ WorkInv'
  <2> HIDE DEF status
  <2>1. QED
    BY <1>1, <1>3, <1>4, JobReportFolded DEF IInv
<1>6. Typed'
  BY <1>1, <1>3, <1>4, <1>5 DEF IInv, Typed, TypedLog
<1>7. FanOutIsFolded => FanOutIsFolded'
  BY <1>3, <1>4, FanOutAfterFold
<1>8. SettledInv => SettledInv'
  BY <1>1, <1>3, <1>5, JobSettles DEF IInv, children, e
<1>9. QED
  BY <1>1, <1>3, <1>5, <1>6, <1>7, <1>8 DEF IInv, SmoothInv

LEMMA StepFoldSettled ==
  ASSUME IInv, NEW r \in Rec, NEW ok \in BOOLEAN, FoldSettled(r, ok)
  PROVE  IInv'
<1> DEFINE e == Settled(r, ok)
<1>1. /\ NextDue(e) /\ Commit(e, {}, <<>>) /\ e \in ApprovalEvent
      /\ item' = [item EXCEPT ![r] = IF ok THEN "handled" ELSE "action_error"]
      /\ UNCHANGED <<approved, results, job, acted, execs, faults>>
  BY EventsAreEvents DEF FoldSettled, history
<1>3. /\ Took(e, {})
      /\ TypedLog' /\ (RowsAreFresh => RowsAreFresh')
      /\ LoopInv' /\ Memory' = Memory
      /\ UNCHANGED <<pc, inFlight>> /\ pc = "batch"
  BY <1>1, FoldOfNothing DEF IInv, GateInv
<1>4. GateInv' /\ WorkInv'
  BY <1>1, <1>3, SettledFolded DEF IInv
<1>5. Typed'
  BY <1>1, <1>3 DEF IInv, Typed, TypedLog
<1>6. FanOutIsFolded => FanOutIsFolded'
  BY <1>3, FanOutAfterFold
<1>7. SettledInv => SettledInv'
  BY <1>1, <1>3, QuietSettled DEF Took
<1>8. QED
  BY <1>1, <1>3, <1>4, <1>5, <1>6, <1>7 DEF IInv, SmoothInv

(* A failed transaction: only the row's attempts and its wait change.      *)
LEMMA StepFail ==
  ASSUME IInv, NEW e \in ApprovalEvent, Fail(e)
  PROVE  IInv'
<1>1. /\ NextDue(e) /\ RecordFailure(e) /\ faults' = faults + 1
      /\ UNCHANGED <<log, pendingEffects, inFlight, pc, approved, results, job, item, acted, execs>>
  BY DEF Fail, RecordFailure, tables
<1>2. TypedLog' /\ Rows' = Rows
  BY <1>1, QuietRows DEF IInv
<1>3. Typed' /\ faults' # 0
  BY <1>1, <1>2 DEF IInv, Typed, TypedLog
<1>4. Memory' = Memory /\ LoopInv'
  BY <1>1, <1>2, SameMemory DEF IInv, GateInv, LoopInv
<1>5. GateInv' /\ WorkInv'
  BY <1>1, <1>2, <1>4, QuietSteps DEF IInv
<1>6. QED
  BY <1>3, <1>5 DEF IInv, SmoothInv

(* What is only about the pool and the clock.                              *)
LEMMA QuietSmooth ==
  ASSUME SmoothInv, UNCHANGED <<faults, log, approved, results, job>>, Rows' = Rows,
         faults = 0 => (RowsAreFresh => RowsAreFresh'), inFlight' \subseteq inFlight,
         pc' # "batch" => Memory' = {} \/ (pc # "batch" /\ Memory' \subseteq Memory)
  PROVE  SmoothInv'
<1>1. ASSUME FanOutIsFolded
      PROVE  FanOutIsFolded'
  <2>1. \A q \in Rec : FanningOut(q)' <=> FanningOut(q)
    BY DEF FanningOut
  <2>2. \A q \in Rec : Reported(q)' <=> Reported(q)
    BY DEF Reported
  <2>3. QED
    BY <1>1, <2>1, <2>2, FanOutStays
<1>2. SettledInv => SettledInv'
  BY QuietSettled
<1>3. QED
  BY <1>1, <1>2 DEF SmoothInv

(* A plugin call takes effect: the first and last of this action.          *)
LEMMA StepExecute ==
  ASSUME IInv, NEW r \in Rec, NEW x \in Action, Execute(r, x)
  PROVE  /\ IInv'
         /\ approved[r] # None /\ x \in ActionsOf[approved[r]] /\ execs[r][x] = 0
         /\ execs' = [execs EXCEPT ![r][x] = 1]
<1> DEFINE f == ActionEffect(r, x)
<1>1. /\ pc = "idle" /\ f \in inFlight /\ f \notin acted /\ acted' = acted \cup {f}
      /\ execs' = [execs EXCEPT ![r][x] = @ + 1]
      /\ UNCHANGED <<log, queue, pendingEffects, inFlight, pc, approved, results, job, item, faults>>
  BY DEF Execute, tables
<1>2. /\ Rows' = Rows /\ Folded' = Folded /\ Memory' = Memory /\ TypedLog'
      /\ RowsAreFresh => RowsAreFresh'
  BY <1>1 DEF Rows, Folded, Memory, TypedLog, RowsAreFresh, FreshRow, IInv, Typed
<1>3. f \in Memory \ acted
  BY <1>1 DEF Memory
<1>4. execs[r][x] = 0 /\ ActionCreated(r, x) \in Folded
  BY <1>3 DEF IInv, GateInv, OriginInv, OnceInv
<1>5. approved[r] # None /\ x \in ActionsOf[approved[r]]
  BY <1>4 DEF IInv, GateInv, OriginInv, Folded
<1>6. /\ execs' = [execs EXCEPT ![r][x] = 1] /\ execs' \in [Rec -> [Action -> Nat]]
      /\ execs'[r][x] = 1
      /\ \A q \in Rec, y \in Action : ~ (q = r /\ y = x) => execs'[q][y] = execs[q][y]
  BY <1>1, <1>4 DEF IInv, Typed
<1>7. Typed'
  BY <1>1, <1>2, <1>6 DEF IInv, Typed, TypedLog
<1>8. \A q \in Rec : FixEffect(q) # f
  BY EventFields
<1>9. LoopInv'
  BY <1>1, <1>2, <1>8, SameMemory DEF IInv, GateInv, LoopInv
<1>10. GrantInv' /\ OriginInv'
  BY <1>1, <1>2 DEF IInv, GateInv, GrantInv, OriginInv
<1>11. OnceInv'
  BY <1>1, <1>2, <1>4, <1>6 DEF IInv, GateInv, OnceInv
<1>12. ActionInv' /\ JobInv'
  BY <1>1, <1>2 DEF IInv, WorkInv, ActionInv, JobInv
<1>13. FanOutInv' /\ OutcomeInv'
  BY <1>1 DEF IInv, WorkInv, FanOutInv, OutcomeInv
<1>14. SmoothInv'
  BY <1>1, <1>2, QuietSmooth DEF IInv
<1>15. QED
  BY <1>4, <1>5, <1>6, <1>7, <1>9, <1>10, <1>11, <1>12, <1>13, <1>14 DEF IInv, GateInv, WorkInv

(* An effect's last word is a new fact.                                    *)
LEMMA ReturnPosts ==
  ASSUME Typed, GateInv, NEW f, NEW e \in ApprovalEvent, EffectReturns(f, e), e \notin log,
         e.type \notin {"approval.created", "item.updated"}, acted' = acted \ {f},
         UNCHANGED <<approved, results, job, item, execs, faults>>
  PROVE  /\ Typed' /\ LoopInv' /\ Posted(e) /\ (RowsAreFresh => RowsAreFresh')
         /\ f \in Memory /\ f \notin Memory' /\ pc = "idle" /\ pc' = pc
<1>1. /\ LoopInv' /\ f \in Memory /\ Memory' = Memory \ {f}
      /\ Memory' \ acted' \subseteq Memory \ acted
      /\ pc = "idle" /\ pc' = pc
  BY ReturnMemory DEF GateInv
<1>2. Enqueue({e}) /\ Accepts(e)
  BY KeylessAccepted DEF EffectReturns
<1>3. /\ TypedLog' /\ (RowsAreFresh => RowsAreFresh')
      /\ log' = log \cup {e} /\ Rows' = Rows \cup {e}
  BY <1>2, EnqueueRows
<1>4. Typed'
  BY <1>1, <1>3 DEF Typed, TypedLog
<1>5. Posted(e)
  BY <1>1, <1>3 DEF Posted
<1>6. QED
  BY <1>1, <1>3, <1>4, <1>5

(* A report does not disturb what holds where nothing fails.               *)
LEMMA ReportKeepsSmooth ==
  ASSUME SmoothInv, NEW e, Posted(e), Memory # {}, pc # "batch", faults' = faults,
         e.type \notin {"action.created", "job.created", "item.updated"},
         RowsAreFresh => RowsAreFresh'
  PROVE  SmoothInv'
<1>1. FanOutIsFolded => FanOutIsFolded'
  BY FanOutAfterReport
<1>2. \A q, k : Settled(q, k) # e
  BY EventFields
<1>3. SettledInv => SettledInv'
  BY <1>2, SettledStays DEF Posted
<1>4. QED
  BY <1>1, <1>3 DEF SmoothInv

LEMMA StepReturnAction ==
  ASSUME IInv, NEW r \in Rec, NEW x \in Action, NEW ok \in BOOLEAN, ReturnAction(r, x, ok)
  PROVE  IInv'
<1> DEFINE e == ActionClosed(r, x, ok)
           f == ActionEffect(r, x)
<1>1. /\ EffectReturns(f, e) /\ acted' = acted \ {f} /\ f \in inFlight
      /\ e \in ApprovalEvent /\ e.type = "action.closed"
      /\ UNCHANGED <<approved, results, job, item, execs, faults>>
  BY EventsAreEvents, EventFields DEF ReturnAction, EffectReturns, tables, history
<1>2. e \notin log
  BY <1>1 DEF IInv, WorkInv, ActionInv, Memory
<1>3. /\ Typed' /\ LoopInv' /\ Posted(e) /\ (RowsAreFresh => RowsAreFresh')
      /\ f \in Memory /\ f \notin Memory' /\ pc = "idle" /\ pc' = pc
  BY <1>1, <1>2, ReturnPosts DEF IInv
<1>4. GateInv' /\ WorkInv'
  BY <1>3, ActionReported DEF IInv
<1>5. SmoothInv'
  <2> HIDE DEF e
  <2>1. QED
    BY <1>1, <1>3, ReportKeepsSmooth DEF IInv
<1>6. QED
  BY <1>3, <1>4, <1>5 DEF IInv

(* Both answers of a fix.                                                  *)
LEMMA StepFixReports ==
  ASSUME IInv, NEW r \in Rec, NEW ok \in BOOLEAN, NEW e, e \in {JobWaits(r), JobClosed(r, ok)},
         EffectReturns(FixEffect(r), e),
         UNCHANGED <<acted, approved, results, job, item, execs, faults>>
  PROVE  IInv'
<1> DEFINE f == FixEffect(r)
<1>1. e \in ApprovalEvent /\ e.type \in {"job.updated", "job.closed"}
  BY EventsAreEvents, EventFields
<1>2. f \in inFlight /\ f \in Memory
  BY DEF EffectReturns, Memory
<1>3. e \notin log
  BY <1>2 DEF IInv, WorkInv, JobInv
<1>4. acted' = acted \ {f}
  BY DEF IInv, GateInv, LoopInv
<1>5. /\ Typed' /\ LoopInv' /\ Posted(e) /\ (RowsAreFresh => RowsAreFresh')
      /\ f \notin Memory' /\ pc = "idle" /\ pc' = pc
  BY <1>1, <1>3, <1>4, ReturnPosts DEF IInv
<1>6. GateInv' /\ WorkInv'
  BY <1>2, <1>5, JobReported DEF IInv
<1>7. SmoothInv'
  BY <1>1, <1>2, <1>5, ReportKeepsSmooth DEF IInv
<1>8. QED
  BY <1>5, <1>6, <1>7 DEF IInv

LEMMA StepReturnFix ==
  ASSUME IInv, NEW r \in Rec, NEW ok \in BOOLEAN, ReturnFix(r, ok)
  PROVE  IInv'
<1>1. /\ EffectReturns(FixEffect(r), JobClosed(r, ok))
      /\ UNCHANGED <<acted, approved, results, job, item, execs, faults>>
  BY DEF ReturnFix, tables, history
<1>2. JobClosed(r, ok) \in {JobWaits(r), JobClosed(r, ok)}
  OBVIOUS
<1>3. QED
  BY <1>1, <1>2, StepFixReports

LEMMA StepFixMustWait ==
  ASSUME IInv, NEW r \in Rec, FixMustWait(r)
  PROVE  IInv'
<1>1. /\ EffectReturns(FixEffect(r), JobWaits(r))
      /\ UNCHANGED <<acted, approved, results, job, item, execs, faults>>
  BY DEF FixMustWait, tables, history
<1>2. PICK ok \in BOOLEAN : TRUE
  OBVIOUS
<1>3. JobWaits(r) \in {JobWaits(r), JobClosed(r, ok)}
  OBVIOUS
<1>4. QED
  BY <1>1, <1>3, StepFixReports

(* The probe of a waiting job finds its pull request, or found it before.  *)
LEMMA StepProbeFinds ==
  ASSUME IInv, NEW r \in Rec, ProbeFinds(r)
  PROVE  IInv'
<1>1. PICK ok \in BOOLEAN : ok = TRUE
  OBVIOUS
<1> DEFINE e == JobClosed(r, ok)
<1>2. /\ Enqueue({e}) /\ pc = "idle" /\ job[r] = "waiting"
      /\ UNCHANGED <<pendingEffects, inFlight, pc, approved, results, job, item, acted, execs, faults>>
  BY <1>1 DEF ProbeFinds, tables, history
<1>3. e \in ApprovalEvent /\ e.type = "job.closed"
  BY EventsAreEvents, EventFields
<1>4. /\ TypedLog' /\ (RowsAreFresh => RowsAreFresh')
      /\ \/ ~ Accepts(e) /\ UNCHANGED <<log, queue>>
         \/ Accepts(e) /\ e \notin log /\ log' = log \cup {e} /\ Rows' = Rows \cup {e}
  BY <1>2, <1>3, EnqueueRows DEF IInv
<1>5. Typed'
  BY <1>2, <1>4 DEF IInv, Typed, TypedLog
<1>6. Memory' = Memory
  BY <1>2, SameMemory
<1>7. LoopInv'
  BY <1>2, <1>4, <1>6, SameMemory DEF IInv, GateInv, LoopInv, Rows
<1>8. CASE ~ Accepts(e) /\ UNCHANGED <<log, queue>>
  <2>1. log' = log /\ Rows' = Rows
    BY <1>8 DEF Rows
  <2>2. GateInv' /\ WorkInv'
    BY <1>2, <1>6, <1>7, <2>1, QuietSteps DEF IInv
  <2>3. SmoothInv'
    BY <1>2, <1>4, <1>6, <2>1, QuietSmooth DEF IInv
  <2>4. QED
    BY <1>5, <2>2, <2>3 DEF IInv
<1>9. CASE e \notin log /\ log' = log \cup {e} /\ Rows' = Rows \cup {e}
  <2>1. Posted(e)
    BY <1>2, <1>6, <1>9 DEF Posted
  <2>2. FixEffect(r) \notin Memory' /\ JobWaits(r) \in log
    BY <1>2, <1>6 DEF IInv, WorkInv, JobInv
  <2>3. GateInv' /\ WorkInv'
    BY <1>1, <1>2, <1>7, <2>1, <2>2, JobReported DEF IInv
  <2>4. /\ \A q, y : ActionCreated(q, y) # e
        /\ \A q, y, k : ActionClosed(q, y, k) # e
        /\ \A q : JobCreated(q) # e /\ JobWaits(q) # e
        /\ \A q, k : JobClosed(q, k) = e => q = r
        /\ \A q, k : Settled(q, k) # e
    BY EventFields
  <2> HIDE DEF e
  <2>5. FanOutIsFolded => FanOutIsFolded'
    <3>1. \A q \in Rec : FanningOut(q)' => FanningOut(q)
      BY <1>9, <2>4 DEF FanningOut
    <3>2. \A q \in Rec : Reported(q)' => Reported(q)
      BY <1>9, <2>2, <2>4 DEF Reported
    <3>3. QED
      BY <1>2, <1>6, <3>1, <3>2, FanOutStays
  <2>6. SettledInv => SettledInv'
    BY <1>2, <1>9, <2>4, SettledStays
  <2>7. QED
    BY <1>2, <1>4, <1>5, <2>3, <2>5, <2>6 DEF IInv, SmoothInv
<1>10. QED
  BY <1>4, <1>8, <1>9

LEMMA StepBegin ==
  ASSUME IInv, Begin
  PROVE  IInv'
<1>1. /\ pc' = "batch"
      /\ UNCHANGED <<log, queue, pendingEffects, inFlight, approved, results, job, item, acted,
                     execs, faults>>
  BY DEF Begin, BeginBatch, tables, history
<1>2. /\ Rows' = Rows /\ Memory' = Memory /\ TypedLog'
      /\ RowsAreFresh => RowsAreFresh'
  BY <1>1 DEF Rows, Memory, TypedLog, RowsAreFresh, FreshRow, IInv, Typed
<1>3. Typed'
  BY <1>1, <1>2 DEF IInv, Typed, TypedLog
<1>4. LoopInv'
  BY <1>1, <1>2, SameMemory DEF IInv, GateInv, LoopInv
<1>5. GateInv' /\ WorkInv'
  BY <1>1, <1>2, <1>4, QuietSteps DEF IInv
<1>6. SmoothInv'
  BY <1>1, <1>2, QuietSmooth DEF IInv
<1>7. QED
  BY <1>3, <1>5, <1>6 DEF IInv

(* The batch ends and the pool takes what it can: nothing that fanned out  *)
(* is still a row, unless it waits for a retry.                            *)
LEMMA StepFinish ==
  ASSUME IInv, Finish
  PROVE  IInv'
<1>1. /\ pc = "batch" /\ pc' = "idle" /\ \A e \in ApprovalEvent : ~ Due(e)
      /\ Pump(pendingEffects, inFlight)
      /\ UNCHANGED <<log, queue, approved, results, job, item, acted, execs, faults>>
  BY DEF Finish, EndBatch, tables, history
<1>2. /\ LoopMemory(ApprovalEffect, pendingEffects, inFlight, MaxConcurrency)'
      /\ Memory' = Memory /\ inFlight \subseteq inFlight'
  <2>1. inFlight \in SUBSET inFlight
    OBVIOUS
  <2>2. QED
    BY <1>1, <2>1, PumpKeepsMemory DEF IInv, GateInv, LoopInv, Memory
<1>3. /\ Rows' = Rows /\ TypedLog' /\ (RowsAreFresh => RowsAreFresh')
  BY <1>1 DEF Rows, TypedLog, RowsAreFresh, FreshRow, IInv, Typed
<1>4. Typed'
  BY <1>1, <1>3 DEF IInv, Typed, TypedLog
<1>5. LoopInv'
  BY <1>1, <1>2, <1>3 DEF IInv, GateInv, LoopInv
<1>6. GateInv' /\ WorkInv'
  BY <1>1, <1>2, <1>3, <1>5, QuietSteps DEF IInv
<1>7. RowsAreFresh => FanOutIsFolded'
  BY <1>1, <1>3, FanOutAfterBatch
<1>8. SettledInv => SettledInv'
  BY <1>1, QuietSettled
<1>9. QED
  BY <1>1, <1>3, <1>4, <1>6, <1>7, <1>8 DEF IInv, SmoothInv

LEMMA StepPass ==
  ASSUME IInv, Pass
  PROVE  IInv'
<1>1. /\ Tick
      /\ UNCHANGED <<log, pendingEffects, inFlight, pc, approved, results, job, item, acted,
                     execs, faults>>
  BY DEF Pass, Tick, tables, history
<1>2. TypedLog' /\ Rows' = Rows
  BY <1>1, QuietRows DEF IInv
<1>3. Typed'
  BY <1>1, <1>2 DEF IInv, Typed, TypedLog
<1>4. Memory' = Memory /\ LoopInv'
  BY <1>1, <1>2, SameMemory DEF IInv, GateInv, LoopInv
<1>5. GateInv' /\ WorkInv'
  BY <1>1, <1>2, <1>4, QuietSteps DEF IInv
<1>6. ~ RowsAreFresh
  BY <1>1, FreshRowTyped DEF Tick, RowsAreFresh, NoRow
<1>7. SmoothInv'
  BY <1>1, <1>6 DEF IInv, SmoothInv
<1>8. QED
  BY <1>3, <1>5, <1>7 DEF IInv

(* The memory is lost; the log and the tables keep what they have.         *)
LEMMA StepCrash ==
  ASSUME IInv, Crash
  PROVE  IInv'
<1>1. /\ pc' = "down" /\ pendingEffects' = <<>> /\ inFlight' = {} /\ acted' = {}
      /\ UNCHANGED <<log, queue, approved, results, job, item, execs, faults>>
  BY DEF Crash, Halt, tables
<1>2. /\ LoopMemory(ApprovalEffect, pendingEffects, inFlight, MaxConcurrency)'
      /\ Memory' = {}
  BY <1>1, EmptyMemory, LimitIsNat DEF Memory
<1>3. /\ Rows' = Rows /\ TypedLog' /\ (RowsAreFresh => RowsAreFresh')
  BY <1>1 DEF Rows, TypedLog, RowsAreFresh, FreshRow, IInv, Typed
<1>4. Typed'
  BY <1>1, <1>3 DEF IInv, Typed, TypedLog
<1>5. LoopInv'
  BY <1>1, <1>2, <1>3 DEF IInv, GateInv, LoopInv
<1>6. GateInv' /\ WorkInv'
  BY <1>1, <1>2, <1>3, <1>5, QuietSteps DEF IInv
<1>7. SmoothInv'
  BY <1>1, <1>2, <1>3, QuietSmooth DEF IInv
<1>8. QED
  BY <1>4, <1>6, <1>7 DEF IInv

LEMMA StepRecover ==
  ASSUME IInv, Recover
  PROVE  IInv'
<1>1. /\ pc = "down" /\ pc' = "idle"
      /\ UNCHANGED <<log, queue, pendingEffects, inFlight, approved, results, job, item, acted,
                     execs, faults>>
  BY DEF Recover, Restart, tables, history
<1>2. /\ Rows' = Rows /\ Memory' = Memory /\ TypedLog'
      /\ RowsAreFresh => RowsAreFresh'
  BY <1>1 DEF Rows, Memory, TypedLog, RowsAreFresh, FreshRow, IInv, Typed
<1>3. Typed'
  BY <1>1, <1>2 DEF IInv, Typed, TypedLog
<1>4. LoopInv'
  BY <1>1, <1>2, SameMemory DEF IInv, GateInv, LoopInv
<1>5. GateInv' /\ WorkInv'
  BY <1>1, <1>2, <1>4, QuietSteps DEF IInv
<1>6. SmoothInv'
  BY <1>1, <1>2, QuietSmooth DEF IInv
<1>7. QED
  BY <1>3, <1>5, <1>6 DEF IInv

LEMMA StepStutter ==
  ASSUME IInv, UNCHANGED vars
  PROVE  IInv'
<1>1. UNCHANGED <<log, queue, pendingEffects, inFlight, pc, approved, results, job, item, acted,
                  execs, faults>>
  BY DEF vars, tables, history
<1>2. /\ Rows' = Rows /\ Memory' = Memory /\ TypedLog'
      /\ RowsAreFresh => RowsAreFresh'
  BY <1>1 DEF Rows, Memory, TypedLog, RowsAreFresh, FreshRow, IInv, Typed
<1>3. Typed'
  BY <1>1, <1>2 DEF IInv, Typed, TypedLog
<1>4. LoopInv'
  BY <1>1, <1>2, SameMemory DEF IInv, GateInv, LoopInv
<1>5. GateInv' /\ WorkInv'
  BY <1>1, <1>2, <1>4, QuietSteps DEF IInv
<1>6. SmoothInv'
  BY <1>1, <1>2, QuietSmooth DEF IInv
<1>7. QED
  BY <1>3, <1>5, <1>6 DEF IInv

LEMMA NextIInv ==
  ASSUME IInv, [Next]_vars
  PROVE  IInv'
<1>1. CASE UNCHANGED vars
  BY <1>1, StepStutter
<1>2. CASE \E r \in Rec, o \in Option : Approve(r, o)
  BY <1>2, StepApprove
<1>3. ASSUME NEW r \in Rec, Fold(r)
      PROVE  IInv'
  BY <1>3, StepFoldApproval, StepFoldActionCreated, StepFoldActionClosed, StepFoldJobCreated,
     StepFoldJobWaits, StepFoldJobClosed, StepFoldSettled DEF Fold
<1>4. CASE \E r \in Rec : FixMustWait(r) \/ ProbeFinds(r)
  BY <1>4, StepFixMustWait, StepProbeFinds
<1>5. CASE \E e \in ApprovalEvent : Fail(e)
  BY <1>5, StepFail
<1>6. CASE \E r \in Rec, x \in Action : Execute(r, x)
  BY <1>6, StepExecute
<1>7. CASE \E r \in Rec, x \in Action, ok \in BOOLEAN : ReturnAction(r, x, ok)
  BY <1>7, StepReturnAction
<1>8. CASE \E r \in Rec, ok \in BOOLEAN : ReturnFix(r, ok)
  BY <1>8, StepReturnFix
<1>9. CASE Begin \/ Finish \/ Pass \/ Crash \/ Recover
  BY <1>9, StepBegin, StepFinish, StepPass, StepCrash, StepRecover
<1>10. QED
  BY <1>1, <1>2, <1>3, <1>4, <1>5, <1>6, <1>7, <1>8, <1>9 DEF Next

LEMMA AlwaysIInv == Spec => []IInv
<1>1. IInv /\ [Next]_vars => IInv'
  BY NextIInv
<1>2. QED
  BY InitIInv, <1>1, PTL DEF Spec

-----------------------------------------------------------------------------
(* What follows                                                            *)

(* Only actions of the one approved option reach the outside world, each   *)
(* on record before and at most once, over retries, repeated approvals and *)
(* deaths of the daemon (gateCheck, fanOut, effects after the commit).     *)
THEOREM OnlyTheApproved == Spec => []OnlyApprovedActionsExecute
<1>1. IInv => OnlyApprovedActionsExecute
  <2> SUFFICES ASSUME IInv, NEW r \in Rec, NEW x \in Action, execs[r][x] > 0
               PROVE  /\ approved[r] # None /\ x \in ActionsOf[approved[r]]
                      /\ results[r][x] # "none" /\ execs[r][x] = 1
    BY DEF OnlyApprovedActionsExecute
  <2>1. ActionCreated(r, x) \in Folded /\ execs[r][x] <= 1 /\ execs[r][x] \in Nat
    BY DEF IInv, GateInv, OnceInv, Typed
  <2>2. execs[r][x] = 1
    BY <2>1
  <2>3. approved[r] # None /\ x \in ActionsOf[approved[r]] /\ results[r][x] # "none"
    BY <2>1 DEF IInv, GateInv, OriginInv, Folded
  <2>4. QED
    BY <2>2, <2>3
<1>2. QED
  BY AlwaysIInv, <1>1, PTL

(* As long as no transaction failed, an item that is settled has no work   *)
(* under way, in whatever order its actions and its job close              *)
(* (checkComplete and maybeSettle).                                        *)
THEOREM SettledIsQuiet == Spec => []SettledMeansQuiet
<1>1. IInv => SettledMeansQuiet
  <2> SUFFICES ASSUME IInv, faults = 0, NEW r \in Rec, item[r] \in {"handled", "action_error"}
               PROVE  /\ ~ Running(r) /\ job[r] \notin {"open", "waiting"}
                      /\ \A f \in inFlight : f.rec # r
    BY DEF SettledMeansQuiet
  <2>1. PICK ok \in BOOLEAN : item[r] = IF ok THEN "handled" ELSE "action_error"
    OBVIOUS
  <2>2. Settled(r, ok) \in log
    BY <2>1 DEF IInv, WorkInv, OutcomeInv
  <2>3. ~ Running(r) /\ job[r] \notin {"open", "waiting"}
    BY <2>2 DEF IInv, SmoothInv, SettledInv
  <2>4. FixEffect(r) \notin Memory
    BY <2>3 DEF IInv, WorkInv, JobInv
  <2>5. \A x \in Action : ActionEffect(r, x) \notin Memory
    BY <2>3 DEF IInv, WorkInv, ActionInv, Running
  <2>6. ASSUME NEW f \in inFlight, f.rec = r
        PROVE  FALSE
    <3>1. f \in ApprovalEffect /\ f \in Memory
      BY DEF IInv, GateInv, LoopInv, LoopMemory, Memory
    <3>2. CASE \E q \in Rec, x \in Action : f = ActionEffect(q, x)
      BY <2>5, <2>6, <3>1, <3>2, EventFields
    <3>3. CASE \E q \in Rec : f = FixEffect(q)
      BY <2>4, <2>6, <3>1, <3>3, EventFields
    <3>4. QED
      BY <3>1, <3>2, <3>3 DEF ApprovalEffect
  <2>7. QED
    BY <2>3, <2>6
<1>2. QED
  BY AlwaysIInv, <1>1, PTL

(* An item is settled one way, and whoever settled it had seen all of its  *)
(* own side of the work: the fan-out of an approval is folded before the   *)
(* first of its effects starts.                                            *)
THEOREM OutcomesAreGrounded == Spec => []OutcomeHasAGround
<1>1. IInv => OutcomeHasAGround
  <2> SUFFICES ASSUME IInv, faults = 0, NEW r \in Rec
               PROVE  /\ ~ {Settled(r, TRUE), Settled(r, FALSE)} \subseteq log
                      /\ item[r] = "handled" =>
                           job[r] = "succeeded" \/ \A x \in RequiredOf(r) : results[r][x] = "succeeded"
                      /\ item[r] = "action_error" =>
                           job[r] = "failed" \/ \E x \in RequiredOf(r) : results[r][x] = "failed"
    BY DEF OutcomeHasAGround
  <2>1. SettledInv
    BY DEF IInv, SmoothInv
  <2>2. ~ {Settled(r, TRUE), Settled(r, FALSE)} \subseteq log
    BY <2>1 DEF SettledInv
  <2>3. \A ok \in BOOLEAN : item[r] = (IF ok THEN "handled" ELSE "action_error") => Ground(r, ok)
    BY <2>1 DEF SettledInv, IInv, WorkInv, OutcomeInv
  <2>4. QED
    BY <2>2, <2>3 DEF Ground
<1>2. QED
  BY AlwaysIInv, <1>1, PTL

-----------------------------------------------------------------------------
(* The gate                                                                *)

Performed == {p \in Rec \X Action : execs[p[1]][p[2]] > 0}

(* Every step is one of the gate's, or none of its business.               *)
LEMMA GateSteps ==
  ASSUME IInv, [Next]_vars
  PROVE  \/ \E r \in Rec : \E o \in Offers[r] : Gate!Grant(r, o)
         \/ \E r \in Rec, x \in Action : Gate!Perform(r, x)
         \/ UNCHANGED <<approved, Performed>>
<1>1. UNCHANGED execs => Performed' = Performed
  BY DEF Performed
<1>2. ASSUME NEW r \in Rec, NEW o \in Option, FoldApproval(r, o)
      PROVE  o \in Offers[r] /\ Gate!Grant(r, o)
  <2>1. approved[r] = None /\ o \in Offers[r] /\ approved' = [approved EXCEPT ![r] = o]
    BY <1>2, StepFoldApproval
  <2>2. Performed' = Performed
    BY <1>1, <1>2 DEF FoldApproval, history
  <2>3. QED
    BY <2>1, <2>2 DEF Gate!Grant, Performed
<1>3. ASSUME NEW r \in Rec, NEW x \in Action, Execute(r, x)
      PROVE  Gate!Perform(r, x)
  <2>1. /\ approved[r] # None /\ x \in ActionsOf[approved[r]] /\ execs[r][x] = 0
        /\ execs' = [execs EXCEPT ![r][x] = 1]
    BY <1>3, StepExecute
  <2>2. /\ execs'[r][x] = 1
        /\ \A q \in Rec, y \in Action : ~ (q = r /\ y = x) => execs'[q][y] = execs[q][y]
    BY <2>1 DEF IInv, Typed
  <2>3. \A q \in Rec, y \in Action :
          <<q, y>> \in Performed' <=> <<q, y>> \in Performed \/ <<q, y>> = <<r, x>>
    BY <2>1, <2>2 DEF Performed
  <2>4. Performed' = Performed \cup {<<r, x>>} /\ <<r, x>> \notin Performed
    <3>1. Performed \subseteq Rec \X Action /\ Performed' \subseteq Rec \X Action
      BY DEF Performed
    <3>2. <<r, x>> \notin Performed
      BY <2>1 DEF Performed
    <3>3. QED
      BY <2>3, <3>1, <3>2
  <2>5. approved' = approved
    BY <1>3 DEF Execute, tables
  <2>6. QED
    BY <2>1, <2>4, <2>5 DEF Gate!Perform, Performed
<1>4. ASSUME NEW r \in Rec, Fold(r)
      PROVE  (\E o \in Option : FoldApproval(r, o)) \/ UNCHANGED <<approved, execs>>
  BY <1>4 DEF Fold, FoldActionCreated, FoldActionClosed, FoldJobCreated, FoldJobWaits, FoldJobClosed,
     FoldSettled, history
<1>5. CASE Next
  <2>1. CASE \E r \in Rec : Fold(r)
    BY <1>1, <1>2, <1>4, <2>1
  <2>2. CASE \E r \in Rec, x \in Action : Execute(r, x)
    BY <1>3, <2>2
  <2>3. CASE \/ \E r \in Rec, o \in Option : Approve(r, o)
             \/ \E r \in Rec : FixMustWait(r) \/ ProbeFinds(r)
             \/ \E e \in ApprovalEvent : Fail(e)
             \/ \E r \in Rec, x \in Action, ok \in BOOLEAN : ReturnAction(r, x, ok)
             \/ \E r \in Rec, ok \in BOOLEAN : ReturnFix(r, ok)
             \/ Begin \/ Finish \/ Pass \/ Crash \/ Recover
    <3>1. UNCHANGED <<approved, execs>>
      BY <2>3 DEF Approve, FixMustWait, ProbeFinds, Fail, ReturnAction, ReturnFix, Begin, Finish,
         Pass, Crash, Recover, tables, history
    <3>2. QED
      BY <1>1, <3>1
  <2>4. QED
    BY <1>5, <2>1, <2>2, <2>3 DEF Next
<1>6. CASE UNCHANGED vars
  BY <1>1, <1>6 DEF vars, tables, history
<1>7. QED
  BY <1>5, <1>6

(* The daemon implements the gate of ApprovalGate: an option is granted    *)
(* once, of those the recommendation offers, and what reaches the outside  *)
(* world is an action of the option granted, never twice.                  *)
THEOREM GateIsKept == Spec => KeepsTheGate
<1>1. Init => Gate!Init
  <2> SUFFICES ASSUME Init
               PROVE  Gate!Init
    OBVIOUS
  <2>1. approved = [r \in Rec |-> None] /\ \A p \in Rec \X Action : execs[p[1]][p[2]] = 0
    BY DEF Init
  <2>2. {p \in Rec \X Action : execs[p[1]][p[2]] > 0} = {}
    BY <2>1
  <2>3. QED
    BY <2>1, <2>2 DEF Gate!Init
<1>2. IInv /\ [Next]_vars => [Gate!Next]_<<approved, Performed>>
  BY GateSteps DEF Gate!Next
<1>3. QED
  BY AlwaysIInv, <1>1, <1>2, PTL DEF Spec, KeepsTheGate, Gate!Spec, Performed
=============================================================================
