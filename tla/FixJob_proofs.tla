---------------------------- MODULE FixJob_proofs ----------------------------
(***************************************************************************)
(* Proofs about FixJob: however many probes, attaches, failed transactions *)
(* and deaths of the daemon there are, a job is not stranded while the     *)
(* daemon lives, and a late answer reopens it only into the rotation.      *)
(***************************************************************************)
EXTENDS FixJob, EventLoop_proofs

-----------------------------------------------------------------------------
(* The inductive invariant                                                 *)

Rows == {e \in JobEvent : queue[e] # NoRow}

(* Committed: in the log, and its row is gone.                             *)
Folded == log \ Rows

Memory == Range(pendingEffects) \cup inFlight

Effects == {FixEffect} \cup Probe

(* What the fix effect leaves behind, whichever way it ends.               *)
Outcome == {Waits(0), Closes(TRUE, 0), Closes(FALSE, 0)}

JobPhase == {"none", "pending", "waiting_for_pr", "succeeded", "failed"} \cup Progress

QueueRow == {NoRow} \cup [status : {"pending", "dead_letter"}, wait : Int, attempts : Nat]

Typed ==
  /\ log \subseteq JobEvent /\ queue \in [JobEvent -> QueueRow]
  /\ job \in [status : {"none", "queued", "running", "succeeded", "failed"},
              phase : JobPhase, next : Int]
  /\ probes \in 0..MaxProbes /\ attaches \in 0..MaxAttaches /\ crashes \in Nat

(* Every row has its fact, and the memory every effect once.               *)
LoopInv ==
  /\ Rows \subseteq log
  /\ LoopMemory(Effects, pendingEffects, inFlight, MaxConcurrency)

(* The fix runs once, and leaves its outcome as it leaves the memory,      *)
(* unless the daemon dies.                                                 *)
CarrierInv ==
  /\ FixEffect \in Memory => Outcome \cap log = {}
  /\ JobCreated \in Folded /\ crashes = 0 => FixEffect \in Memory \/ Outcome \cap log # {}
  /\ pc = "down" => crashes > 0

(* What a fact or an effect comes from.                                    *)
CauseInv ==
  /\ JobCreated \in log
  /\ log # {JobCreated} \/ Memory # {} \/ job.status # "none" => JobCreated \in Folded
  /\ \A n \in Probe : n \in Memory => n <= probes /\ Waits(0) \in Folded
  /\ \A n \in Probe : Waits(n) \in log \/ Closes(TRUE, n) \in log => Waits(0) \in Folded
  /\ \A c \in Attach : Attaches(c) \in log => Waits(0) \in Folded
  /\ job.phase = "waiting_for_pr" => Waits(0) \in Folded
  /\ closed => Outcome \cap Folded # {}

(* The progress events that are on the queue come before the outcome.      *)
OrderInv ==
  ~ strayed => \A p \in Progress : JobProgress(p) \in Rows =>
    /\ Pending(JobProgress(p)) /\ queue[JobProgress(p)].wait <= 0
    /\ \A e \in Outcome : e \notin Folded
    /\ \A e \in Outcome : e \in Rows =>
         Pending(e) /\ queue[JobProgress(p)].wait < queue[e].wait

(* Once the outcome has been folded the job is closed or waits, and what   *)
(* waits has a clock.                                                      *)
RowInv ==
  /\ ~ strayed /\ Outcome \cap Folded # {} => job.status \in {"succeeded", "failed"} \/ Waiting
  /\ Waiting => job.next >= 0

IInv == Typed /\ LoopInv /\ CarrierInv /\ CauseInv /\ OrderInv /\ RowInv

-----------------------------------------------------------------------------
(* Events                                                                  *)

LEMMA EventFields ==
  /\ JobCreated.type = "created"
  /\ \A p : JobProgress(p).type = p
  /\ \A n : Waits(n).type = "waits" /\ Waits(n).by = n
  /\ \A ok, n : Closes(ok, n).type = (IF ok THEN "succeeded" ELSE "failed") /\ Closes(ok, n).by = n
  /\ \A c : Attaches(c).type = "attach"
  /\ \A ok : Settled(ok).type = IF ok THEN "handled" ELSE "action_error"
BY DEF JobCreated, JobProgress, Waits, Closes, Attaches, Settled, Evt

LEMMA EventsAreEvents ==
  /\ JobCreated \in JobEvent
  /\ \A p \in Progress : JobProgress(p) \in JobEvent
  /\ \A n \in Probe \cup {0} : Waits(n) \in JobEvent /\ Closes(TRUE, n) \in JobEvent
  /\ Closes(FALSE, 0) \in JobEvent
  /\ \A c \in Attach : Attaches(c) \in JobEvent
  /\ \A ok \in BOOLEAN : Settled(ok) \in JobEvent
  /\ Outcome \subseteq JobEvent
<1>1. JobCreated \in JobEvent /\ Closes(FALSE, 0) \in JobEvent
  BY DEF JobEvent
<1>2. Settled(TRUE) \in JobEvent /\ Settled(FALSE) \in JobEvent
  BY DEF JobEvent
<1>3. \A p \in Progress : JobProgress(p) \in JobEvent
  BY DEF JobEvent
<1>4. \A n \in Probe \cup {0} : Waits(n) \in JobEvent
  BY DEF JobEvent
<1>5. \A n \in Probe \cup {0} : Closes(TRUE, n) \in JobEvent
  BY DEF JobEvent
<1>6. \A c \in Attach : Attaches(c) \in JobEvent
  BY DEF JobEvent
<1>7. Outcome \subseteq JobEvent
  BY <1>1, <1>4, <1>5 DEF Outcome
<1> QED
  BY <1>1, <1>2, <1>3, <1>4, <1>5, <1>6, <1>7

(* ... and nothing else is.                                                *)
LEMMA EventsAreThese ==
  ASSUME NEW e \in JobEvent
  PROVE  \/ e = JobCreated \/ \E p \in Progress : e = JobProgress(p)
         \/ \E n \in Probe \cup {0} : e = Waits(n) \/ e = Closes(TRUE, n)
         \/ e = Closes(FALSE, 0) \/ \E c \in Attach : e = Attaches(c)
         \/ \E ok \in BOOLEAN : e = Settled(ok)
BY DEF JobEvent

(* An outcome is accepted, unless it is there.                             *)
LEMMA OutcomesAreAccepted ==
  ASSUME NEW e \in Outcome, e \notin log
  PROVE  Accepts(e)
<1>1. e.type \in {"waits", "succeeded", "failed"} /\ e \in JobEvent
  <2>1. /\ Waits(0).type = "waits" /\ Closes(TRUE, 0).type = "succeeded"
        /\ Closes(FALSE, 0).type = "failed"
    BY DEF Waits, Closes, Evt
  <2> QED
    BY <2>1, EventsAreEvents DEF Outcome
<1>2. ~ IsSettlement(e)
  BY <1>1 DEF IsSettlement
<1> HIDE DEF IsSettlement
<1>3. ~ Duplicate(e)
  BY <1>1, <1>2 DEF Duplicate
<1> QED
  BY <1>1, <1>2, <1>3 DEF Accepts

-----------------------------------------------------------------------------
(* What the loop does to the log, its rows and the memory                  *)

TypedLog == log \subseteq JobEvent /\ queue \in [JobEvent -> QueueRow]

LEMMA LimitIsNat == MaxConcurrency \in Nat
BY FixJobAssumption DEF LoopAssumption

LEMMA FreshRowTyped ==
  ASSUME NEW e \in JobEvent
  PROVE  /\ FreshRow(e) \in QueueRow /\ FreshRow(e) # NoRow
         /\ FreshRow(e).status = "pending" /\ FreshRow(e).wait = 0
BY DEF FreshRow, NoRow, Status, QueueRow

(* enqueue: a fact and its row, or nothing.                                *)
LEMMA EnqueueRows ==
  ASSUME TypedLog, Rows \subseteq log, NEW e \in JobEvent, Enqueue({e})
  PROVE  /\ TypedLog' /\ Rows' \subseteq log' /\ Folded' = Folded
         /\ log \subseteq log' /\ log' \subseteq log \cup {e}
         /\ \A f \in JobEvent : f \in log \/ f # e => queue'[f] = queue[f]
         /\ Accepts(e) => e \in log' /\ queue'[e] = FreshRow(e)
<1>1. CASE Accepts(e)
  <2>1. Fresh({e}) = {e} /\ e \notin log
    BY <1>1 DEF Fresh, Accepts, Duplicate
  <2>2. /\ log' = log \cup {e}
        /\ queue' = [f \in JobEvent |-> IF f = e THEN FreshRow(e) ELSE queue[f]]
    BY <2>1 DEF Enqueue
  <2>3. TypedLog'
    BY <2>2, FreshRowTyped DEF TypedLog
  <2>4. Rows' = Rows \cup {e}
    BY <2>2, FreshRowTyped DEF Rows, TypedLog
  <2> QED
    BY <2>1, <2>2, <2>3, <2>4 DEF Folded
<1>2. CASE ~ Accepts(e)
  <2>1. Fresh({e}) = {}
    BY <1>2 DEF Fresh
  <2>2. UNCHANGED <<log, queue>>
    BY <2>1 DEF Enqueue, TypedLog
  <2> QED
    BY <1>2, <2>2 DEF TypedLog, Rows, Folded
<1> QED
  BY <1>1, <1>2

(* A failed attempt keeps every row, and touches none but its own.         *)
LEMMA FailureKeepsRows ==
  ASSUME TypedLog, NEW e \in JobEvent, NextDue(e), RecordFailure(e)
  PROVE  /\ TypedLog' /\ Rows' = Rows /\ Folded' = Folded /\ log' = log
         /\ \A f \in JobEvent : f # e => queue'[f] = queue[f]
<1> DEFINE n == queue[e].attempts + 1
           row == IF n >= MaxAttempts
                    THEN [status |-> "dead_letter", wait |-> 0, attempts |-> n]
                    ELSE [status |-> "pending", wait |-> RetryAfter[n], attempts |-> n]
<1>1. log' = log /\ queue' = [queue EXCEPT ![e] = row]
  BY DEF RecordFailure
<1>2. n \in Nat \ {0} /\ (~ n >= MaxAttempts => RetryAfter[n] \in Int)
  BY FixJobAssumption DEF LoopAssumption, TypedLog, QueueRow, NoRow
<1>3. row \in QueueRow /\ row # NoRow
  BY <1>2 DEF Status, NoRow, QueueRow
<1>4. queue[e] # NoRow
  BY DEF NextDue, Due, Pending, NoRow
<1> HIDE DEF row
<1>5. TypedLog'
  BY <1>1, <1>3 DEF TypedLog
<1>6. Rows' = Rows
  BY <1>1, <1>3, <1>4 DEF TypedLog, Rows
<1> QED
  BY <1>1, <1>5, <1>6 DEF Folded, TypedLog

(* Time keeps every row, and brings all that are pending nearer.           *)
LEMMA TimeKeepsRows ==
  ASSUME TypedLog, UNCHANGED log,
         queue' = [e \in JobEvent |->
           IF Pending(e) THEN [queue[e] EXCEPT !.wait = @ - 1] ELSE queue[e]]
  PROVE  /\ TypedLog' /\ Rows' = Rows /\ Folded' = Folded
         /\ \A f \in JobEvent : Pending(f) => Pending(f)' /\ queue'[f].wait = queue[f].wait - 1
<1>1. ASSUME NEW f \in JobEvent
      PROVE  /\ queue'[f] \in QueueRow /\ (queue'[f] # NoRow <=> queue[f] # NoRow)
             /\ Pending(f) => Pending(f)' /\ queue'[f].wait = queue[f].wait - 1
  <2>1. queue[f] \in QueueRow
    BY DEF TypedLog
  <2>2. CASE Pending(f)
    <3>1. queue'[f] = [queue[f] EXCEPT !.wait = @ - 1] /\ queue[f].status = "pending"
      BY <2>2 DEF Pending
    <3>2. /\ queue'[f] \in QueueRow /\ queue'[f].status = "pending"
          /\ queue'[f].wait = queue[f].wait - 1
      BY <2>1, <3>1 DEF QueueRow, NoRow
    <3> QED
      BY <3>1, <3>2 DEF NoRow, Pending
  <2>3. CASE ~ Pending(f)
    BY <2>1, <2>3
  <2> QED
    BY <2>2, <2>3
<1>2. TypedLog'
  BY <1>1 DEF TypedLog
<1> QED
  BY <1>1, <1>2 DEF Rows, Folded

(* What a commit asks for: nothing, or one effect.                         *)
Asked(effects) == {x \in Effects : effects = <<x>>}

LEMMA AskedEffects == Asked(<<>>) = {} /\ \A x \in Effects : Asked(<<x>>) = {x}
BY DEF Asked

(* A commit: its event is folded; it asks for an effect or not.            *)
LEMMA CommitRows ==
  ASSUME TypedLog, LoopInv, NEW e \in JobEvent, NextDue(e),
         NEW children, children \subseteq JobEvent, NEW effects, Commit(e, children, effects),
         effects = <<>> \/ \E x \in Effects : x \notin Memory /\ effects = <<x>>
  PROVE  /\ TypedLog' /\ LoopInv' /\ e \in Rows /\ Folded' = Folded \cup {e}
         /\ log \subseteq log' /\ log' \subseteq log \cup children
         /\ \A f \in log : f # e => queue'[f] = queue[f]
         /\ Memory' = Memory \cup Asked(effects)
<1> DEFINE new == Fresh(children)
<1>1. /\ UNCHANGED inFlight /\ pendingEffects' = pendingEffects \o effects
      /\ log' = log \cup new
      /\ queue' = [f \in JobEvent |-> IF f = e THEN NoRow
                                      ELSE IF f \in new THEN FreshRow(f) ELSE queue[f]]
  BY DEF Commit
<1>2. e \in Rows /\ Rows \subseteq log
  BY DEF NextDue, Due, Pending, Rows, NoRow, LoopInv
<1>3. new \subseteq children /\ new \cap log = {} /\ e \notin new
  BY <1>2 DEF Fresh, Accepts, Duplicate
<1> HIDE DEF new
<1>4. NoRow \in QueueRow
  BY DEF NoRow, Status, QueueRow
<1>5. TypedLog'
  BY <1>1, <1>3, <1>4, FreshRowTyped DEF TypedLog
<1>6. Rows' = (Rows \ {e}) \cup new
  BY <1>1, <1>3, FreshRowTyped DEF TypedLog, Rows
<1>7. Folded' = Folded \cup {e} /\ Rows' \subseteq log'
  BY <1>1, <1>2, <1>3, <1>6 DEF Folded
<1>8. \A f \in log : f # e => queue'[f] = queue[f]
  BY <1>1, <1>3 DEF TypedLog
<1>m. LoopMemory(Effects, pendingEffects, inFlight, MaxConcurrency)
  BY DEF LoopInv
<1>9. CASE effects = <<>>
  <2>1. pendingEffects \in Seq(Effects)
    BY <1>m DEF LoopMemory
  <2>2. pendingEffects' = pendingEffects
    BY <1>1, <1>9, <2>1, BufferNothing
  <2>3. Memory' = Memory /\ LoopMemory(Effects, pendingEffects, inFlight, MaxConcurrency)'
    BY <1>1, <1>m, <2>2 DEF Memory
  <2>4. Asked(effects) = {}
    BY <1>9, AskedEffects
  <2> QED
    BY <1>1, <1>2, <1>3, <1>5, <1>7, <1>8, <2>3, <2>4 DEF LoopInv
<1>10. ASSUME NEW x \in Effects, x \notin Memory, effects = <<x>>
       PROVE  /\ Memory' = Memory \cup {x}
              /\ LoopMemory(Effects, pendingEffects, inFlight, MaxConcurrency)'
  <2>1. x \notin Range(pendingEffects) /\ x \notin inFlight
    BY <1>10 DEF Memory
  <2>2. /\ LoopMemory(Effects, pendingEffects \o <<x>>, inFlight, MaxConcurrency)
        /\ Range(pendingEffects \o <<x>>) = Range(pendingEffects) \cup {x}
    BY <1>m, <2>1, LimitIsNat, BufferOne
  <2> QED
    BY <1>1, <1>10, <2>2 DEF Memory
<1>11. CASE effects # <<>>
  <2>1. PICK x \in Effects : x \notin Memory /\ effects = <<x>>
    BY <1>11
  <2>2. Asked(effects) = {x}
    BY <2>1, AskedEffects
  <2> QED
    BY <1>1, <1>2, <1>3, <1>5, <1>7, <1>8, <1>10, <1>11, <2>1, <2>2 DEF LoopInv
<1> QED
  BY <1>9, <1>11

(* pumpEffects, once what left the pool has left it, and a new effect has  *)
(* joined the backlog, if there is one.                                    *)
LEMMA PumpKeepsMemory ==
  ASSUME NEW waiting, LoopMemory(Effects, waiting, inFlight, MaxConcurrency),
         NEW left \in SUBSET inFlight, Pump(waiting, left)
  PROVE  /\ LoopMemory(Effects, pendingEffects, inFlight, MaxConcurrency)'
         /\ Memory' = Range(waiting) \cup left
<1> DEFINE n == Startable(waiting, left)
<1>1. /\ IsFiniteSet(inFlight) /\ Cardinality(inFlight) <= MaxConcurrency
      /\ waiting \in Seq(Effects)
  BY DEF LoopMemory
<1>2. Cardinality(left) \in Nat /\ Cardinality(left) <= MaxConcurrency
  BY <1>1, LimitIsNat, FS_Subset, FS_CardinalityType
<1>3. /\ n \in 0..Len(waiting) /\ n <= MaxConcurrency - Cardinality(left)
      /\ n < Len(waiting) => n = MaxConcurrency - Cardinality(left)
  BY <1>1, <1>2, LimitIsNat DEF Startable, Room
<1>4. /\ inFlight' = left \cup {waiting[i] : i \in 1..n}
      /\ pendingEffects' = SubSeq(waiting, n + 1, Len(waiting))
  BY DEF Pump
<1> HIDE DEF n
<1>5. Pumped(Effects, waiting, left, MaxConcurrency, n, inFlight', pendingEffects')
  BY <1>1, <1>3, <1>4 DEF Pumped
<1>6. LoopMemory(Effects, pendingEffects', inFlight', MaxConcurrency)
  BY <1>5, LimitIsNat, PumpMoves
<1>7. Range(pendingEffects') \cup inFlight' = Range(waiting) \cup left
  BY ONLY <1>5, LimitIsNat, PumpMoves,
     LoopMemory(Effects, waiting, inFlight, MaxConcurrency), left \in SUBSET inFlight
<1> QED
  BY <1>6, <1>7 DEF Memory

(* An effect is over, and others may start.                                *)
LEMMA SlotFreed ==
  ASSUME LoopInv, NEW x \in inFlight, Pump(pendingEffects, inFlight \ {x})
  PROVE  /\ LoopMemory(Effects, pendingEffects, inFlight, MaxConcurrency)'
         /\ x \in Memory /\ Memory' = Memory \ {x}
<1>m. LoopMemory(Effects, pendingEffects, inFlight, MaxConcurrency)
  BY DEF LoopInv
<1>1. inFlight \ {x} \in SUBSET inFlight
  OBVIOUS
<1>2. /\ LoopMemory(Effects, pendingEffects, inFlight, MaxConcurrency)'
      /\ Memory' = Range(pendingEffects) \cup (inFlight \ {x})
  BY <1>m, <1>1, PumpKeepsMemory
<1>3. x \notin Range(pendingEffects)
  BY <1>m DEF LoopMemory, Range
<1> QED
  BY <1>2, <1>3 DEF Memory

(* launchEffect: a probe that is not in memory joins it.                   *)
LEMMA LaunchJoins ==
  ASSUME LoopInv, NEW x \in Effects, x \notin Memory, LaunchEffect(x)
  PROVE  /\ LoopMemory(Effects, pendingEffects, inFlight, MaxConcurrency)'
         /\ Memory' = Memory \cup {x}
<1> DEFINE waiting == pendingEffects \o <<x>>
<1>m. LoopMemory(Effects, pendingEffects, inFlight, MaxConcurrency)
  BY DEF LoopInv
<1>0. x \notin Range(pendingEffects) /\ x \notin inFlight
  BY DEF Memory
<1>1. /\ LoopMemory(Effects, waiting, inFlight, MaxConcurrency)
      /\ Range(waiting) = Range(pendingEffects) \cup {x}
  BY <1>m, <1>0, LimitIsNat, BufferOne
<1>2. Append(pendingEffects, x) = waiting
  <2>1. pendingEffects \in Seq(Effects)
    BY <1>m DEF LoopMemory
  <2> QED
    BY <2>1
<1>3. Pump(waiting, inFlight) /\ inFlight \in SUBSET inFlight
  BY <1>2 DEF LaunchEffect
<1> HIDE DEF waiting
<1>4. /\ LoopMemory(Effects, pendingEffects, inFlight, MaxConcurrency)'
      /\ Memory' = Range(waiting) \cup inFlight
  BY <1>1, <1>3, PumpKeepsMemory
<1> QED
  BY <1>1, <1>4 DEF Memory

-----------------------------------------------------------------------------
(* Steps that fold nothing                                                 *)

LEMMA OutcomesAreNoOthers ==
  /\ \A e \in Outcome : e.type \in {"waits", "succeeded", "failed"}
  /\ JobCreated \notin Outcome
  /\ \A p \in Progress : JobProgress(p) \notin Outcome
  /\ \A c \in Attach : Attaches(c) \notin Outcome
  /\ \A n \in Probe : Waits(n) \notin Outcome /\ Closes(TRUE, n) \notin Outcome
  /\ Settled(TRUE) \notin Outcome /\ Settled(FALSE) \notin Outcome
<1>1. /\ Waits(0).type = "waits" /\ Closes(TRUE, 0).type = "succeeded"
      /\ Closes(FALSE, 0).type = "failed"
  BY DEF Waits, Closes, Evt
<1>2. \A e \in Outcome : e.type \in {"waits", "succeeded", "failed"} /\ e.by = 0
  BY <1>1 DEF Outcome, Waits, Closes, Evt
<1>3. /\ JobCreated.type = "created" /\ \A p : JobProgress(p).type = p
      /\ \A c : Attaches(c).type = "attach"
      /\ Settled(TRUE).type = "handled" /\ Settled(FALSE).type = "action_error"
  BY DEF JobCreated, JobProgress, Attaches, Settled, Evt
<1>4. \A n \in Probe : Waits(n).by = n /\ Closes(TRUE, n).by = n /\ n # 0
  BY DEF Waits, Closes, Evt, Probe
<1>5. \A p \in Progress : p \notin {"waits", "succeeded", "failed"}
  BY DEF Progress
<1> QED
  BY <1>2, <1>3, <1>4, <1>5

(* Nothing happens to the tables; effects that leave the memory without a  *)
(* word are probes.                                                        *)
LEMMA TablesAreKept ==
  ASSUME IInv, UNCHANGED <<log, queue, job, closed, strayed, crashes, probes, attaches>>,
         LoopMemory(Effects, pendingEffects, inFlight, MaxConcurrency)',
         Memory' \subseteq Memory, FixEffect \in Memory => FixEffect \in Memory',
         pc' = "down" => pc = "down"
  PROVE  IInv'
<1>1. Rows' = Rows /\ Folded' = Folded
  BY DEF Rows, Folded
<1>2. Typed' /\ LoopInv'
  BY <1>1 DEF IInv, Typed, LoopInv
<1>3. CarrierInv'
  BY <1>1 DEF IInv, CarrierInv
<1>4. CauseInv'
  BY <1>1 DEF IInv, CauseInv
<1>5. OrderInv'
  BY <1>1 DEF IInv, OrderInv, Pending
<1>6. RowInv'
  BY <1>1 DEF IInv, RowInv, Waiting
<1> QED
  BY <1>2, <1>3, <1>4, <1>5, <1>6 DEF IInv

(* A fact comes: of the fix while it runs, its outcome as it leaves the    *)
(* memory; of a probe, or an attach, once the job has waited.              *)
LEMMA FactComes ==
  ASSUME IInv, NEW e \in JobEvent, Enqueue({e}),
         UNCHANGED <<job, closed, strayed, crashes, probes>>,
         attaches' \in 0..MaxAttaches, pc' = "down" => pc = "down",
         LoopMemory(Effects, pendingEffects, inFlight, MaxConcurrency)',
         Memory' \subseteq Memory,
         e \notin Outcome => (FixEffect \in Memory => FixEffect \in Memory'),
         e \in Outcome => FixEffect \in Memory /\ FixEffect \notin Memory' /\ TimeHasPassed,
         e # JobCreated, JobCreated \in Folded,
         \A p \in Progress : e = JobProgress(p) => FixEffect \in Memory,
         e \in Outcome \/ (\E p \in Progress : e = JobProgress(p)) \/ Waits(0) \in Folded
  PROVE  IInv'
<1>0. /\ Typed /\ LoopInv /\ CarrierInv /\ CauseInv /\ OrderInv /\ RowInv
      /\ TypedLog /\ Rows \subseteq log
  BY DEF IInv, Typed, TypedLog, LoopInv
<1>1. /\ TypedLog' /\ Rows' \subseteq log' /\ Folded' = Folded
      /\ log \subseteq log' /\ log' \subseteq log \cup {e}
      /\ \A f \in JobEvent : f \in log \/ f # e => queue'[f] = queue[f]
      /\ Accepts(e) => e \in log' /\ queue'[e] = FreshRow(e)
  BY <1>0, EnqueueRows
<1>2. Typed' /\ LoopInv'
  BY <1>0, <1>1 DEF Typed, TypedLog, LoopInv
<1>3. e \in Outcome => Outcome \cap log = {} /\ e \in log' /\ queue'[e] = FreshRow(e)
  BY <1>0, <1>1, OutcomesAreAccepted DEF CarrierInv
<1>4. CarrierInv'
  BY <1>0, <1>1, <1>3 DEF CarrierInv
<1>5. CauseInv'
  <2>1. \A n \in Probe : e = Waits(n) \/ e = Closes(TRUE, n) => Waits(0) \in Folded
    <3>1. \A n \in Probe, p \in Progress : Waits(n) # JobProgress(p) /\ Closes(TRUE, n) # JobProgress(p)
      BY DEF Progress, Waits, Closes, JobProgress, Evt
    <3> QED
      BY <3>1, OutcomesAreNoOthers
  <2>2. \A c \in Attach : e = Attaches(c) => Waits(0) \in Folded
    <3>1. \A c \in Attach, p \in Progress : Attaches(c) # JobProgress(p)
      BY EventFields DEF Progress
    <3> QED
      BY <3>1, OutcomesAreNoOthers
  <2> QED
    BY <2>1, <2>2, <1>0, <1>1 DEF CauseInv
<1>6. OrderInv'
  <2> SUFFICES ASSUME ~ strayed, NEW p \in Progress, JobProgress(p) \in Rows'
               PROVE  /\ Pending(JobProgress(p))' /\ queue'[JobProgress(p)].wait <= 0
                      /\ \A o \in Outcome : o \notin Folded
                      /\ \A o \in Outcome : o \in Rows' =>
                           Pending(o)' /\ queue'[JobProgress(p)].wait < queue'[o].wait
    BY <1>1 DEF OrderInv
  <2> DEFINE f == JobProgress(p)
  <2>0. f \in JobEvent /\ f \in log' /\ f \notin Outcome
    BY <1>1, EventsAreEvents, OutcomesAreNoOthers
  <2>1. CASE f \notin log
    <3>1. f = e
      BY <2>0, <2>1, <1>1
    <3>2. Outcome \cap log = {}
      BY <3>1, <1>0 DEF CarrierInv
    <3>3. Outcome \cap log' = {}
      BY <3>1, <3>2, <2>0, <1>1
    <3>4. Accepts(e)
      <4>1. ~ Accepts(e) => Fresh({e}) = {}
        BY DEF Fresh
      <4>2. ~ Accepts(e) => log' = log
        BY <4>1 DEF Enqueue
      <4> QED
        BY <4>2, <2>0, <2>1
    <3>5. queue'[f].status = "pending" /\ queue'[f].wait = 0
      BY <3>1, <3>4, <1>1, FreshRowTyped
    <3>6. \A o \in Outcome : o \notin Folded /\ o \notin Rows'
      BY <3>2, <3>3, <1>1 DEF Folded
    <3> QED
      BY <3>5, <3>6 DEF Pending
  <2>2. CASE f \in log
    <3>1. queue'[f] = queue[f] /\ f \in Rows
      BY <2>0, <2>2, <1>1 DEF Rows
    <3>2. /\ Pending(f) /\ queue[f].wait <= 0
          /\ \A o \in Outcome : o \notin Folded
          /\ \A o \in Outcome : o \in Rows => Pending(o) /\ queue[f].wait < queue[o].wait
      BY <3>1, <1>0 DEF OrderInv
    <3>3. ASSUME NEW o \in Outcome, o \in Rows'
          PROVE  Pending(o)' /\ queue'[f].wait < queue'[o].wait
      <4>0. o \in JobEvent /\ o \in log'
        BY <3>3, <1>1, EventsAreEvents
      <4>1. CASE o \in log
        BY <4>0, <4>1, <3>1, <3>2, <3>3, <1>1 DEF Rows, Pending
      <4>2. CASE o \notin log
        <5>1. o = e /\ queue'[o] = FreshRow(e) /\ TimeHasPassed
          BY <4>0, <4>2, <1>1, <1>3
        <5>2. queue[f].wait # 0 /\ queue[f].wait \in Int
          <6>1. queue[f] \in QueueRow
            BY <2>0, <1>0 DEF TypedLog
          <6> QED
            BY <5>1, <6>1, <3>2 DEF TimeHasPassed, QueueRow, NoRow
        <5> QED
          BY <5>1, <5>2, <3>1, <3>2, FreshRowTyped DEF Pending
      <4> QED
        BY <4>1, <4>2
    <3> QED
      BY <3>1, <3>2, <3>3 DEF Pending
  <2> QED
    BY <2>1, <2>2
<1>7. RowInv'
  BY <1>0, <1>1 DEF RowInv, Waiting
<1> QED
  BY <1>2, <1>4, <1>5, <1>6, <1>7 DEF IInv

-----------------------------------------------------------------------------
(* The fix and its probes                                                  *)

(* An effect that runs or is buffered was asked for.                       *)
LEMMA RunningIsInMemory == inFlight \subseteq Memory
BY DEF Memory

LEMMA FixSteps ==
  ASSUME IInv, \/ \E phase \in Progress : FixProgresses(phase)
               \/ FixSucceeds \/ FixWaits \/ FixFails
  PROVE  IInv'
<1>0. LoopInv /\ CauseInv /\ Typed
  BY DEF IInv
<1>1. ASSUME NEW phase \in Progress, FixProgresses(phase)
      PROVE  IInv'
  <2> DEFINE e == JobProgress(phase)
  <2>1. /\ pc = "idle" /\ FixEffect \in inFlight /\ Enqueue({e})
        /\ UNCHANGED <<pendingEffects, inFlight, pc, job, pull, counters, closed, strayed>>
    BY <1>1 DEF FixProgresses, EffectEmits
  <2>2. FixEffect \in Memory /\ JobCreated \in Folded
    BY <2>1, <1>0, RunningIsInMemory DEF CauseInv
  <2>3. Memory' = Memory /\ LoopMemory(Effects, pendingEffects, inFlight, MaxConcurrency)'
    BY <2>1, <1>0 DEF Memory, LoopInv
  <2>4. e \in JobEvent /\ e \notin Outcome /\ e # JobCreated
    <3>1. e # JobCreated
      BY DEF JobProgress, JobCreated, Evt, Progress
    <3> QED
      BY <3>1, EventsAreEvents, OutcomesAreNoOthers
  <2>5. UNCHANGED <<crashes, probes>> /\ attaches' \in 0..MaxAttaches
    BY <2>1, <1>0 DEF counters, Typed
  <2>6. \E p \in Progress : e = JobProgress(p)
    OBVIOUS
  <2> HIDE DEF e
  <2> QED
    BY <2>1, <2>2, <2>3, <2>4, <2>5, <2>6, FactComes
<1>2. ASSUME NEW e \in Outcome, FixReturns(e), UNCHANGED pull
      PROVE  IInv'
  <2>1. /\ pc = "idle" /\ FixEffect \in inFlight /\ Enqueue({e}) /\ TimeHasPassed
        /\ Pump(pendingEffects, inFlight \ {FixEffect})
        /\ UNCHANGED <<pc, job, counters, closed, strayed>>
    BY <1>2 DEF FixReturns, EffectReturns
  <2>2. FixEffect \in Memory /\ JobCreated \in Folded
    BY <2>1, <1>0, RunningIsInMemory DEF CauseInv
  <2>3. /\ Memory' = Memory \ {FixEffect}
        /\ LoopMemory(Effects, pendingEffects, inFlight, MaxConcurrency)'
    BY <2>1, <1>0, SlotFreed
  <2>4. e \in JobEvent /\ e # JobCreated /\ \A p \in Progress : e # JobProgress(p)
    BY EventsAreEvents, OutcomesAreNoOthers
  <2>5. UNCHANGED <<crashes, probes>> /\ attaches' \in 0..MaxAttaches
    BY <2>1, <1>0 DEF counters, Typed
  <2> QED
    BY <2>1, <2>2, <2>3, <2>4, <2>5, FactComes
<1>3. CASE FixSucceeds
  BY <1>2, <1>3 DEF FixSucceeds, Outcome
<1>4. CASE FixWaits
  BY <1>2, <1>4 DEF FixWaits, Outcome
<1>5. CASE FixFails
  BY <1>2, <1>5 DEF FixFails, Outcome
<1> QED
  BY <1>1, <1>3, <1>4, <1>5

LEMMA ProbeSteps ==
  ASSUME IInv, NEW n \in Probe, ProbeFinds(n) \/ ProbeMisses(n) \/ ProbeThrows(n)
  PROVE  IInv'
<1>0. LoopInv /\ CauseInv /\ Typed /\ n # FixEffect
  BY DEF IInv, FixEffect, Probe
<1>1. ASSUME NEW e \in JobEvent, EffectReturns(n, e), e = Waits(n) \/ e = Closes(TRUE, n),
             UNCHANGED <<job, closed, strayed, crashes, probes, attaches>>
      PROVE  IInv'
  <2>1. /\ pc = "idle" /\ n \in inFlight /\ Enqueue({e}) /\ UNCHANGED pc
        /\ Pump(pendingEffects, inFlight \ {n})
    BY <1>1 DEF EffectReturns
  <2>2. Waits(0) \in Folded /\ JobCreated \in Folded
    BY <2>1, <1>0, RunningIsInMemory DEF CauseInv
  <2>3. /\ Memory' = Memory \ {n}
        /\ LoopMemory(Effects, pendingEffects, inFlight, MaxConcurrency)'
    BY <2>1, <1>0, SlotFreed
  <2>4. e \notin Outcome
    BY <1>1, OutcomesAreNoOthers
  <2>5. e # JobCreated /\ \A p \in Progress : e # JobProgress(p)
    BY <1>1 DEF Waits, Closes, JobCreated, JobProgress, Progress, Evt
  <2>6. attaches' \in 0..MaxAttaches
    BY <1>1, <1>0 DEF Typed
  <2> QED
    BY <1>0, <1>1, <2>1, <2>2, <2>3, <2>4, <2>5, <2>6, FactComes
<1>2. Waits(n) \in JobEvent /\ Closes(TRUE, n) \in JobEvent
  BY EventsAreEvents
<1>3. CASE ProbeFinds(n)
  BY <1>1, <1>2, <1>3 DEF ProbeFinds, counters
<1>4. CASE ProbeMisses(n)
  BY <1>1, <1>2, <1>4 DEF ProbeMisses
<1>5. CASE ProbeThrows(n)
  <2>1. /\ pc = "idle" /\ n \in inFlight /\ Pump(pendingEffects, inFlight \ {n})
        /\ UNCHANGED <<log, queue, pc, job, closed, strayed, crashes, probes, attaches>>
    BY <1>5 DEF ProbeThrows, EffectSettles
  <2>2. /\ Memory' = Memory \ {n}
        /\ LoopMemory(Effects, pendingEffects, inFlight, MaxConcurrency)'
    BY <2>1, <1>0, SlotFreed
  <2> QED
    BY <2>1, <2>2, <1>0, TablesAreKept
<1> QED
  BY <1>3, <1>4, <1>5

LEMMA AttachStep ==
  ASSUME IInv, AttachCommand
  PROVE  IInv'
<1> DEFINE e == Attaches(attaches')
<1>0. LoopInv /\ CauseInv /\ Typed
  BY DEF IInv
<1>1. /\ job.phase = "waiting_for_pr" /\ attaches' \in Attach /\ Enqueue({e})
      /\ UNCHANGED <<pendingEffects, inFlight, pc, job, closed, strayed, crashes, probes>>
  <2>1. MaxAttaches \in Nat /\ attaches \in 0..MaxAttaches
    BY <1>0, FixJobAssumption DEF Typed
  <2>2. attaches < MaxAttaches /\ attaches' = attaches + 1
    BY DEF AttachCommand
  <2>3. attaches' \in Attach
    BY <2>1, <2>2 DEF Attach
  <2> QED
    BY <2>3 DEF AttachCommand
<1>2. Waits(0) \in Folded /\ JobCreated \in Folded
  <2>1. Waits(0) \in Folded /\ Waits(0) # JobCreated
    BY <1>0, <1>1 DEF CauseInv, Waits, JobCreated, Evt
  <2> QED
    BY <2>1, <1>0 DEF CauseInv, Folded
<1>3. e \in JobEvent /\ e \notin Outcome
  BY <1>1, EventsAreEvents, OutcomesAreNoOthers
<1>4. e # JobCreated /\ \A p \in Progress : e # JobProgress(p)
  BY DEF Attaches, JobCreated, JobProgress, Progress, Evt
<1>5. Memory' = Memory /\ LoopMemory(Effects, pendingEffects, inFlight, MaxConcurrency)'
  BY <1>1, <1>0 DEF Memory, LoopInv
<1>6. attaches' \in 0..MaxAttaches
  BY <1>1, FixJobAssumption DEF Attach
<1> HIDE DEF e
<1> QED
  BY <1>1, <1>2, <1>3, <1>4, <1>5, <1>6, FactComes

-----------------------------------------------------------------------------
(* The scheduler, the loop, time and death                                 *)

LEMMA ScheduleStep ==
  ASSUME IInv, Schedule
  PROVE  IInv'
<1>0. Typed /\ LoopInv /\ CarrierInv /\ CauseInv /\ OrderInv /\ RowInv
  BY DEF IInv
<1> DEFINE x == probes + 1
<1>1. /\ pc = "idle" /\ Waiting /\ probes < MaxProbes
      /\ job' = [job EXCEPT !.next = PutOff] /\ LaunchEffect(x) /\ probes' = x
      /\ UNCHANGED <<log, queue, pc, attaches, crashes, closed, strayed>>
  BY DEF Schedule
<1>2. x \in Probe /\ x \in Effects /\ x # FixEffect
  BY <1>0, <1>1, FixJobAssumption DEF Typed, Probe, Effects, FixEffect
<1>3. x \notin Memory
  BY <1>0, <1>2 DEF CauseInv, Typed
<1>4. Waits(0) \in Folded
  BY <1>0, <1>1 DEF CauseInv, Waiting
<1>5. /\ LoopMemory(Effects, pendingEffects, inFlight, MaxConcurrency)'
      /\ Memory' = Memory \cup {x}
  BY <1>0, <1>1, <1>2, <1>3, LaunchJoins
<1>6. Rows' = Rows /\ Folded' = Folded
  BY <1>1 DEF Rows, Folded
<1>7. /\ job'.status = job.status /\ job'.phase = job.phase /\ job'.next = PutOff
      /\ job' \in [status : {"none", "queued", "running", "succeeded", "failed"},
                   phase : JobPhase, next : Int]
  BY <1>0, <1>1, FixJobAssumption DEF Typed
<1>8. Typed' /\ LoopInv'
  <2>1. probes' \in 0..MaxProbes
    BY <1>0, <1>1, FixJobAssumption DEF Typed
  <2> QED
    BY <2>1, <1>0, <1>1, <1>5, <1>6, <1>7 DEF Typed, LoopInv
<1>9. CarrierInv'
  BY <1>0, <1>1, <1>2, <1>5, <1>6 DEF CarrierInv
<1>10. CauseInv'
  <2>1. JobCreated \in Folded
    <3>1. Waits(0) # JobCreated
      BY DEF Waits, JobCreated, Evt
    <3> QED
      BY <1>0, <1>4, <3>1 DEF CauseInv, Folded
  <2>2. \A n \in Probe : n \in Memory' => n <= probes'
    BY <1>0, <1>1, <1>5 DEF CauseInv, Typed, Probe
  <2> QED
    BY <2>1, <2>2, <1>0, <1>1, <1>4, <1>6, <1>7 DEF CauseInv
<1>11. OrderInv'
  BY <1>0, <1>1, <1>6 DEF OrderInv, Pending
<1>12. RowInv'
  BY <1>0, <1>1, <1>6, <1>7, FixJobAssumption DEF RowInv, Waiting
<1> QED
  BY <1>8, <1>9, <1>10, <1>11, <1>12 DEF IInv

LEMMA LoopSteps ==
  ASSUME IInv, PullRequestAppears \/ Begin \/ Finish \/ Recover
  PROVE  IInv'
<1>0. LoopInv /\ LoopMemory(Effects, pendingEffects, inFlight, MaxConcurrency)
  BY DEF IInv, LoopInv
<1>1. CASE PullRequestAppears \/ Begin \/ Recover
  <2>1. /\ UNCHANGED <<log, queue, job, closed, strayed, crashes, probes, attaches,
                       pendingEffects, inFlight>>
        /\ pc' = "down" => pc = "down"
    BY <1>1 DEF PullRequestAppears, Begin, BeginBatch, Recover, Restart, rest, counters
  <2>2. Memory' = Memory /\ LoopMemory(Effects, pendingEffects, inFlight, MaxConcurrency)'
    BY <2>1, <1>0 DEF Memory
  <2> QED
    BY <2>1, <2>2, TablesAreKept
<1>2. CASE Finish
  <2>1. /\ UNCHANGED <<log, queue, job, closed, strayed, crashes, probes, attaches>>
        /\ pc' = "idle" /\ Pump(pendingEffects, inFlight) /\ inFlight \in SUBSET inFlight
    BY <1>2 DEF Finish, EndBatch, rest, counters
  <2>2. /\ Memory' = Memory
        /\ LoopMemory(Effects, pendingEffects, inFlight, MaxConcurrency)'
    BY <2>1, <1>0, PumpKeepsMemory DEF Memory
  <2> QED
    BY <2>1, <2>2, TablesAreKept
<1> QED
  BY <1>1, <1>2

LEMMA CrashStep ==
  ASSUME IInv, Crash
  PROVE  IInv'
<1>0. Typed /\ LoopInv /\ CarrierInv /\ CauseInv /\ OrderInv /\ RowInv
  BY DEF IInv
<1>1. /\ UNCHANGED <<log, queue, job, probes, attaches, closed, strayed>>
      /\ pendingEffects' = <<>> /\ inFlight' = {} /\ crashes' = crashes + 1
  BY DEF Crash, Halt
<1>2. LoopMemory(Effects, pendingEffects, inFlight, MaxConcurrency)' /\ Memory' = {}
  BY <1>1, LimitIsNat, EmptyMemory DEF Memory
<1>3. Rows' = Rows /\ Folded' = Folded
  BY <1>1 DEF Rows, Folded
<1>c. crashes' \in Nat /\ crashes' > 0
  BY <1>0, <1>1 DEF Typed
<1>4. Typed' /\ LoopInv'
  BY <1>0, <1>1, <1>2, <1>3, <1>c DEF Typed, LoopInv
<1>5. CarrierInv'
  BY <1>c, <1>1, <1>2, <1>3 DEF CarrierInv
<1>6. CauseInv'
  BY <1>0, <1>1, <1>2, <1>3 DEF CauseInv
<1>7. OrderInv'
  BY <1>0, <1>1, <1>3 DEF OrderInv, Pending
<1>8. RowInv'
  BY <1>0, <1>1, <1>3 DEF RowInv, Waiting
<1> QED
  BY <1>4, <1>5, <1>6, <1>7, <1>8 DEF IInv

LEMMA PassStep ==
  ASSUME IInv, Pass
  PROVE  IInv'
<1>0. Typed /\ LoopInv /\ CarrierInv /\ CauseInv /\ OrderInv /\ RowInv /\ TypedLog
  BY DEF IInv, Typed, TypedLog
<1>1. /\ queue' = [e \in JobEvent |->
           IF Pending(e) THEN [queue[e] EXCEPT !.wait = @ - 1] ELSE queue[e]]
      /\ job' = [job EXCEPT !.next = IF @ > 0 THEN @ - 1 ELSE @]
      /\ UNCHANGED <<log, pendingEffects, inFlight, pc, probes, attaches, crashes, closed, strayed>>
  BY DEF Pass, counters
<1>2. /\ TypedLog' /\ Rows' = Rows /\ Folded' = Folded
      /\ \A f \in JobEvent : Pending(f) => Pending(f)' /\ queue'[f].wait = queue[f].wait - 1
  BY <1>0, <1>1, TimeKeepsRows
<1>3. /\ job'.status = job.status /\ job'.phase = job.phase
      /\ job.next >= 0 => job'.next >= 0
      /\ job' \in [status : {"none", "queued", "running", "succeeded", "failed"},
                   phase : JobPhase, next : Int]
  BY <1>0, <1>1 DEF Typed
<1>4. Memory' = Memory
  BY <1>1 DEF Memory
<1>5. Typed' /\ LoopInv'
  BY <1>0, <1>1, <1>2, <1>3 DEF Typed, TypedLog, LoopInv
<1>6. CarrierInv'
  BY <1>0, <1>1, <1>2, <1>4 DEF CarrierInv
<1>7. CauseInv'
  BY <1>0, <1>1, <1>2, <1>3, <1>4 DEF CauseInv
<1>8. OrderInv'
  <2> SUFFICES ASSUME ~ strayed, NEW p \in Progress, JobProgress(p) \in Rows
               PROVE  /\ Pending(JobProgress(p))' /\ queue'[JobProgress(p)].wait <= 0
                      /\ \A e \in Outcome : e \notin Folded
                      /\ \A e \in Outcome : e \in Rows =>
                           Pending(e)' /\ queue'[JobProgress(p)].wait < queue'[e].wait
    BY <1>1, <1>2 DEF OrderInv
  <2>1. JobProgress(p) \in JobEvent /\ Outcome \subseteq JobEvent
    BY EventsAreEvents
  <2>2. \A e \in JobEvent : queue[e].wait \in Int
    BY <1>0 DEF TypedLog, QueueRow, NoRow
  <2> QED
    BY <2>1, <2>2, <1>0, <1>2 DEF OrderInv
<1>9. RowInv'
  BY <1>0, <1>1, <1>2, <1>3 DEF RowInv, Waiting
<1> QED
  BY <1>5, <1>6, <1>7, <1>8, <1>9 DEF IInv

(* An outcome is not looked at while a progress event is on the queue.     *)
LEMMA ProgressFirst ==
  ASSUME Typed, OrderInv, ~ strayed, NEW e \in Outcome, NextDue(e), NEW p \in Progress
  PROVE  JobProgress(p) \notin Rows
<1> SUFFICES ASSUME JobProgress(p) \in Rows PROVE FALSE
  OBVIOUS
<1> DEFINE f == JobProgress(p)
<1>0. f \in JobEvent /\ e \in JobEvent /\ f.type # "attach" /\ e.type # "attach"
  <2>1. f.type # "attach"
    BY DEF JobProgress, Evt, Progress
  <2> QED
    BY <2>1, EventsAreEvents, OutcomesAreNoOthers
<1>1. e \in Rows /\ queue[e].wait <= 0
  BY <1>0 DEF NextDue, Due, Pending, Rows, NoRow
<1>2. Pending(f) /\ queue[f].wait < queue[e].wait
  BY <1>1 DEF OrderInv
<1>3. queue[e].wait \in Int /\ queue[f].wait \in Int
  BY <1>0 DEF Typed, QueueRow, NoRow
<1>4. Due(f)
  BY <1>1, <1>2, <1>3 DEF Due
<1>5. Precedes(e, f)
  BY <1>0, <1>4 DEF NextDue
<1>6. queue[e].wait <= queue[f].wait
  BY <1>0, <1>5 DEF Precedes
<1> QED
  BY <1>2, <1>3, <1>6

LEMMA FailStep ==
  ASSUME IInv, NEW e \in JobEvent, Fail(e)
  PROVE  IInv'
<1>0. Typed /\ LoopInv /\ CarrierInv /\ CauseInv /\ OrderInv /\ RowInv /\ TypedLog
  BY DEF IInv, Typed, TypedLog
<1>1. /\ NextDue(e) /\ RecordFailure(e) /\ strayed' = (strayed \/ e.type \in Progress)
      /\ UNCHANGED <<pendingEffects, inFlight, pc, job, probes, attaches, crashes, closed>>
  BY DEF Fail, RecordFailure
<1>2. /\ TypedLog' /\ Rows' = Rows /\ Folded' = Folded /\ log' = log
      /\ \A f \in JobEvent : f # e => queue'[f] = queue[f]
  BY <1>0, <1>1, FailureKeepsRows
<1>3. Memory' = Memory
  BY <1>1 DEF Memory
<1>4. Typed' /\ LoopInv'
  BY <1>0, <1>1, <1>2 DEF Typed, TypedLog, LoopInv
<1>5. CarrierInv'
  BY <1>0, <1>1, <1>2, <1>3 DEF CarrierInv
<1>6. CauseInv'
  BY <1>0, <1>1, <1>2, <1>3 DEF CauseInv
<1>7. OrderInv'
  <2> SUFFICES ASSUME ~ strayed, e.type \notin Progress, NEW p \in Progress, JobProgress(p) \in Rows
               PROVE  /\ Pending(JobProgress(p))' /\ queue'[JobProgress(p)].wait <= 0
                      /\ \A o \in Outcome : o \notin Folded
                      /\ \A o \in Outcome : o \in Rows =>
                           Pending(o)' /\ queue'[JobProgress(p)].wait < queue'[o].wait
    BY <1>1, <1>2 DEF OrderInv
  <2>1. e \notin Outcome
    BY <1>0, <1>1, ProgressFirst
  <2>2. e # JobProgress(p)
    BY DEF JobProgress, Evt
  <2>3. JobProgress(p) \in JobEvent /\ Outcome \subseteq JobEvent
    BY EventsAreEvents
  <2> QED
    BY <2>1, <2>2, <2>3, <1>0, <1>2 DEF OrderInv, Pending
<1>8. RowInv'
  BY <1>0, <1>1, <1>2 DEF RowInv, Waiting
<1> QED
  BY <1>4, <1>5, <1>6, <1>7, <1>8 DEF IInv

-----------------------------------------------------------------------------
(* Folding                                                                 *)

LEMMA TypesOfEvents ==
  ASSUME NEW e \in JobEvent
  PROVE  /\ e.type \in {"created", "waits", "succeeded", "failed", "attach",
                        "handled", "action_error"} \cup Progress
         /\ e.type = "created" => e = JobCreated
         /\ e.type \in Progress => e = JobProgress(e.type)
         /\ e.type \in {"waits", "succeeded", "failed"} =>
              \/ e \in Outcome
              \/ \E n \in Probe : e = Waits(n) \/ e = Closes(TRUE, n)
         /\ e.type = "attach" => \E c \in Attach : e = Attaches(c)
<1> USE DEF Evt, Progress
<1>1. CASE e \in {JobCreated, Closes(FALSE, 0), Settled(TRUE), Settled(FALSE)}
  BY <1>1 DEF JobCreated, Closes, Settled, Outcome
<1>2. ASSUME NEW p \in Progress, e = JobProgress(p) PROVE e.type \in Progress /\ e = JobProgress(e.type)
  BY <1>2 DEF JobProgress
<1>3. ASSUME NEW n \in Probe \cup {0}, e = Waits(n) \/ e = Closes(TRUE, n)
      PROVE  /\ e.type \in {"waits", "succeeded", "failed"}
             /\ e \in Outcome \/ \E m \in Probe : e = Waits(m) \/ e = Closes(TRUE, m)
  BY <1>3 DEF Waits, Closes, Outcome
<1>4. ASSUME NEW c \in Attach, e = Attaches(c) PROVE e.type = "attach"
  BY <1>4 DEF Attaches
<1>5. \/ e \in {JobCreated, Closes(FALSE, 0), Settled(TRUE), Settled(FALSE)}
      \/ \E p \in Progress : e = JobProgress(p)
      \/ \E n \in Probe \cup {0} : e = Waits(n) \/ e = Closes(TRUE, n)
      \/ \E c \in Attach : e = Attaches(c)
  BY DEF JobEvent
<1> QED
  BY <1>1, <1>2, <1>3, <1>4, <1>5

JobRow == [status : {"none", "queued", "running", "succeeded", "failed"},
           phase : JobPhase, next : Int]

LEMMA ProjectedRows ==
  ASSUME job \in JobRow, NEW e \in JobEvent
  PROVE  /\ Project(e) \in JobRow
         /\ e.type = "created" => Project(e).status = "queued" /\ Project(e).phase = "pending"
         /\ e.type = "waits" => /\ Project(e).status = "running"
                                /\ Project(e).phase = "waiting_for_pr" /\ Project(e).next >= 0
         /\ e.type \in {"succeeded", "failed"} =>
              Project(e).status = e.type /\ Project(e).phase = e.type
         /\ e.type \in Progress => Project(e).phase = e.type
         /\ e.type \in {"attach", "handled", "action_error"} => Project(e) = job
<1>0. PutOff \in Nat \ {0}
  BY FixJobAssumption
<1>1. CASE e.type = "created"
  <2>1. Project(e) = [job EXCEPT !.status = "queued", !.phase = "pending"]
    BY <1>1 DEF Project, Progress
  <2>2. "pending" \in JobPhase /\ e.type \notin Progress
    BY <1>1 DEF JobPhase, Progress
  <2> QED
    BY <1>1, <2>1, <2>2 DEF JobRow
<1>2. CASE e.type = "waits"
  <2>1. Project(e) = [status |-> "running", phase |-> "waiting_for_pr", next |-> PutOff]
    BY <1>2 DEF Project, Progress
  <2>2. "waiting_for_pr" \in JobPhase /\ e.type \notin Progress
    BY <1>2 DEF JobPhase, Progress
  <2> QED
    BY <1>0, <1>2, <2>1, <2>2 DEF JobRow
<1>3. CASE e.type \in {"succeeded", "failed"}
  <2>1. Project(e) = [status |-> e.type, phase |-> e.type, next |-> -1]
    BY <1>3 DEF Project, Progress
  <2>2. e.type \in JobPhase /\ e.type \notin Progress
    BY <1>3 DEF JobPhase, Progress
  <2> QED
    BY <1>3, <2>1, <2>2 DEF JobRow
<1>4. CASE e.type \in Progress
  <2>1. Project(e) = [job EXCEPT !.status = "running", !.phase = e.type]
    BY <1>4 DEF Project, Progress
  <2>2. /\ e.type \in JobPhase
        /\ e.type \notin {"created", "waits", "succeeded", "failed", "attach", "handled", "action_error"}
    BY <1>4 DEF JobPhase, Progress
  <2> QED
    BY <2>1, <2>2 DEF JobRow
<1>5. CASE e.type \in {"attach", "handled", "action_error"}
  <2>1. Project(e) = job /\ e.type \notin Progress
    BY <1>5 DEF Project, Progress
  <2> QED
    BY <1>5, <2>1
<1> QED
  BY <1>1, <1>2, <1>3, <1>4, <1>5, TypesOfEvents

(* What a fold asks for: the fix, of the job's creation, or a probe.       *)
LEMMA FoldAsks ==
  ASSUME IInv, NEW e \in JobEvent, Fold(e)
  PROVE  \E children, effects :
           /\ children \in SUBSET {Settled(TRUE), Settled(FALSE)}
           /\ NextDue(e) /\ Commit(e, children, effects)
           /\ \/ e = JobCreated /\ FixEffect \notin Memory /\ effects = <<FixEffect>>
                   /\ probes' = probes
              \/ e.type = "attach" /\ probes < MaxProbes /\ probes + 1 \notin Memory
                   /\ effects = <<probes + 1>> /\ probes' = probes + 1
              \/ e.type # "created" /\ effects = <<>> /\ probes' = probes
<1> DEFINE children == IF e.type \in {"succeeded", "failed"} THEN {Settled(e.type = "succeeded")} ELSE {}
           effects == CASE e.type = "created" -> <<FixEffect>>
                        [] e.type = "attach" /\ probes < MaxProbes -> <<probes + 1>>
                        [] OTHER -> <<>>
<1>0. /\ NextDue(e) /\ Commit(e, children, effects)
      /\ probes' = IF e.type = "attach" /\ probes < MaxProbes THEN probes + 1 ELSE probes
  BY DEF Fold
<1>1. children \in SUBSET {Settled(TRUE), Settled(FALSE)}
  <2>1. PICK ok \in BOOLEAN : ok = (e.type = "succeeded")
    OBVIOUS
  <2>2. Settled(ok) \in {Settled(TRUE), Settled(FALSE)}
    BY DEF Settled, Evt
  <2>3. children \subseteq {Settled(ok)}
    BY <2>1
  <2> HIDE DEF children
  <2> QED
    BY <2>2, <2>3
<1> HIDE DEF children
<1>2. CASE e.type = "created"
  <2>1. e = JobCreated /\ effects = <<FixEffect>> /\ probes' = probes
    BY <1>0, <1>2, TypesOfEvents
  <2>2. FixEffect \notin Memory
    BY <1>0, <2>1 DEF IInv, CauseInv, Folded, Rows, NextDue, Due, Pending, NoRow
  <2> QED
    BY <1>0, <1>1, <2>1, <2>2
<1>3. CASE e.type = "attach" /\ probes < MaxProbes
  <2>1. effects = <<probes + 1>> /\ probes' = probes + 1
    BY <1>0, <1>3
  <2>2. probes + 1 \notin Memory
    <3>1. probes + 1 \in Probe /\ ~ probes + 1 <= probes
      BY <1>3, FixJobAssumption DEF IInv, Typed, Probe
    <3> QED
      BY <3>1 DEF IInv, CauseInv
  <2> QED
    BY <1>0, <1>1, <1>3, <2>1, <2>2
<1>4. CASE e.type # "created" /\ ~ (e.type = "attach" /\ probes < MaxProbes)
  <2>1. effects = <<>> /\ probes' = probes
    BY <1>0, <1>4
  <2> QED
    BY <1>0, <1>1, <1>4, <2>1
<1> QED
  BY <1>2, <1>3, <1>4

(* What a fold leaves as it was, whatever the event.                       *)
LEMMA FoldStep ==
  ASSUME IInv, NEW e \in JobEvent, Fold(e)
  PROVE  IInv'
<1>0. Typed /\ LoopInv /\ CarrierInv /\ CauseInv /\ OrderInv /\ RowInv /\ TypedLog
  BY DEF IInv, Typed, TypedLog
<1>1. /\ job' = Project(e) /\ closed' = (closed \/ e.type \in {"succeeded", "failed"})
      /\ UNCHANGED <<pc, attaches, crashes, strayed>>
  BY DEF Fold, Upsert, Commit
<1>2. PICK children, effects :
        /\ children \in SUBSET {Settled(TRUE), Settled(FALSE)}
        /\ NextDue(e) /\ Commit(e, children, effects)
        /\ \/ e = JobCreated /\ FixEffect \notin Memory /\ effects = <<FixEffect>>
                /\ probes' = probes
           \/ e.type = "attach" /\ probes < MaxProbes /\ probes + 1 \notin Memory
                /\ effects = <<probes + 1>> /\ probes' = probes + 1
           \/ e.type # "created" /\ effects = <<>> /\ probes' = probes
  BY FoldAsks
<1>3. children \in SUBSET JobEvent /\ children \cap Outcome = {}
  <2>1. {Settled(TRUE), Settled(FALSE)} \subseteq JobEvent
    BY EventsAreEvents
  <2>2. {Settled(TRUE), Settled(FALSE)} \cap Outcome = {}
    BY OutcomesAreNoOthers
  <2> QED
    BY <1>2, <2>1, <2>2
<1>4. FixEffect \in Effects /\ (probes < MaxProbes => probes + 1 \in Effects /\ probes + 1 \in Probe)
  BY <1>0, FixJobAssumption DEF Effects, Probe, Typed
<1>5. effects = <<>> \/ \E x \in Effects : x \notin Memory /\ effects = <<x>>
  BY <1>2, <1>4
<1>6. /\ TypedLog' /\ LoopInv' /\ e \in Rows /\ Folded' = Folded \cup {e}
      /\ log \subseteq log' /\ log' \subseteq log \cup children
      /\ \A f \in log : f # e => queue'[f] = queue[f]
      /\ Memory' = Memory \cup Asked(effects)
  <2>1. NextDue(e) /\ Commit(e, children, effects)
    BY <1>2
  <2>2. children \subseteq JobEvent /\ TypedLog /\ LoopInv
    BY <1>0, <1>3
  <2> QED
    BY ONLY <1>5, <2>1, <2>2, e \in JobEvent, CommitRows
<1>7. /\ \/ e = JobCreated /\ Memory' = Memory \cup {FixEffect} /\ probes' = probes
         \/ e.type = "attach" /\ probes < MaxProbes /\ probes' = probes + 1
              /\ Memory' = Memory \cup {probes + 1}
         \/ e.type # "created" /\ Memory' = Memory /\ probes' = probes
      /\ Outcome \cap log' = Outcome \cap log
  <2>1. Outcome \cap log' = Outcome \cap log
    BY <1>3, <1>6
  <2> QED
    BY <2>1, <1>2, <1>4, <1>6, AskedEffects
<1>8. e \in log /\ e \notin Folded
  BY <1>0, <1>6 DEF LoopInv, Folded
<1>9. job \in JobRow
  BY <1>0 DEF Typed, JobRow
<1>10. JobCreated \in Folded'
  BY <1>0, <1>6, <1>8 DEF CauseInv
<1>t. Typed'
  <2>1. probes' \in 0..MaxProbes
    BY <1>0, <1>7, FixJobAssumption DEF Typed
  <2>2. job' \in JobRow
    BY <1>1, <1>9, ProjectedRows
  <2> QED
    BY <2>1, <2>2, <1>0, <1>1, <1>6 DEF Typed, TypedLog, JobRow
<1>c. CarrierInv'
  <2>1. CASE e = JobCreated
    <3>1. log = {JobCreated}
      BY <1>0, <1>8, <2>1 DEF CauseInv
    <3>2. Outcome \cap log = {}
      BY <3>1, OutcomesAreNoOthers
    <3>3. FixEffect \in Memory'
      BY <2>1, <1>7, EventFields
    <3> QED
      BY <3>2, <3>3, <1>0, <1>1, <1>7 DEF CarrierInv
  <2>2. CASE e # JobCreated
    <3>1. JobCreated \in Folded
      BY <2>2, <1>6, <1>10
    <3>2. FixEffect \in Memory' <=> FixEffect \in Memory
      <4>1. \A n \in Probe : n # FixEffect
        BY DEF Probe, FixEffect
      <4> QED
        BY <4>1, <2>2, <1>4, <1>7
    <3> QED
      BY <3>1, <3>2, <1>0, <1>1, <1>7 DEF CarrierInv
  <2> QED
    BY <2>1, <2>2
<1>o. ASSUME e.type \in {"waits", "succeeded", "failed"}
      PROVE  Waits(0) \in Folded' \/ e \in Outcome
  <2>1. CASE e \in Outcome
    BY <2>1
  <2>2. ASSUME NEW n \in Probe, e = Waits(n) \/ e = Closes(TRUE, n)
        PROVE  Waits(0) \in Folded'
    <3>1. Waits(n) \in log \/ Closes(TRUE, n) \in log
      BY <1>8, <2>2
    <3>2. Waits(0) \in Folded
      BY <1>0, <2>2, <3>1 DEF CauseInv
    <3> QED
      BY <1>6, <3>2
  <2> QED
    BY <1>o, <2>1, <2>2, TypesOfEvents
<1>s. CauseInv'
  <2>1. JobCreated \in log' /\ (closed' => Outcome \cap Folded' # {})
    <3>1. closed => Outcome \cap Folded' # {}
      BY <1>0, <1>6 DEF CauseInv
    <3>2. e.type \in {"succeeded", "failed"} => Outcome \cap Folded' # {}
      <4>1. Waits(0) \in Outcome
        BY DEF Outcome
      <4> QED
        BY <4>1, <1>o, <1>6
    <3> QED
      BY <3>1, <3>2, <1>0, <1>1, <1>6 DEF CauseInv
  <2>2. job'.phase = "waiting_for_pr" => Waits(0) \in Folded'
    <3>1. CASE e.type = "waits"
      <4>1. e = Waits(0) \/ Waits(0) \in Folded'
        <5>1. \A f \in Outcome : f.type = "waits" => f = Waits(0)
          <6>1. Closes(TRUE, 0).type = "succeeded" /\ Closes(FALSE, 0).type = "failed"
            BY DEF Closes, Evt
          <6> QED
            BY <6>1 DEF Outcome
        <5> QED
          BY <3>1, <5>1, <1>o
      <4> QED
        BY <4>1, <1>6
    <3>2. CASE e.type \in {"attach", "handled", "action_error"}
      <4>1. job' = job
        BY <3>2, <1>1, <1>9, ProjectedRows
      <4> QED
        BY <4>1, <1>0, <1>6 DEF CauseInv
    <3>3. CASE e.type \in {"created", "succeeded", "failed"} \cup Progress
      <4>1. job'.phase # "waiting_for_pr"
        BY <3>3, <1>1, <1>9, ProjectedRows DEF Progress
      <4> QED
        BY <4>1
    <3> QED
      BY <3>1, <3>2, <3>3, TypesOfEvents
  <2>3. \A n \in Probe : n \in Memory' => n <= probes' /\ Waits(0) \in Folded'
    <3>1. \A n \in Probe : n # FixEffect
      BY DEF Probe, FixEffect
    <3>2. \A n \in Probe : n \in Memory => n <= probes' /\ Waits(0) \in Folded'
      BY <1>0, <1>6, <1>7 DEF CauseInv, Typed, Probe
    <3>3. e.type = "attach" => Waits(0) \in Folded'
      <4> SUFFICES ASSUME e.type = "attach" PROVE Waits(0) \in Folded'
        OBVIOUS
      <4>1. PICK c \in Attach : e = Attaches(c)
        BY TypesOfEvents
      <4>2. Attaches(c) \in log
        BY <1>8, <4>1
      <4> QED
        BY <1>0, <1>6, <4>2 DEF CauseInv
    <3>4. probes + 1 <= probes + 1
      BY <1>0 DEF Typed
    <3> QED
      BY <3>1, <3>2, <3>3, <3>4, <1>7
  <2>4. \A n \in Probe : Waits(n) \in log' \/ Closes(TRUE, n) \in log' => Waits(0) \in Folded'
    <3>1. \A n \in Probe, ok \in BOOLEAN : Waits(n) # Settled(ok) /\ Closes(TRUE, n) # Settled(ok)
      BY DEF Waits, Closes, Settled, Evt
    <3>2. \A n \in Probe : Waits(n) \notin children /\ Closes(TRUE, n) \notin children
      BY <3>1, <1>2
    <3> QED
      BY <3>2, <1>0, <1>6 DEF CauseInv
  <2>5. \A c \in Attach : Attaches(c) \in log' => Waits(0) \in Folded'
    <3>1. \A c \in Attach, ok \in BOOLEAN : Attaches(c) # Settled(ok)
      BY DEF Attaches, Settled, Evt
    <3>2. \A c \in Attach : Attaches(c) \notin children
      BY <3>1, <1>2
    <3> QED
      BY <3>2, <1>0, <1>6 DEF CauseInv
  <2> QED
    BY <2>1, <2>2, <2>3, <2>4, <2>5, <1>10 DEF CauseInv
<1>p. ASSUME ~ strayed, NEW p \in Progress, e.type \in {"waits", "succeeded", "failed"}
      PROVE  JobProgress(p) \notin Rows
  <2>1. CASE e \in Outcome
    BY <2>1, <1>p, <1>0, <1>2, ProgressFirst
  <2>2. CASE e \notin Outcome
    <3>1. Waits(0) \in Folded /\ Waits(0) \in Outcome
      BY <2>2, <1>p, <1>o, <1>6 DEF Outcome
    <3> QED
      BY <3>1, <1>p, <1>0 DEF OrderInv
  <2> QED
    BY <2>1, <2>2
<1>r. OrderInv'
  <2> SUFFICES ASSUME ~ strayed, NEW p \in Progress, JobProgress(p) \in Rows'
               PROVE  /\ Pending(JobProgress(p))' /\ queue'[JobProgress(p)].wait <= 0
                      /\ \A o \in Outcome : o \notin Folded'
                      /\ \A o \in Outcome : o \in Rows' =>
                           Pending(o)' /\ queue'[JobProgress(p)].wait < queue'[o].wait
    BY <1>1 DEF OrderInv
  <2> DEFINE f == JobProgress(p)
  <2>1. f \in log /\ f # e
    <3>1. f \in log' /\ f \notin Folded'
      BY <1>6 DEF LoopInv, Folded
    <3>2. \A ok \in BOOLEAN : f # Settled(ok)
      BY DEF JobProgress, Settled, Evt, Progress
    <3>3. f \notin children
      BY <3>2, <1>2
    <3> QED
      BY <3>1, <3>3, <1>6
  <2>2. queue'[f] = queue[f] /\ f \in Rows
    BY <2>1, <1>6 DEF Rows
  <2>3. e \notin Outcome
    <3>1. e \in Outcome => e.type \in {"waits", "succeeded", "failed"}
      BY OutcomesAreNoOthers
    <3> QED
      BY <3>1, <2>2, <1>p
  <2>4. /\ Pending(f) /\ queue[f].wait <= 0
        /\ \A o \in Outcome : o \notin Folded
        /\ \A o \in Outcome : o \in Rows => Pending(o) /\ queue[f].wait < queue[o].wait
    BY <2>2, <1>0 DEF OrderInv
  <2>5. ASSUME NEW o \in Outcome, o \in Rows'
        PROVE  Pending(o)' /\ queue'[f].wait < queue'[o].wait
    <3>1. o \in log /\ o # e
      BY <2>3, <2>5, <1>6, <1>7 DEF LoopInv
    <3>2. queue'[o] = queue[o] /\ o \in Rows
      BY <3>1, <2>5, <1>6 DEF Rows
    <3> QED
      BY <3>2, <2>2, <2>4 DEF Pending
  <2> QED
    BY <2>2, <2>3, <2>4, <2>5, <1>6 DEF Pending
<1>w. RowInv'
  <2>1. CASE e.type = "waits"
    BY <2>1, <1>1, <1>9, ProjectedRows DEF RowInv, Waiting
  <2>2. CASE e.type \in {"succeeded", "failed"}
    <3>1. job'.status \in {"succeeded", "failed"}
      BY <2>2, <1>1, <1>9, ProjectedRows
    <3> QED
      BY <3>1 DEF RowInv, Waiting
  <2>3. CASE e.type \in {"attach", "handled", "action_error"}
    <3>1. job' = job
      BY <2>3, <1>1, <1>9, ProjectedRows
    <3>2. e \notin Outcome
      BY <2>3, OutcomesAreNoOthers
    <3> QED
      BY <3>1, <3>2, <1>0, <1>1, <1>6 DEF RowInv, Waiting
  <2>4. CASE e.type \in {"created"} \cup Progress
    <3>1. job'.phase # "waiting_for_pr"
      BY <2>4, <1>1, <1>9, ProjectedRows DEF Progress
    <3>2. e \notin Outcome
      BY <2>4, OutcomesAreNoOthers DEF Progress
    <3>3. ~ strayed => Outcome \cap Folded = {}
      <4>1. CASE e = JobCreated
        <5>1. log = {JobCreated}
          BY <1>0, <1>8, <4>1 DEF CauseInv
        <5> QED
          BY <5>1, OutcomesAreNoOthers DEF Folded
      <4>2. ASSUME e.type \in Progress, ~ strayed PROVE Outcome \cap Folded = {}
        <5>1. e = JobProgress(e.type)
          BY <4>2, TypesOfEvents
        <5> QED
          BY <5>1, <4>2, <1>0, <1>6 DEF OrderInv
      <4> QED
        BY <4>1, <4>2, <2>4, TypesOfEvents
    <3> QED
      BY <3>1, <3>2, <3>3, <1>1, <1>6 DEF RowInv, Waiting
  <2> QED
    BY <2>1, <2>2, <2>3, <2>4, TypesOfEvents
<1> QED
  BY <1>6, <1>t, <1>c, <1>s, <1>r, <1>w DEF IInv

-----------------------------------------------------------------------------
(* Theorems                                                                *)

LEMMA IInvInitially == Init => IInv
<1> SUFFICES ASSUME Init PROVE IInv
  OBVIOUS
<1>1. JobCreated \in JobEvent
  BY EventsAreEvents
<1>2. /\ log = {JobCreated}
      /\ queue = [e \in JobEvent |-> IF e = JobCreated THEN FreshRow(e) ELSE NoRow]
      /\ pendingEffects = <<>> /\ inFlight = {} /\ pc = "idle"
      /\ job = [status |-> "none", phase |-> "none", next |-> -1]
      /\ ~ closed /\ ~ strayed /\ probes = 0 /\ attaches = 0 /\ crashes = 0
  BY DEF Init
<1>3. NoRow \in QueueRow
  BY DEF NoRow, QueueRow, Status
<1>4. TypedLog /\ Rows = {JobCreated} /\ Folded = {}
  BY <1>1, <1>2, <1>3, FreshRowTyped DEF TypedLog, Rows, Folded
<1>5. LoopMemory(Effects, pendingEffects, inFlight, MaxConcurrency) /\ Memory = {}
  BY <1>2, LimitIsNat, EmptyMemory DEF Memory
<1>6. job \in JobRow /\ job.phase # "waiting_for_pr"
  BY <1>2 DEF JobRow, JobPhase
<1>7. Typed /\ LoopInv
  <2>1. probes \in 0..MaxProbes /\ attaches \in 0..MaxAttaches /\ crashes \in Nat
    BY <1>2, FixJobAssumption
  <2> QED
    BY <2>1, <1>2, <1>4, <1>5, <1>6 DEF Typed, LoopInv, TypedLog, JobRow
<1>8. CarrierInv
  BY <1>2, <1>4, <1>5 DEF CarrierInv
<1>9. CauseInv
  <2>1. \A n \in Probe : Waits(n) # JobCreated /\ Closes(TRUE, n) # JobCreated
    BY DEF Waits, Closes, JobCreated, Evt
  <2>2. \A c \in Attach : Attaches(c) # JobCreated
    BY DEF Attaches, JobCreated, Evt
  <2>3. job.status = "none"
    BY <1>2
  <2> QED
    BY <2>1, <2>2, <2>3, <1>2, <1>5, <1>6 DEF CauseInv
<1>10. OrderInv
  <2>1. \A p \in Progress : JobProgress(p) # JobCreated
    BY DEF JobProgress, JobCreated, Evt, Progress
  <2> QED
    BY <2>1, <1>4 DEF OrderInv
<1>11. RowInv
  BY <1>4, <1>6 DEF RowInv, Waiting
<1> QED
  BY <1>7, <1>8, <1>9, <1>10, <1>11 DEF IInv

LEMMA Inductive == Spec => []IInv
<1>1. IInv /\ [Next]_vars => IInv'
  <2> SUFFICES ASSUME IInv, [Next]_vars PROVE IInv'
    OBVIOUS
  <2>1. ASSUME NEW e \in JobEvent, Fold(e) \/ Fail(e) PROVE IInv'
    BY <2>1, FoldStep, FailStep
  <2>2. CASE (\E phase \in Progress : FixProgresses(phase)) \/ FixSucceeds \/ FixWaits \/ FixFails
    BY <2>2, FixSteps
  <2>3. ASSUME NEW n \in Probe, ProbeFinds(n) \/ ProbeMisses(n) \/ ProbeThrows(n) PROVE IInv'
    BY <2>3, ProbeSteps
  <2>4. CASE PullRequestAppears \/ Begin \/ Finish \/ Recover
    BY <2>4, LoopSteps
  <2>5. CASE Schedule \/ AttachCommand \/ Pass \/ Crash
    BY <2>5, ScheduleStep, AttachStep, PassStep, CrashStep
  <2>6. CASE UNCHANGED vars
    <3>1. LoopMemory(Effects, pendingEffects, inFlight, MaxConcurrency)' /\ Memory' = Memory
      BY <2>6 DEF IInv, LoopInv, vars, Memory
    <3> QED
      BY <3>1, <2>6, TablesAreKept DEF vars, counters
  <2> QED
    BY <2>1, <2>2, <2>3, <2>4, <2>5, <2>6 DEF Next
<1> QED
  BY <1>1, IInvInitially, PTL DEF Spec

(* While the daemon lives, an open job that does not wait for its pull     *)
(* request is not stranded, whatever fails: the fix effect runs at most    *)
(* once, and leaves its outcome on the queue (fix in host/effects.js).     *)
THEOREM JobsAreCarried == Spec => []OpenJobHasACarrier
<1>1. IInv => OpenJobHasACarrier
  <2> SUFFICES ASSUME IInv, job.status \in {"queued", "running"}, job.phase # "waiting_for_pr",
                      crashes = 0, ~ strayed
               PROVE  \/ FixEffect \in inFlight
                      \/ \E i \in 1..Len(pendingEffects) : pendingEffects[i] = FixEffect
                      \/ \E e \in Outcome : Pending(e) \/ Dead(e)
    BY DEF OpenJobHasACarrier, Outcome
  <2>1. JobCreated \in Folded
    BY DEF IInv, CauseInv
  <2>2. CASE FixEffect \in Memory
    <3>1. pendingEffects \in Seq(Effects)
      BY DEF IInv, LoopInv, LoopMemory
    <3> QED
      BY <2>2, <3>1, RangeOfBacklog DEF Memory
  <2>3. CASE Outcome \cap log # {}
    <3>1. PICK e \in Outcome : e \in log
      BY <2>3
    <3>2. e \in Rows
      BY <3>1 DEF IInv, RowInv, Waiting, Folded
    <3>3. queue[e] \in QueueRow /\ queue[e] # NoRow
      BY <3>2 DEF IInv, Typed, Rows
    <3> QED
      BY <3>3 DEF QueueRow, Pending, Dead
  <2> QED
    BY <2>1, <2>2, <2>3 DEF IInv, CarrierInv
<1> QED
  BY <1>1, Inductive, PTL

(* What a probe says late sets a closed job running only as a waiting one, *)
(* with a clock (upsertJob takes an update of a closed job).               *)
THEOREM ReopenedToBeProbed == Spec => []ReopenedOnlyIntoRotation
<1>1. IInv => ReopenedOnlyIntoRotation
  <2> SUFFICES ASSUME IInv, closed, job.status = "running", ~ strayed
               PROVE  Waiting /\ job.next >= 0
    BY DEF ReopenedOnlyIntoRotation
  <2>1. Outcome \cap Folded # {}
    BY DEF IInv, CauseInv
  <2> QED
    BY <2>1 DEF IInv, RowInv
<1> QED
  BY <1>1, Inductive, PTL
=============================================================================
