------------------------- MODULE EventQueue_proofs -------------------------
(***************************************************************************)
(* Proofs about EventQueue, for every workload, number of crashes and pool *)
(* size, and about Retention, the sweep that rewrites the event log, for   *)
(* every policy and number of recommendations.                             *)
(***************************************************************************)
EXTENDS EventQueue, Retention, SequenceTheorems, FiniteSetTheorems, FunctionTheorems, TLAPS

-----------------------------------------------------------------------------
(* The inductive invariant                                                 *)

(* What is not in the log has left no trace.                               *)
TracesAreLogged ==
  \A e \in Event : e \notin log => queue[e] = NoRow /\ folds[e] = 0 /\ fails[e] = 0

(* The unique index.                                                       *)
KeysAreUnique ==
  \A e, f \in log : e # f /\ Key[e] # NoKey => Key[e] # Key[f]

(* The commit that folds an event takes its row away for good.             *)
FoldTakesTheRow ==
  \A e \in Event : folds[e] \in {0, 1} /\ (folds[e] = 1 => queue[e] = NoRow)

(* A row carries the count of the attempts that have failed.               *)
RowCountsAttempts ==
  \A e \in Event :
    /\ fails[e] <= MaxAttempts
    /\ Pending(e) => queue[e].attempts = fails[e] /\ fails[e] < MaxAttempts
    /\ Dead(e) <=> fails[e] = MaxAttempts

(* A buffered effect is buffered once, its event is folded and it has not  *)
(* started; a running one has.                                             *)
BacklogIsNew ==
  /\ \A i \in 1..Len(pendingEffects) :
       folds[pendingEffects[i]] = 1 /\ launches[pendingEffects[i]] = 0
  /\ \A i, j \in 1..Len(pendingEffects) : pendingEffects[i] = pendingEffects[j] => i = j
  /\ \A x \in inFlight : launches[x] # 0
  /\ \A e \in Event : launches[e] <= folds[e]

PoolIsBounded ==
  /\ IsFiniteSet(inFlight)
  /\ PoolIsFullOrBacklogEmpty

(* Memory is empty while the daemon is down.                               *)
DownIsBlank == pc = "down" => pendingEffects = <<>> /\ inFlight = {}

TablesInv ==
  /\ TracesAreLogged /\ KeysAreUnique /\ FoldTakesTheRow
  /\ RowCountsAttempts /\ CommitIsAtomic

MemoryInv == BacklogIsNew /\ PoolIsBounded /\ DownIsBlank

IInv == TypeOK /\ TablesInv /\ MemoryInv

-----------------------------------------------------------------------------
(* The tables: the log only grows, and a row changes with its counters     *)

(* What the log turned away once it turns away for ever (queue.js, the     *)
(* unique index on dedup_key).                                             *)
LEMMA RefusalsLast ==
  ASSUME log \subseteq log', NEW c \in Event, ~ Accepts(c)
  PROVE  ~ Accepts(c)'
BY DEF Accepts, Duplicate

(* Enqueuing one fact, completely or torn, keeps the tables in order       *)
(* (queue.js, enqueue).                                                    *)
LEMMA OutsideFact ==
  ASSUME TypeOK, TablesInv, NEW e \in Event,
         e \in Roots \/ \E x \in Event : e \in Results[x],
         Enqueue({e}) \/ TornEnqueue(e), UNCHANGED <<folds, fails>>
  PROVE  log' \subseteq Event /\ queue' \in [Event -> Row] /\ TablesInv'
<1> USE WorkloadAssumption DEF LoopAssumption
<1>1. ASSUME UNCHANGED <<log, queue>>
      PROVE  log' \subseteq Event /\ queue' \in [Event -> Row] /\ TablesInv'
  BY <1>1 DEF TypeOK, LoopTypeOK, TablesInv, TracesAreLogged, KeysAreUnique,
     FoldTakesTheRow, RowCountsAttempts, CommitIsAtomic, Pending, Dead, Accepts, Duplicate
<1>2. ASSUME Accepts(e), log' = log \cup {e},
             queue' = queue \/ queue' = [f \in Event |-> IF f = e THEN FreshRow(e) ELSE queue[f]]
      PROVE  log' \subseteq Event /\ queue' \in [Event -> Row] /\ TablesInv'
  <2>1. e \notin log /\ queue[e] = NoRow /\ folds[e] = 0 /\ fails[e] = 0
    BY <1>2 DEF Accepts, Duplicate, TablesInv, TracesAreLogged
  <2>2. log' \subseteq Event /\ queue' \in [Event -> Row]
    BY <1>2 DEF TypeOK, LoopTypeOK, FreshRow, Row, Status
  <2>3. \A f \in Event : f # e => queue'[f] = queue[f]
    BY <1>2
  <2>4. queue'[e] \in {NoRow, FreshRow(e)}
    BY <1>2, <2>1
  <2>5. TracesAreLogged'
    BY <1>2, <2>3 DEF TablesInv, TracesAreLogged
  <2>6. KeysAreUnique'
    BY <1>2 DEF TablesInv, KeysAreUnique, Accepts, Duplicate, TypeOK, LoopTypeOK
  <2>7. FoldTakesTheRow'
    <3> SUFFICES ASSUME NEW f \in Event
                 PROVE  folds[f] \in {0, 1} /\ (folds[f] = 1 => queue'[f] = NoRow)
      BY DEF FoldTakesTheRow
    <3>1. CASE f = e
      BY <2>1, <3>1
    <3>2. CASE f # e
      BY <2>3, <3>2 DEF TablesInv, FoldTakesTheRow
    <3>3. QED
      BY <3>1, <3>2
  <2>8. RowCountsAttempts'
    <3> SUFFICES ASSUME NEW f \in Event
                 PROVE  /\ fails[f] <= MaxAttempts
                        /\ Pending(f)' => queue'[f].attempts = fails[f] /\ fails[f] < MaxAttempts
                        /\ Dead(f)' <=> fails[f] = MaxAttempts
      BY DEF RowCountsAttempts
    <3>1. CASE f = e
      BY <2>1, <2>4, <3>1 DEF Pending, Dead, NoRow, FreshRow
    <3>2. CASE f # e
      BY <2>3, <3>2 DEF TablesInv, RowCountsAttempts, Pending, Dead
    <3>3. QED
      BY <3>1, <3>2
  <2>9. CommitIsAtomic'
    <3> SUFFICES ASSUME NEW f \in Event
                 PROVE  /\ folds[f] = 0 => Children[f] \cap log' = {}
                        /\ folds[f] > 0 => /\ queue'[f] = NoRow
                                           /\ \A c \in Children[f] : ~ Accepts(c)'
      BY DEF CommitIsAtomic
    <3>1. e \notin Children[f]
      OBVIOUS
    <3>2. folds[f] > 0 => f # e
      BY <2>1
    <3>3. QED
      BY <1>2, <2>3, <3>1, <3>2, RefusalsLast DEF TablesInv, CommitIsAtomic
  <2>10. QED
    BY <2>2, <2>5, <2>6, <2>7, <2>8, <2>9 DEF TablesInv
<1>3. CASE TornEnqueue(e)
  BY <1>2, <1>3 DEF TornEnqueue
<1>4. CASE Enqueue({e}) /\ Accepts(e)
  <2>1. Fresh({e}) = {e}
    BY <1>4 DEF Fresh
  <2>2. QED
    BY <1>2, <1>4, <2>1 DEF Enqueue
<1>5. CASE Enqueue({e}) /\ ~ Accepts(e)
  <2>1. Fresh({e}) = {}
    BY <1>5 DEF Fresh
  <2>2. UNCHANGED <<log, queue>>
    BY <1>5, <2>1 DEF Enqueue, TypeOK, LoopTypeOK
  <2>3. QED
    BY <1>1, <2>2
<1>6. QED
  BY <1>3, <1>4, <1>5

(* The commit of an event keeps the tables in order: its row goes, its     *)
(* children come, in one step (queue.js, commit).                          *)
LEMMA FoldTables ==
  ASSUME TypeOK, TablesInv, NEW e \in Event, Fold(e)
  PROVE  /\ log' \subseteq Event /\ queue' \in [Event -> Row]
         /\ folds[e] = 0 /\ folds' \in [Event -> Nat]
         /\ TablesInv'
<1> USE WorkloadAssumption DEF LoopAssumption
<1> DEFINE new == Fresh(Children[e])
<1>1. /\ log' = log \cup new
      /\ queue' = [f \in Event |-> IF f = e THEN NoRow
                                   ELSE IF f \in new THEN FreshRow(f) ELSE queue[f]]
      /\ folds' = [folds EXCEPT ![e] = @ + 1]
      /\ fails' = fails
  BY DEF Fold, Commit
<1>2. Pending(e) /\ queue[e] # NoRow
  BY DEF Fold, NextDue, Due, Pending, NoRow
<1>3. e \in log /\ folds[e] = 0 /\ folds'[e] = 1
  BY <1>1, <1>2 DEF TablesInv, TracesAreLogged, FoldTakesTheRow, TypeOK
<1>4. /\ new \subseteq Children[e] /\ new \subseteq Event
      /\ \A c \in new : Accepts(c) /\ c \notin log /\ c # e
  BY <1>3 DEF Fresh, Accepts, Duplicate
<1>5. /\ \A f \in Event : f # e => folds'[f] = folds[f]
      /\ \A f \in Event : f # e /\ f \notin new => queue'[f] = queue[f]
      /\ \A f \in new : queue'[f] = FreshRow(f) /\ folds[f] = 0 /\ fails[f] = 0
      /\ queue'[e] = NoRow
  BY <1>1, <1>4 DEF TypeOK, TablesInv, TracesAreLogged
<1>6. log' \subseteq Event /\ queue' \in [Event -> Row]
  BY <1>1, <1>4 DEF TypeOK, LoopTypeOK, FreshRow, NoRow, Row, Status
<1>7. TracesAreLogged'
  BY <1>1, <1>3, <1>5 DEF TablesInv, TracesAreLogged
<1>8. KeysAreUnique'
  <2> SUFFICES ASSUME NEW f \in log', NEW g \in log', f # g, Key[f] # NoKey
               PROVE  Key[f] # Key[g]
    BY DEF KeysAreUnique
  <2>1. CASE f \in log /\ g \in log
    BY <2>1 DEF TablesInv, KeysAreUnique
  <2>2. CASE f \in new /\ g \in new
    BY <1>4, <2>2
  <2>3. CASE f \in new /\ g \in log
    BY <1>4, <2>3 DEF Accepts, Duplicate
  <2>4. CASE f \in log /\ g \in new
    BY <1>4, <2>4 DEF Accepts, Duplicate
  <2>5. QED
    BY <1>1, <2>1, <2>2, <2>3, <2>4
<1>9. FoldTakesTheRow'
  <2> SUFFICES ASSUME NEW f \in Event
               PROVE  folds'[f] \in {0, 1} /\ (folds'[f] = 1 => queue'[f] = NoRow)
    BY DEF FoldTakesTheRow
  <2>1. CASE f = e
    BY <1>3, <1>5, <2>1
  <2>2. CASE f \in new
    <3>1. f # e /\ folds[f] = 0
      BY <1>4, <1>5, <2>2
    <3>2. folds'[f] = 0
      BY <1>5, <3>1
    <3>3. QED
      BY <3>2
  <2>3. CASE f # e /\ f \notin new
    BY <1>5, <2>3 DEF TablesInv, FoldTakesTheRow
  <2>4. QED
    BY <2>1, <2>2, <2>3
<1>10. RowCountsAttempts'
  <2> SUFFICES ASSUME NEW f \in Event
               PROVE  /\ fails[f] <= MaxAttempts
                      /\ Pending(f)' => queue'[f].attempts = fails[f] /\ fails[f] < MaxAttempts
                      /\ Dead(f)' <=> fails[f] = MaxAttempts
    BY <1>1 DEF RowCountsAttempts
  <2>1. CASE f = e
    BY <1>2, <1>5, <2>1 DEF TablesInv, RowCountsAttempts, Pending, Dead, NoRow
  <2>2. CASE f \in new
    <3>1. queue'[f] = FreshRow(f) /\ fails[f] = 0
      BY <1>5, <2>2
    <3>2. queue'[f].status = "pending" /\ queue'[f].attempts = 0
      BY <3>1 DEF FreshRow
    <3>3. QED
      BY <3>1, <3>2 DEF Pending, Dead
  <2>3. CASE f # e /\ f \notin new
    BY <1>5, <2>3 DEF TablesInv, RowCountsAttempts, Pending, Dead
  <2>4. QED
    BY <2>1, <2>2, <2>3
<1>11. CommitIsAtomic'
  <2> SUFFICES ASSUME NEW f \in Event
               PROVE  /\ folds'[f] = 0 => Children[f] \cap log' = {}
                      /\ folds'[f] > 0 => /\ queue'[f] = NoRow
                                          /\ \A c \in Children[f] : ~ Accepts(c)'
    BY DEF CommitIsAtomic
  <2>1. CASE f = e
    <3>1. \A c \in Children[e] : ~ Accepts(c)'
      <4> SUFFICES ASSUME NEW c \in Children[e]
                   PROVE  ~ Accepts(c)'
        OBVIOUS
      <4>1. CASE Accepts(c)
        BY <1>1, <4>1 DEF Fresh, Accepts, Duplicate
      <4>2. CASE ~ Accepts(c)
        BY <1>1, <4>2, RefusalsLast
      <4>3. QED
        BY <4>1, <4>2
    <3>2. QED
      BY <1>3, <1>5, <2>1, <3>1
  <2>2. CASE f # e
    <3>1. Children[f] \cap new = {}
      BY <1>4, <2>2
    <3>2. folds'[f] > 0 => f \notin new /\ folds[f] > 0
      BY <1>5, <2>2
    <3>3. QED
      BY <1>1, <1>5, <2>2, <3>1, <3>2, RefusalsLast DEF TablesInv, CommitIsAtomic
  <2>3. QED
    BY <2>1, <2>2
<1>12. folds' \in [Event -> Nat]
  BY <1>1 DEF TypeOK
<1>13. QED
  BY <1>3, <1>6, <1>7, <1>8, <1>9, <1>10, <1>11, <1>12 DEF TablesInv

(* A failed attempt is counted on the row and costs it nothing else, until *)
(* the last one parks it (queue.js, recordFailure).                        *)
LEMMA FailTables ==
  ASSUME TypeOK, TablesInv, NEW e \in Event, Fail(e)
  PROVE  queue' \in [Event -> Row] /\ fails' \in [Event -> Nat] /\ TablesInv'
<1> USE WorkloadAssumption DEF LoopAssumption
<1>1. /\ Pending(e) /\ queue[e] # NoRow
      /\ log' = log /\ folds' = folds /\ fails' = [fails EXCEPT ![e] = @ + 1]
  BY DEF Fail, RecordFailure, NextDue, Due, Pending, NoRow
<1>2. /\ queue[e].attempts = fails[e] /\ fails[e] < MaxAttempts
      /\ e \in log /\ folds[e] = 0
  BY <1>1 DEF TablesInv, RowCountsAttempts, TracesAreLogged, FoldTakesTheRow
<1>3. fails' \in [Event -> Nat] /\ fails'[e] = fails[e] + 1
  BY <1>1 DEF TypeOK
<1>4. /\ queue' \in [Event -> Row]
      /\ \A f \in Event : f # e => queue'[f] = queue[f] /\ fails'[f] = fails[f]
      /\ queue'[e].attempts = fails[e] + 1
      /\ queue'[e].status = IF fails[e] + 1 >= MaxAttempts THEN "dead_letter" ELSE "pending"
  <2> DEFINE n == queue[e].attempts + 1
             row == IF n >= MaxAttempts
                      THEN [status |-> "dead_letter", wait |-> 0, attempts |-> n]
                      ELSE [status |-> "pending", wait |-> RetryAfter[n], attempts |-> n]
  <2>1. queue' = [queue EXCEPT ![e] = row]
    BY DEF Fail, RecordFailure
  <2>2. fails[e] \in Nat /\ n = fails[e] + 1 /\ n \in 1..MaxAttempts
    BY <1>2 DEF TypeOK
  <2>3. n < MaxAttempts => RetryAfter[n] \in Int
    BY <2>2
  <2>4. row \in Row
    BY <2>2, <2>3 DEF Row, Status
  <2>5. /\ row.attempts = fails[e] + 1
        /\ row.status = IF fails[e] + 1 >= MaxAttempts THEN "dead_letter" ELSE "pending"
    BY <2>2
  <2>6. queue \in [Event -> Row]
    BY DEF TypeOK, LoopTypeOK
  <2> HIDE DEF row
  <2>7. queue' \in [Event -> Row]
    BY <2>1, <2>4, <2>6
  <2>8. queue'[e] = row /\ \A f \in Event : f # e => queue'[f] = queue[f]
    BY <2>1, <2>6
  <2>9. \A f \in Event : f # e => fails'[f] = fails[f]
    BY <1>1 DEF TypeOK
  <2>10. QED
    BY <2>5, <2>7, <2>8, <2>9
<1>5. TracesAreLogged'
  BY <1>1, <1>2, <1>4 DEF TablesInv, TracesAreLogged
<1>6. KeysAreUnique'
  BY <1>1 DEF TablesInv, KeysAreUnique
<1>7. FoldTakesTheRow'
  BY <1>1, <1>2, <1>4 DEF TablesInv, FoldTakesTheRow
<1>8. RowCountsAttempts'
  <2> SUFFICES ASSUME NEW f \in Event
               PROVE  /\ fails'[f] <= MaxAttempts
                      /\ Pending(f)' => queue'[f].attempts = fails'[f] /\ fails'[f] < MaxAttempts
                      /\ Dead(f)' <=> fails'[f] = MaxAttempts
    BY DEF RowCountsAttempts
  <2>1. CASE f = e
    BY <1>2, <1>3, <1>4, <2>1 DEF Pending, Dead, TypeOK
  <2>2. CASE f # e
    BY <1>4, <2>2 DEF TablesInv, RowCountsAttempts, Pending, Dead
  <2>3. QED
    BY <2>1, <2>2
<1>9. CommitIsAtomic'
  BY <1>1, <1>2, <1>4, RefusalsLast DEF TablesInv, CommitIsAtomic
<1>10. QED
  BY <1>3, <1>4, <1>5, <1>6, <1>7, <1>8, <1>9 DEF TablesInv

(* Steps that only let time pass, or leave the tables alone, keep them in  *)
(* order.                                                                  *)
LEMMA QuietTables ==
  ASSUME TypeOK, TablesInv, Tick \/ UNCHANGED queue, UNCHANGED <<log, folds, fails>>
  PROVE  queue' \in [Event -> Row] /\ TablesInv'
<1>1. /\ queue' \in [Event -> Row]
      /\ \A e \in Event : /\ queue'[e].status = queue[e].status
                          /\ queue'[e].attempts = queue[e].attempts
                          /\ queue[e] = NoRow => queue'[e] = NoRow
  <2>1. CASE UNCHANGED queue
    BY <2>1 DEF TypeOK, LoopTypeOK
  <2>2. CASE Tick
    <3> SUFFICES ASSUME NEW e \in Event
                 PROVE  /\ queue'[e] \in Row
                        /\ queue'[e].status = queue[e].status
                        /\ queue'[e].attempts = queue[e].attempts
                        /\ queue[e] = NoRow => queue'[e] = NoRow
      BY <2>2 DEF Tick
    <3>1. queue[e] \in Row
      BY DEF TypeOK, LoopTypeOK
    <3>2. queue'[e] = IF Pending(e) THEN [queue[e] EXCEPT !.wait = @ - 1] ELSE queue[e]
      BY <2>2 DEF Tick
    <3>3. QED
      BY <3>1, <3>2 DEF Row, Pending, NoRow
  <2>3. QED
    BY <2>1, <2>2
<1>2. TracesAreLogged'
  BY <1>1 DEF TablesInv, TracesAreLogged
<1>3. KeysAreUnique'
  BY DEF TablesInv, KeysAreUnique
<1>4. FoldTakesTheRow'
  BY <1>1 DEF TablesInv, FoldTakesTheRow
<1>5. RowCountsAttempts'
  BY <1>1 DEF TablesInv, RowCountsAttempts, Pending, Dead
<1>6. CommitIsAtomic'
  BY <1>1 DEF TablesInv, CommitIsAtomic, Accepts, Duplicate
<1>7. QED
  BY <1>1, <1>2, <1>3, <1>4, <1>5, <1>6 DEF TablesInv

-----------------------------------------------------------------------------
(* The pool: what starts is what leaves the backlog                        *)

(* A pump takes the first effects of the backlog as far as there is room:  *)
(* the pool stays bounded, and is full if anything is left (loop.js,       *)
(* pumpEffects).                                                           *)
LEMMA PumpFills ==
  ASSUME NEW waiting \in Seq(Event), NEW running \in SUBSET Event,
         IsFiniteSet(running), Cardinality(running) <= MaxConcurrency,
         \A i, j \in 1..Len(waiting) : waiting[i] = waiting[j] => i = j,
         \A i \in 1..Len(waiting) : waiting[i] \notin running,
         Pump(waiting, running)
  PROVE  LET n == Startable(waiting, running) IN
         /\ n \in 0..Len(waiting)
         /\ inFlight' \subseteq Event /\ IsFiniteSet(inFlight')
         /\ Cardinality(inFlight') <= MaxConcurrency
         /\ pendingEffects' # <<>> => Cardinality(inFlight') = MaxConcurrency
         /\ inFlight' = running \cup {waiting[i] : i \in 1..n}
         /\ pendingEffects' \in Seq(Event)
         /\ Len(pendingEffects') = Len(waiting) - n
         /\ \A i \in 1..Len(pendingEffects') : pendingEffects'[i] = waiting[n + i]
<1> DEFINE n == Startable(waiting, running)
           started == {waiting[i] : i \in 1..n}
           first == [i \in 1..n |-> waiting[i]]
<1>1. Cardinality(running) \in Nat /\ MaxConcurrency \in Nat
  BY FS_CardinalityType, WorkloadAssumption DEF LoopAssumption
<1>2. n \in 0..Len(waiting) /\ n <= MaxConcurrency - Cardinality(running)
  BY <1>1 DEF Startable, Room
<1>3. n < Len(waiting) => n = MaxConcurrency - Cardinality(running)
  BY <1>1 DEF Startable, Room
<1>4. inFlight' = running \cup started /\ pendingEffects' = SubSeq(waiting, n + 1, Len(waiting))
  BY DEF Pump
<1> HIDE DEF n
<1>5. /\ pendingEffects' \in Seq(Event)
      /\ Len(pendingEffects') = Len(waiting) - n
      /\ \A i \in 1..Len(pendingEffects') : pendingEffects'[i] = waiting[n + i]
  BY <1>2, <1>4
<1>6. IsFiniteSet(started) /\ Cardinality(started) = n
  <2>1. first \in [1..n -> started] /\ \A t \in started : \E i \in 1..n : first[i] = t
    OBVIOUS
  <2>2. \A i, j \in 1..n : first[i] = first[j] => i = j
    BY <1>2
  <2>3. first \in Bijection(1..n, started)
    BY <2>1, <2>2, Fun_IsBij
  <2>4. ExistsBijection(1..n, started)
    BY <2>3 DEF ExistsBijection
  <2>5. IsFiniteSet(1..n) /\ Cardinality(1..n) = n
    BY <1>2, FS_Interval
  <2>6. QED
    BY <2>4, <2>5, FS_Bijection
<1>7. running \cap started = {}
  BY <1>2
<1>8. Cardinality(running \cap started) = 0
  BY <1>7, FS_EmptySet
<1>9. IsFiniteSet(inFlight') /\ Cardinality(inFlight') = Cardinality(running) + n
  <2> HIDE DEF started
  <2>1. /\ IsFiniteSet(running \cup started)
        /\ Cardinality(running \cup started)
             = Cardinality(running) + Cardinality(started) - Cardinality(running \cap started)
    BY <1>6, FS_Union
  <2>2. QED
    BY <1>1, <1>2, <1>4, <1>6, <1>8, <2>1
<1>10. inFlight' \subseteq Event
  BY <1>2, <1>4
<1>11. pendingEffects' # <<>> => n < Len(waiting)
  BY <1>2, <1>4, <1>5
<1>12. QED
  BY <1>1, <1>2, <1>3, <1>4, <1>5, <1>9, <1>10, <1>11 DEF n

(* A pump that counts what it starts keeps the memory in order.            *)
LEMMA PumpMemory ==
  ASSUME TypeOK, BacklogIsNew, FoldTakesTheRow,
         NEW running \in SUBSET inFlight, IsFiniteSet(running),
         Cardinality(running) <= MaxConcurrency,
         Pump(pendingEffects, running), CountLaunches(running),
         pc' = "idle", UNCHANGED folds
  PROVE  /\ inFlight' \subseteq Event /\ pendingEffects' \in Seq(Event)
         /\ launches' \in [Event -> Nat] /\ MemoryInv'
<1> DEFINE n == Startable(pendingEffects, running)
<1>1. /\ pendingEffects \in Seq(Event) /\ running \subseteq Event
      /\ launches \in [Event -> Nat]
  BY DEF TypeOK, LoopTypeOK
<1>2. /\ \A i, j \in 1..Len(pendingEffects) : pendingEffects[i] = pendingEffects[j] => i = j
      /\ \A i \in 1..Len(pendingEffects) : pendingEffects[i] \notin running
  BY DEF BacklogIsNew
<1>3. /\ n \in 0..Len(pendingEffects)
      /\ inFlight' \subseteq Event /\ IsFiniteSet(inFlight')
      /\ Cardinality(inFlight') <= MaxConcurrency
      /\ pendingEffects' # <<>> => Cardinality(inFlight') = MaxConcurrency
      /\ inFlight' = running \cup {pendingEffects[i] : i \in 1..n}
      /\ pendingEffects' \in Seq(Event)
      /\ Len(pendingEffects') = Len(pendingEffects) - n
      /\ \A i \in 1..Len(pendingEffects') : pendingEffects'[i] = pendingEffects[n + i]
  BY <1>1, <1>2, PumpFills
<1> HIDE DEF n
<1>4. \A x \in Event : launches'[x] = launches[x] + (IF x \in inFlight' \ running THEN 1 ELSE 0)
  BY DEF CountLaunches
<1>5. launches' \in [Event -> Nat]
  BY <1>1 DEF CountLaunches
<1>6. \A i \in 1..Len(pendingEffects) :
        pendingEffects[i] \in Event /\ folds[pendingEffects[i]] = 1 /\ launches[pendingEffects[i]] = 0
  BY <1>1 DEF BacklogIsNew
<1>7. \A i \in 1..Len(pendingEffects') : /\ n + i \in 1..Len(pendingEffects)
                                         /\ pendingEffects'[i] = pendingEffects[n + i]
                                         /\ pendingEffects'[i] \notin inFlight'
  <2> SUFFICES ASSUME NEW i \in 1..Len(pendingEffects')
               PROVE  /\ n + i \in 1..Len(pendingEffects)
                      /\ pendingEffects'[i] = pendingEffects[n + i]
                      /\ pendingEffects'[i] \notin inFlight'
    OBVIOUS
  <2> DEFINE old == Len(pendingEffects)
             left == Len(pendingEffects')
  <2>1. n + i \in 1..Len(pendingEffects) /\ pendingEffects'[i] = pendingEffects[n + i]
    <3>1. old \in Nat /\ n \in 0..old /\ left = old - n /\ i \in 1..left
      BY <1>1, <1>3
    <3> HIDE DEF old, left
    <3>2. n + i \in 1..old
      BY <3>1
    <3>3. QED
      BY <1>3, <3>2 DEF old
  <2>2. \A j \in 1..n : pendingEffects[n + i] # pendingEffects[j]
    BY <1>2, <1>3, <2>1
  <2>3. pendingEffects[n + i] \notin running
    BY <1>2, <2>1
  <2>4. QED
    BY <1>3, <2>1, <2>2, <2>3
<1>8. BacklogIsNew'
  <2>1. ASSUME NEW i \in 1..Len(pendingEffects')
        PROVE  folds[pendingEffects'[i]] = 1 /\ launches'[pendingEffects'[i]] = 0
    <3>1. /\ n + i \in 1..Len(pendingEffects)
          /\ pendingEffects'[i] = pendingEffects[n + i]
          /\ pendingEffects'[i] \notin inFlight'
      BY <1>7
    <3>2. QED
      BY <1>4, <1>6, <3>1
  <2>2. ASSUME NEW i \in 1..Len(pendingEffects'), NEW j \in 1..Len(pendingEffects'),
               pendingEffects'[i] = pendingEffects'[j]
        PROVE  i = j
    <3>1. /\ n + i \in 1..Len(pendingEffects) /\ n + j \in 1..Len(pendingEffects)
          /\ pendingEffects[n + i] = pendingEffects[n + j]
      BY <1>7, <2>2
    <3>2. n + i = n + j
      BY <1>2, <3>1
    <3>3. QED
      BY <1>3, <3>2
  <2>3. ASSUME NEW x \in inFlight'
        PROVE  launches'[x] # 0
    <3>1. x \in Event /\ launches[x] \in Nat
      BY <1>1, <1>3
    <3>2. CASE x \in running
      BY <1>4, <3>1, <3>2 DEF BacklogIsNew
    <3>3. CASE x \notin running
      BY <1>4, <3>1, <3>3
    <3>4. QED
      BY <3>2, <3>3
  <2>4. ASSUME NEW e \in Event
        PROVE  launches'[e] <= folds[e]
    <3>1. CASE e \in inFlight' \ running
      <4>1. folds[e] = 1 /\ launches[e] = 0
        BY <1>3, <1>6, <3>1
      <4>2. QED
        BY <1>4, <3>1, <4>1
    <3>2. CASE e \notin inFlight' \ running
      BY <1>1, <1>4, <3>2 DEF BacklogIsNew
    <3>3. QED
      BY <3>1, <3>2
  <2>5. QED
    BY <2>1, <2>2, <2>3, <2>4 DEF BacklogIsNew
<1>9. PoolIsBounded' /\ DownIsBlank'
  BY <1>3 DEF PoolIsBounded, PoolIsFullOrBacklogEmpty, DownIsBlank
<1>10. QED
  BY <1>3, <1>5, <1>8, <1>9 DEF MemoryInv

(* A commit that asks for an effect buffers one that is new (loop.js,      *)
(* processOne collects the launches, and buffers them after the commit).   *)
LEMMA FoldMemory ==
  ASSUME TypeOK, MemoryInv, NEW e \in Event, Fold(e), folds[e] = 0
  PROVE  /\ inFlight' \subseteq Event /\ pendingEffects' \in Seq(Event)
         /\ MemoryInv'
<1> DEFINE effects == IF e \in Launches THEN <<e>> ELSE <<>>
<1>1. /\ pendingEffects' = pendingEffects \o effects
      /\ folds' = [folds EXCEPT ![e] = @ + 1]
      /\ launches' = launches /\ inFlight' = inFlight /\ pc = "batch" /\ pc' = "batch"
  BY DEF Fold, Commit
<1>2. pendingEffects \in Seq(Event) /\ effects \in Seq(Event) /\ Len(effects) \in {0, 1}
  BY DEF TypeOK, LoopTypeOK
<1>3. \A i \in 1..Len(effects) : effects[i] = e
  OBVIOUS
<1>4. /\ launches[e] = 0 /\ folds'[e] = 1
      /\ \A x \in Event : x # e => folds'[x] = folds[x]
  BY <1>1 DEF TypeOK, MemoryInv, BacklogIsNew
<1>5. /\ pendingEffects' \in Seq(Event)
      /\ Len(pendingEffects') = Len(pendingEffects) + Len(effects)
      /\ \A i \in 1..Len(pendingEffects') :
           pendingEffects'[i] = IF i <= Len(pendingEffects) THEN pendingEffects[i] ELSE e
  <2> HIDE DEF effects
  <2>1. QED
    BY <1>1, <1>2, <1>3, ConcatProperties
<1> HIDE DEF effects
<1>6. \A i \in 1..Len(pendingEffects) :
        /\ pendingEffects[i] \in Event /\ pendingEffects[i] # e
        /\ folds[pendingEffects[i]] = 1 /\ launches[pendingEffects[i]] = 0
  BY <1>2 DEF MemoryInv, BacklogIsNew
<1>7. BacklogIsNew'
  <2>1. ASSUME NEW i \in 1..Len(pendingEffects')
        PROVE  folds'[pendingEffects'[i]] = 1 /\ launches[pendingEffects'[i]] = 0
    <3>1. CASE i <= Len(pendingEffects)
      BY <1>2, <1>4, <1>5, <1>6, <3>1
    <3>2. CASE ~ (i <= Len(pendingEffects))
      BY <1>4, <1>5, <3>2
    <3>3. QED
      BY <3>1, <3>2
  <2>2. ASSUME NEW i \in 1..Len(pendingEffects'), NEW j \in 1..Len(pendingEffects'),
               pendingEffects'[i] = pendingEffects'[j]
        PROVE  i = j
    <3>1. CASE i <= Len(pendingEffects) /\ j <= Len(pendingEffects)
      BY <1>2, <1>5, <2>2, <3>1 DEF MemoryInv, BacklogIsNew
    <3>2. CASE ~ (i <= Len(pendingEffects)) /\ ~ (j <= Len(pendingEffects))
      <4> DEFINE old == Len(pendingEffects)
                 new == Len(effects)
      <4>1. old \in Nat /\ new \in 0..1 /\ i \in 1..(old + new) /\ j \in 1..(old + new)
        BY <1>2, <1>5
      <4>2. ~ (i <= old) /\ ~ (j <= old)
        BY <3>2
      <4> HIDE DEF old, new
      <4>3. QED
        BY <4>1, <4>2
    <3>3. CASE i <= Len(pendingEffects) /\ ~ (j <= Len(pendingEffects))
      BY <1>2, <1>5, <1>6, <2>2, <3>3
    <3>4. CASE ~ (i <= Len(pendingEffects)) /\ j <= Len(pendingEffects)
      BY <1>2, <1>5, <1>6, <2>2, <3>4
    <3>5. QED
      BY <3>1, <3>2, <3>3, <3>4
  <2>3. \A x \in inFlight' : launches'[x] # 0
    BY <1>1 DEF MemoryInv, BacklogIsNew
  <2>4. \A x \in Event : launches'[x] <= folds'[x]
    BY <1>1, <1>4 DEF MemoryInv, BacklogIsNew
  <2>5. QED
    BY <1>1, <2>1, <2>2, <2>3, <2>4 DEF BacklogIsNew
<1>8. PoolIsBounded' /\ DownIsBlank'
  BY <1>1 DEF MemoryInv, PoolIsBounded, PoolIsFullOrBacklogEmpty, DownIsBlank
<1>9. QED
  BY <1>1, <1>5, <1>7, <1>8 DEF MemoryInv, TypeOK, LoopTypeOK

(* A crash leaves an empty memory behind.                                  *)
LEMMA HaltMemory ==
  ASSUME TypeOK, MemoryInv, Halt, UNCHANGED <<folds, launches>>
  PROVE  /\ inFlight' \subseteq Event /\ pendingEffects' \in Seq(Event)
         /\ pc' = "down" /\ MemoryInv'
<1>1. pc' = "down" /\ pendingEffects' = <<>> /\ inFlight' = {}
  BY DEF Halt
<1>2. BacklogIsNew'
  BY <1>1 DEF MemoryInv, BacklogIsNew
<1>3. PoolIsBounded' /\ DownIsBlank'
  BY <1>1, FS_EmptySet, WorkloadAssumption
     DEF PoolIsBounded, PoolIsFullOrBacklogEmpty, DownIsBlank, LoopAssumption
<1>4. QED
  BY <1>1, <1>2, <1>3 DEF MemoryInv

(* The memory is in order as long as a step leaves it alone.               *)
LEMMA QuietMemory ==
  ASSUME MemoryInv, UNCHANGED <<pendingEffects, inFlight, pc, folds, launches>>
  PROVE  MemoryInv'
BY DEF MemoryInv, BacklogIsNew, PoolIsBounded, PoolIsFullOrBacklogEmpty, DownIsBlank

-----------------------------------------------------------------------------
(* The invariant is inductive                                              *)

LEMMA InitIInv == Init => IInv
<1> SUFFICES ASSUME Init
             PROVE  IInv
  OBVIOUS
<1> USE DEF Init, LoopInit
<1>1. TypeOK
  BY WorkloadAssumption DEF TypeOK, LoopTypeOK, LoopAssumption, Row, NoRow, Status
<1>2. TablesInv
  BY WorkloadAssumption DEF TablesInv, TracesAreLogged, KeysAreUnique, FoldTakesTheRow,
     RowCountsAttempts, CommitIsAtomic, LoopAssumption, Pending, Dead, NoRow
<1>3. MemoryInv
  BY FS_EmptySet, WorkloadAssumption DEF MemoryInv, BacklogIsNew, PoolIsBounded,
     PoolIsFullOrBacklogEmpty, DownIsBlank, LoopAssumption
<1>4. QED
  BY <1>1, <1>2, <1>3 DEF IInv

LEMMA NextIInv == IInv /\ [Next]_vars => IInv'
<1> SUFFICES ASSUME IInv, [Next]_vars
             PROVE  IInv'
  OBVIOUS
<1> USE DEF IInv
<1>1. ASSUME NEW e \in Event, Submit(e)
      PROVE  IInv'
  <2>1. log' \subseteq Event /\ queue' \in [Event -> Row] /\ TablesInv'
    BY <1>1, OutsideFact DEF Submit, history
  <2>2. MemoryInv'
    BY <1>1, QuietMemory DEF Submit, history
  <2>3. QED
    BY <1>1, <2>1, <2>2 DEF Submit, history, TypeOK, LoopTypeOK
<1>2. ASSUME NEW e \in Event, SubmitTorn(e)
      PROVE  IInv'
  <2>1. log' \subseteq Event /\ queue' \in [Event -> Row] /\ TablesInv'
    BY <1>2, OutsideFact DEF SubmitTorn, history
  <2>2. MemoryInv'
    BY <1>2, QuietMemory DEF SubmitTorn, history
  <2>3. QED
    BY <1>2, <2>1, <2>2 DEF SubmitTorn, history, TypeOK, LoopTypeOK
<1>3. ASSUME NEW e \in Event, Fold(e)
      PROVE  IInv'
  <2>1. /\ log' \subseteq Event /\ queue' \in [Event -> Row]
        /\ folds[e] = 0 /\ folds' \in [Event -> Nat] /\ TablesInv'
    BY <1>3, FoldTables
  <2>2. inFlight' \subseteq Event /\ pendingEffects' \in Seq(Event) /\ MemoryInv'
    BY <1>3, <2>1, FoldMemory
  <2>3. QED
    BY <1>3, <2>1, <2>2 DEF Fold, Commit, TypeOK, LoopTypeOK
<1>4. ASSUME NEW e \in Event, Fail(e)
      PROVE  IInv'
  <2>1. queue' \in [Event -> Row] /\ fails' \in [Event -> Nat] /\ TablesInv'
    BY <1>4, FailTables
  <2>2. MemoryInv'
    BY <1>4, QuietMemory DEF Fail, RecordFailure
  <2>3. QED
    BY <1>4, <2>1, <2>2 DEF Fail, RecordFailure, TypeOK, LoopTypeOK
<1>5. ASSUME NEW x \in Event, NEW e \in Event, Post(x, e)
      PROVE  IInv'
  <2>1. log' \subseteq Event /\ queue' \in [Event -> Row] /\ TablesInv'
    BY <1>5, OutsideFact DEF Post, EffectEmits, history
  <2>2. MemoryInv'
    BY <1>5, QuietMemory DEF Post, EffectEmits, history
  <2>3. QED
    BY <1>5, <2>1, <2>2 DEF Post, EffectEmits, history, TypeOK, LoopTypeOK
<1>6. ASSUME NEW x \in Event, NEW e \in Event, CrashWhilePosting(x, e)
      PROVE  IInv'
  <2>1. log' \subseteq Event /\ queue' \in [Event -> Row] /\ TablesInv'
    BY <1>6, OutsideFact DEF CrashWhilePosting, TornEnqueue
  <2>2. /\ inFlight' \subseteq Event /\ pendingEffects' \in Seq(Event)
        /\ pc' = "down" /\ MemoryInv'
    BY <1>6, HaltMemory DEF CrashWhilePosting
  <2>3. crashes' \in 0..MaxCrashes
    BY <1>6, WorkloadAssumption DEF CrashWhilePosting, TypeOK
  <2>4. QED
    BY <1>6, <2>1, <2>2, <2>3 DEF CrashWhilePosting, TypeOK, LoopTypeOK
<1>7. ASSUME NEW x \in Event, Settle(x)
      PROVE  IInv'
  <2>1. queue' \in [Event -> Row] /\ TablesInv'
    BY <1>7, QuietTables DEF Settle, EffectSettles
  <2>2. /\ IsFiniteSet(inFlight \ {x}) /\ inFlight \ {x} \subseteq inFlight
        /\ Cardinality(inFlight \ {x}) <= MaxConcurrency
    <3>1. IsFiniteSet(inFlight) /\ Cardinality(inFlight) <= MaxConcurrency
      BY DEF MemoryInv, PoolIsBounded, PoolIsFullOrBacklogEmpty
    <3>2. /\ IsFiniteSet(inFlight \ {x})
          /\ Cardinality(inFlight \ {x}) <= Cardinality(inFlight)
      BY <3>1, FS_Subset
    <3>3. /\ Cardinality(inFlight) \in Nat /\ Cardinality(inFlight \ {x}) \in Nat
          /\ MaxConcurrency \in Nat
      BY <3>1, <3>2, FS_CardinalityType, WorkloadAssumption DEF LoopAssumption
    <3>4. QED
      BY <3>1, <3>2, <3>3
  <2>3. /\ inFlight' \subseteq Event /\ pendingEffects' \in Seq(Event)
        /\ launches' \in [Event -> Nat] /\ MemoryInv'
    BY <1>7, <2>2, PumpMemory DEF Settle, EffectSettles, MemoryInv, TablesInv
  <2>4. QED
    BY <1>7, <2>1, <2>3 DEF Settle, EffectSettles, TypeOK, LoopTypeOK
<1>8. CASE Begin
  <2>1. queue' \in [Event -> Row] /\ TablesInv'
    BY <1>8, QuietTables DEF Begin, BeginBatch, history
  <2>2. MemoryInv'
    BY <1>8 DEF Begin, BeginBatch, history, MemoryInv, BacklogIsNew, PoolIsBounded,
       PoolIsFullOrBacklogEmpty, DownIsBlank
  <2>3. QED
    BY <1>8, <2>1, <2>2 DEF Begin, BeginBatch, history, TypeOK, LoopTypeOK
<1>9. CASE FinishBatch
  <2>1. queue' \in [Event -> Row] /\ TablesInv'
    BY <1>9, QuietTables DEF FinishBatch, EndBatch
  <2>2. IsFiniteSet(inFlight) /\ Cardinality(inFlight) <= MaxConcurrency
    BY DEF MemoryInv, PoolIsBounded, PoolIsFullOrBacklogEmpty
  <2>3. /\ inFlight' \subseteq Event /\ pendingEffects' \in Seq(Event)
        /\ launches' \in [Event -> Nat] /\ MemoryInv'
    BY <1>9, <2>2, PumpMemory DEF FinishBatch, EndBatch, MemoryInv, TablesInv
  <2>4. QED
    BY <1>9, <2>1, <2>3 DEF FinishBatch, EndBatch, TypeOK, LoopTypeOK
<1>10. CASE Pass
  <2>1. queue' \in [Event -> Row] /\ TablesInv'
    BY <1>10, QuietTables DEF Pass, Tick, history
  <2>2. MemoryInv'
    BY <1>10, QuietMemory DEF Pass, Tick, history
  <2>3. QED
    BY <1>10, <2>1, <2>2 DEF Pass, Tick, history, TypeOK, LoopTypeOK
<1>11. CASE Crash
  <2>1. queue' \in [Event -> Row] /\ TablesInv'
    BY <1>11, QuietTables DEF Crash
  <2>2. /\ inFlight' \subseteq Event /\ pendingEffects' \in Seq(Event)
        /\ pc' = "down" /\ MemoryInv'
    BY <1>11, HaltMemory DEF Crash
  <2>3. crashes' \in 0..MaxCrashes
    BY <1>11, WorkloadAssumption DEF Crash, TypeOK
  <2>4. QED
    BY <1>11, <2>1, <2>2, <2>3 DEF Crash, TypeOK, LoopTypeOK
<1>12. CASE Recover
  <2>1. queue' \in [Event -> Row] /\ TablesInv'
    BY <1>12, QuietTables DEF Recover, Restart, history
  <2>2. MemoryInv'
    BY <1>12 DEF Recover, Restart, history, MemoryInv, BacklogIsNew, PoolIsBounded,
       PoolIsFullOrBacklogEmpty, DownIsBlank
  <2>3. QED
    BY <1>12, <2>1, <2>2 DEF Recover, Restart, history, TypeOK, LoopTypeOK
<1>13. CASE UNCHANGED vars
  <2>1. queue' \in [Event -> Row] /\ TablesInv'
    BY <1>13, QuietTables DEF vars, history
  <2>2. MemoryInv'
    BY <1>13, QuietMemory DEF vars, history
  <2>3. QED
    BY <1>13, <2>1, <2>2 DEF vars, history, TypeOK, LoopTypeOK
<1>14. QED
  BY <1>1, <1>2, <1>3, <1>4, <1>5, <1>6, <1>7, <1>8, <1>9, <1>10, <1>11, <1>12, <1>13 DEF Next

LEMMA AlwaysIInv == Spec => []IInv
BY InitIInv, NextIInv, PTL DEF Spec

-----------------------------------------------------------------------------
(* What follows from it, for every workload                                *)

(* The tables and the memory stay well typed, whatever is submitted, fails *)
(* or crashes.                                                             *)
THEOREM TypeCorrect == Spec => []TypeOK
<1>1. IInv => TypeOK
  BY DEF IInv
<1>2. QED
  BY <1>1, AlwaysIInv, PTL

(* An event is folded at most once and its effect starts at most as often; *)
(* at most one of the facts under one dedup key is folded (commit's ack,   *)
(* the launch after the commit, the unique index).                         *)
THEOREM QueueIsEffectivelyOnce == Spec => []EffectivelyOnce
<1>1. ASSUME IInv
      PROVE  EffectivelyOnce
  <2>1. \A e \in Event : folds[e] \in {0, 1} /\ (folds[e] = 1 => e \in log)
    BY <1>1 DEF IInv, TablesInv, FoldTakesTheRow, TracesAreLogged
  <2>2. \A e \in Event : launches[e] <= folds[e]
    BY <1>1 DEF IInv, MemoryInv, BacklogIsNew
  <2>3. ASSUME NEW e \in Event, NEW f \in Event, e # f, Key[e] # NoKey, Key[e] = Key[f]
        PROVE  folds[e] + folds[f] <= 1
    <3>1. ~ (e \in log /\ f \in log)
      BY <1>1, <2>3 DEF IInv, TablesInv, KeysAreUnique
    <3>2. QED
      BY <2>1, <3>1
  <2>4. QED
    BY <2>1, <2>2, <2>3 DEF EffectivelyOnce
<1>2. QED
  BY <1>1, AlwaysIInv, PTL

(* A commit is all or nothing: the children of an event are in the log     *)
(* exactly when it has been folded (queue.js, commit in one transaction).  *)
THEOREM CommitsAreAtomic == Spec => []CommitIsAtomic
<1>1. IInv => CommitIsAtomic
  BY DEF IInv, TablesInv
<1>2. QED
  BY <1>1, AlwaysIInv, PTL

(* MaxAttempts failures park an event, restarts included, and nothing      *)
(* fails after that (queue.js, recordFailure).                             *)
THEOREM AttemptsAreBounded == Spec => []AttemptsSurviveRestarts
<1>1. ASSUME IInv
      PROVE  AttemptsSurviveRestarts
  <2> SUFFICES ASSUME NEW e \in Event
               PROVE  fails[e] <= MaxAttempts /\ (Dead(e) <=> fails[e] = MaxAttempts)
    BY DEF AttemptsSurviveRestarts
  <2>1. QED
    BY <1>1 DEF IInv, TablesInv, RowCountsAttempts
<1>2. QED
  BY <1>1, AlwaysIInv, PTL

(* The pool never exceeds MaxConcurrency and is full whenever effects wait *)
(* while the loop is idle (loop.js, pumpEffects).                          *)
THEOREM PoolIsWorkConserving == Spec => []PoolIsFullOrBacklogEmpty
<1>1. IInv => PoolIsFullOrBacklogEmpty
  BY DEF IInv, MemoryInv, PoolIsBounded
<1>2. QED
  BY <1>1, AlwaysIInv, PTL

-----------------------------------------------------------------------------
(* The queue implements DurableWork, step by step                          *)

(* Enqueuing a fact from outside is accepting it, or nothing.              *)
LEMMA EnqueueAccepts ==
  ASSUME IInv, NEW e \in Event, e \in Roots \/ \E x \in Event : e \in Results[x],
         Enqueue({e}), UNCHANGED folds
  PROVE  [Durable!Next]_stages
<1>1. CASE Accepts(e)
  <2>1. e \notin log /\ queue[e] = NoRow /\ folds[e] = 0
    BY <1>1 DEF Accepts, Duplicate, IInv, TablesInv, TracesAreLogged
  <2>2. Fresh({e}) = {e}
    BY <1>1 DEF Fresh
  <2>3. queue' = [f \in Event |-> IF f = e THEN FreshRow(e) ELSE queue[f]]
    BY <2>2 DEF Enqueue
  <2>4. Stage(e) = "unknown" /\ Stage(e)' = "accepted"
    BY <2>1, <2>3 DEF Stage, Dead, Pending, NoRow, FreshRow
  <2>5. \A f \in Event : f # e => Stage(f)' = Stage(f)
    BY <2>3 DEF Stage, Dead, Pending
  <2>6. stages' = [stages EXCEPT ![e] = "accepted"]
    BY <2>4, <2>5 DEF stages
  <2>7. Durable!Accept(e)
    BY <2>4, <2>6 DEF Durable!Accept, stages
  <2>8. QED
    BY <2>7 DEF Durable!Next
<1>2. CASE ~ Accepts(e)
  <2>1. Fresh({e}) = {}
    BY <1>2 DEF Fresh
  <2>2. UNCHANGED queue
    BY <2>1 DEF Enqueue, IInv, TypeOK, LoopTypeOK
  <2>3. QED
    BY <2>2 DEF stages, Stage, Dead, Pending
<1>3. QED
  BY <1>1, <1>2

(* A commit finishes its event and accepts the children, in that step.     *)
LEMMA FoldFinishes ==
  ASSUME IInv, NEW e \in Event, Fold(e)
  PROVE  Durable!Next
<1> DEFINE new == Fresh(Children[e])
<1>1. /\ queue' = [f \in Event |-> IF f = e THEN NoRow
                                   ELSE IF f \in new THEN FreshRow(f) ELSE queue[f]]
      /\ folds' = [folds EXCEPT ![e] = @ + 1]
  BY DEF Fold, Commit
<1>2. Pending(e) /\ folds[e] = 0 /\ folds \in [Event -> Nat]
  BY FoldTables DEF IInv, TypeOK, Fold, NextDue, Due
<1>3. e \in log
  BY <1>2 DEF IInv, TablesInv, TracesAreLogged, Pending, NoRow
<1>4. /\ new \subseteq Children[e] /\ new \subseteq Event
      /\ \A f \in new : f \notin log /\ f # e
  BY <1>3, WorkloadAssumption DEF Fresh, Accepts, Duplicate
<1>5. \A f \in new : folds[f] = 0 /\ queue[f] = NoRow
  BY <1>4 DEF IInv, TablesInv, TracesAreLogged
<1>6. Stage(e) = "accepted" /\ Stage(e)' = "done"
  BY <1>1, <1>2 DEF Stage, Pending, Dead
<1>7. ASSUME NEW f \in new
      PROVE  Stage(f) = "unknown" /\ Stage(f)' = "accepted"
  <2>1. folds'[f] = 0 /\ queue'[f] = FreshRow(f)
    BY <1>1, <1>2, <1>4, <1>5
  <2>2. Stage(f)' = "accepted"
    BY <2>1 DEF Stage, Pending, Dead, FreshRow
  <2>3. QED
    BY <1>5, <2>2 DEF Stage, Pending, Dead, NoRow
<1>8. \A f \in Event : f # e /\ f \notin new => Stage(f)' = Stage(f)
  BY <1>1, <1>2 DEF Stage, Pending, Dead
<1> HIDE DEF new
<1>9. stages' = [f \in Event |-> IF f = e THEN "done"
                                 ELSE IF f \in new THEN "accepted" ELSE stages[f]]
  BY <1>6, <1>7, <1>8 DEF stages
<1>10. stages[e] = "accepted" /\ \A f \in new : stages[f] = "unknown"
  BY <1>4, <1>6, <1>7 DEF stages
<1>11. Durable!Finish(e)
  BY <1>4, <1>9, <1>10 DEF Durable!Finish
<1>12. QED
  BY <1>11 DEF Durable!Next

(* A failed attempt gives the event up, or is invisible.                   *)
LEMMA FailGivesUp ==
  ASSUME IInv, NEW e \in Event, Fail(e)
  PROVE  [Durable!Next]_stages
<1>1. Pending(e) /\ folds' = folds
  BY DEF Fail, RecordFailure, NextDue, Due
<1>2. folds[e] = 0
  BY <1>1 DEF IInv, TablesInv, FoldTakesTheRow, Pending, NoRow
<1>3. /\ queue \in [Event -> Row]
      /\ \A f \in Event : f # e => queue'[f] = queue[f]
      /\ queue'[e].status \in {"pending", "dead_letter"}
  BY DEF IInv, TypeOK, LoopTypeOK, Fail, RecordFailure
<1>4. \A f \in Event : f # e => Stage(f)' = Stage(f)
  BY <1>1, <1>3 DEF Stage, Pending, Dead
<1>5. Stage(e) = "accepted" /\ Stage(e)' \in {"accepted", "given_up"}
  BY <1>1, <1>2, <1>3 DEF Stage, Pending, Dead
<1>6. CASE Stage(e)' = "accepted"
  BY <1>4, <1>5, <1>6 DEF stages
<1>7. CASE Stage(e)' = "given_up"
  <2>1. stages' = [stages EXCEPT ![e] = "given_up"]
    BY <1>4, <1>7 DEF stages
  <2>2. Durable!GiveUp(e)
    BY <1>5, <2>1 DEF Durable!GiveUp, stages
  <2>3. QED
    BY <2>2 DEF Durable!Next
<1>8. QED
  BY <1>5, <1>6, <1>7

(* Nothing shows as long as statuses and folds stay.                       *)
LEMMA QuietStages ==
  ASSUME IInv, Tick \/ UNCHANGED queue, UNCHANGED folds
  PROVE  UNCHANGED stages
<1>1. \A e \in Event : queue'[e].status = queue[e].status
  BY DEF IInv, TypeOK, LoopTypeOK, Tick, Row
<1>2. QED
  BY <1>1 DEF stages, Stage, Pending, Dead

(* Whatever is submitted, fails, crashes or is torn, what the queue does   *)
(* is what DurableWork allows: the safety half of KeepsPromise (its        *)
(* fairness half is liveness, and TLC's).                                  *)
THEOREM QueueIsDurableWork == Spec => Durable!Init /\ [][Durable!Next]_stages
<1>1. Init => Durable!Init
  BY DEF Init, LoopInit, Durable!Init, stages, Stage, Pending, Dead, NoRow
<1>2. ASSUME IInv, [Next]_vars
      PROVE  [Durable!Next]_stages
  <2> USE <1>2
  <2>1. ASSUME NEW e \in Event, Submit(e)
        PROVE  [Durable!Next]_stages
    BY <2>1, EnqueueAccepts DEF Submit, history
  <2>2. ASSUME NEW x \in Event, NEW e \in Event, Post(x, e)
        PROVE  [Durable!Next]_stages
    BY <2>2, EnqueueAccepts DEF Post, EffectEmits, history
  <2>3. ASSUME NEW e \in Event, Fold(e)
        PROVE  [Durable!Next]_stages
    BY <2>3, FoldFinishes
  <2>4. ASSUME NEW e \in Event, Fail(e)
        PROVE  [Durable!Next]_stages
    BY <2>4, FailGivesUp
  <2>5. CASE UNCHANGED vars \/ Begin \/ FinishBatch \/ Pass \/ Crash \/ Recover
    <3>1. (Tick \/ UNCHANGED queue) /\ UNCHANGED folds
      BY <2>5 DEF vars, history, Begin, BeginBatch, FinishBatch, EndBatch, Pass, Crash,
         Recover, Restart
    <3>2. QED
      BY <3>1, QuietStages
  <2>6. ASSUME NEW x \in Event, NEW e \in Event,
               SubmitTorn(e) \/ CrashWhilePosting(x, e) \/ Settle(x)
        PROVE  [Durable!Next]_stages
    <3>1. UNCHANGED <<queue, folds>>
      BY <2>6 DEF SubmitTorn, CrashWhilePosting, TornEnqueue, Settle, EffectSettles, history
    <3>2. QED
      BY <3>1, QuietStages
  <2>7. QED
    BY <2>1, <2>2, <2>3, <2>4, <2>5, <2>6 DEF Next
<1>3. QED
  BY <1>1, <1>2, AlwaysIInv, PTL DEF Spec

-----------------------------------------------------------------------------
(* The retention sweep                                                     *)

(* The log above only grows.  What rewrites it is the retention sweep, in  *)
(* the daemon's tick and between two transactions of the queue.            *)

Body == {"none", "whole", "purged"}

RecRow == [at : Int, folded : BOOLEAN, superseded : Int, draft : Body, logged : Body]

ActionRow == [status : {"none", "running", "closed"}, completed : Int,
              request : Body, logged : Body]

RetentionTyped ==
  /\ clock \in Nat
  /\ rec \in [Rec -> RecRow]
  /\ action \in [Rec -> ActionRow]

(* A recommendation on the queue has its body in the log only, and whole;  *)
(* folded, it has the one the log has, whole as long as it is live.        *)
RecIsKept(x) ==
  /\ x.folded => x.at # Null /\ x.draft = x.logged
  /\ x.at # Null /\ ~ x.folded => x.logged = "whole"
  /\ x.folded /\ x.superseded = Null => x.draft = "whole"

(* An action under way has no completion for its age to count from.        *)
ActionIsKept(a) ==
  /\ a.request = a.logged
  /\ a.status = "running" => a.completed = Null /\ a.request = "whole"

RetentionInv ==
  /\ RetentionTyped
  /\ \A r \in Rec : RecIsKept(rec[r]) /\ ActionIsKept(action[r])

ApprovalsTyped == approval \in [Rec -> [at : Int, folded : BOOLEAN]]

(* What the steps do to one row.                                           *)
LEMMA RowsAreKept ==
  ASSUME NEW x \in RecRow, RecIsKept(x), NEW t \in Int, t # Null
  PROVE  /\ LET y == [x EXCEPT !.superseded = t] IN y \in RecRow /\ RecIsKept(y)
         /\ x.at = Null => LET y == [x EXCEPT !.at = t, !.logged = "whole"] IN
                             y \in RecRow /\ RecIsKept(y)
         /\ x.at # Null /\ ~ x.folded => \A s \in {x.at, Null} :
              LET y == [x EXCEPT !.folded = TRUE, !.draft = x.logged, !.superseded = s] IN
              y \in RecRow /\ RecIsKept(y)
  <1>1. "whole" \in Body /\ Null \in Int
    BY DEF Body, Null
  <1>2. LET y == [x EXCEPT !.superseded = t] IN y \in RecRow /\ RecIsKept(y)
    <2> DEFINE y == [x EXCEPT !.superseded = t]
    <2>1. /\ y \in RecRow /\ y.at = x.at /\ y.folded = x.folded /\ y.superseded = t
          /\ y.draft = x.draft /\ y.logged = x.logged
      BY DEF RecRow
    <2> QED BY <2>1 DEF RecIsKept
  <1>3. ASSUME x.at = Null
        PROVE  LET y == [x EXCEPT !.at = t, !.logged = "whole"] IN y \in RecRow /\ RecIsKept(y)
    <2> DEFINE y == [x EXCEPT !.at = t, !.logged = "whole"]
    <2>1. /\ y \in RecRow /\ y.at = t /\ y.folded = x.folded /\ y.logged = "whole"
      BY <1>1 DEF RecRow
    <2> QED BY <2>1, <1>3 DEF RecIsKept
  <1>4. ASSUME x.at # Null, ~ x.folded, NEW s \in {x.at, Null}
        PROVE  LET y == [x EXCEPT !.folded = TRUE, !.draft = x.logged, !.superseded = s] IN
               y \in RecRow /\ RecIsKept(y)
    <2> DEFINE y == [x EXCEPT !.folded = TRUE, !.draft = x.logged, !.superseded = s]
    <2>1. s \in Int /\ x.logged \in Body
      BY <1>1 DEF RecRow
    <2>2. /\ y \in RecRow /\ y.at = x.at /\ y.folded /\ y.superseded = s
          /\ y.draft = x.logged /\ y.logged = x.logged
      BY <2>1 DEF RecRow
    <2> QED BY <2>2, <1>4 DEF RecIsKept
  <1> QED BY <1>2, <1>3, <1>4

LEMMA ClosedIsKept ==
  ASSUME NEW x \in ActionRow, ActionIsKept(x), NEW t \in Int
  PROVE  LET y == [x EXCEPT !.status = "closed", !.completed = t] IN
         y \in ActionRow /\ ActionIsKept(y)
  <1> DEFINE y == [x EXCEPT !.status = "closed", !.completed = t]
  <1>1. "closed" \in {"none", "running", "closed"}
    OBVIOUS
  <1>2. /\ y \in ActionRow /\ y.status = "closed"
        /\ y.request = x.request /\ y.logged = x.logged
    BY <1>1 DEF ActionRow
  <1> QED BY <1>2 DEF ActionIsKept

(* The sweep takes the same body from the log as from the tables, and none *)
(* of a recommendation that is live or of an action that runs.             *)
LEMMA SweepKeeps ==
  ASSUME RetentionInv, Sweep
  PROVE  RetentionInv'
  <1>1. ASSUME NEW r \in Rec
        PROVE  rec'[r] \in RecRow /\ RecIsKept(rec'[r])
    <2>1. rec[r] \in RecRow /\ RecIsKept(rec[r])
      BY <1>1 DEF RetentionInv, RetentionTyped
    <2>2. rec'[r] = IF DraftIsDue(r)
                      THEN [rec[r] EXCEPT !.draft = "purged", !.logged = "purged"] ELSE rec[r]
      BY <1>1 DEF Sweep, SweptRec
    <2>3. DraftIsDue(r) => rec[r].folded /\ rec[r].superseded # Null
      BY DEF DraftIsDue, Past
    <2> QED BY <2>1, <2>2, <2>3 DEF RecRow, Body, RecIsKept, Null
  <1>2. ASSUME NEW r \in Rec
        PROVE  action'[r] \in ActionRow /\ ActionIsKept(action'[r])
    <2>1. action[r] \in ActionRow /\ ActionIsKept(action[r])
      BY <1>2 DEF RetentionInv, RetentionTyped
    <2>2. action'[r] = IF Past(action[r].completed, policy["audit_ttl"])
                         THEN [action[r] EXCEPT !.request = "purged", !.logged = "purged"]
                         ELSE action[r]
      BY <1>2 DEF Sweep, SweptAction
    <2>3. Past(action[r].completed, policy["audit_ttl"]) => action[r].completed # Null
      BY DEF Past
    <2> QED BY <2>1, <2>2, <2>3 DEF ActionRow, Body, ActionIsKept, Null
  <1>3. rec' = [r \in Rec |-> SweptRec(r)] /\ action' = [r \in Rec |-> SweptAction(r)]
        /\ clock' = clock
    BY DEF Sweep
  <1>4. clock' \in Nat
    BY <1>3 DEF RetentionInv, RetentionTyped
  <1>5. rec' \in [Rec -> RecRow]
    <2> DEFINE g == [r \in Rec |-> SweptRec(r)]
    <2>1. rec' = g
      BY <1>3
    <2>2. \A r \in Rec : g[r] \in RecRow
      BY <1>1, <2>1
    <2> HIDE DEF g
    <2>3. g \in [Rec -> RecRow]
      BY <2>2 DEF g
    <2> QED BY <2>1, <2>3
  <1>6. action' \in [Rec -> ActionRow]
    <2> DEFINE g == [r \in Rec |-> SweptAction(r)]
    <2>1. action' = g
      BY <1>3
    <2>2. \A r \in Rec : g[r] \in ActionRow
      BY <1>2, <2>1
    <2> HIDE DEF g
    <2>3. g \in [Rec -> ActionRow]
      BY <2>2 DEF g
    <2> QED BY <2>1, <2>3
  <1> QED BY <1>1, <1>2, <1>4, <1>5, <1>6 DEF RetentionInv, RetentionTyped

(* What changes one recommendation to another that is kept, and no action. *)
LEMMA RecChanges ==
  ASSUME RetentionInv, clock' \in Nat, action' = action, DOMAIN rec' = Rec,
         rec' = [q \in Rec |-> rec'[q]],
         \A q \in Rec : rec'[q] \in RecRow /\ RecIsKept(rec'[q])
  PROVE  RetentionInv'
  <1>1. rec' \in [Rec -> RecRow]
    OBVIOUS
  <1> QED BY <1>1 DEF RetentionInv, RetentionTyped

LEMMA RecommendKeeps ==
  ASSUME RetentionInv, NEW r \in Rec, Recommend(r)
  PROVE  RetentionInv'
  <1>1. \A q \in Rec : rec[q] \in RecRow /\ RecIsKept(rec[q])
    BY DEF RetentionInv, RetentionTyped
  <1>2. rec' = [rec EXCEPT ![r] = [rec[r] EXCEPT !.at = clock, !.logged = "whole"]]
        /\ clock' = clock /\ action' = action /\ rec[r].at = Null
    <2>1. rec \in [Rec -> RecRow] /\ rec[r] \in RecRow
      BY DEF RetentionInv, RetentionTyped
    <2> QED BY <2>1 DEF Recommend, RecRow
  <1>3. clock \in Nat /\ rec \in [Rec -> RecRow]
    BY DEF RetentionInv, RetentionTyped
  <1>4. clock \in Int /\ clock # Null
    BY <1>3 DEF Null
  <1>5. ASSUME NEW q \in Rec PROVE rec'[q] \in RecRow /\ RecIsKept(rec'[q])
    <2>1. CASE q = r
      BY <2>1, <1>1, <1>2, <1>3, <1>4, RowsAreKept
    <2>2. CASE q # r
      BY <2>2, <1>1, <1>2, <1>3
    <2> QED BY <2>1, <2>2
  <1> QED BY <1>2, <1>3, <1>5, RecChanges

LEMMA FoldRecommendationKeeps ==
  ASSUME RetentionInv, NEW r \in Rec, NEW stale \in BOOLEAN, FoldRecommendation(r, stale)
  PROVE  RetentionInv'
  <1>1. \A q \in Rec : rec[q] \in RecRow /\ RecIsKept(rec[q])
    BY DEF RetentionInv, RetentionTyped
  <1>2. clock' = clock /\ action' = action /\ rec[r].at # Null /\ ~ rec[r].folded
        /\ DOMAIN rec' = Rec /\ rec' = [q \in Rec |-> rec'[q]]
    BY DEF FoldRecommendation
  <1>3. clock \in Nat
    BY DEF RetentionInv, RetentionTyped
  <1>4. rec'[r] = [rec[r] EXCEPT !.folded = TRUE, !.draft = rec[r].logged,
                                 !.superseded = IF stale THEN rec[r].at ELSE Null]
    BY DEF FoldRecommendation
  <1>5. ASSUME NEW q \in Rec, q # r
        PROVE  rec'[q] \in {rec[q], [rec[q] EXCEPT !.superseded = rec[r].at]}
    BY <1>5 DEF FoldRecommendation
  <1>6. ASSUME NEW q \in Rec PROVE rec'[q] \in RecRow /\ RecIsKept(rec'[q])
    <2>1. CASE q = r
      <3>1. PICK s \in {rec[r].at, Null} :
              rec'[r] = [rec[r] EXCEPT !.folded = TRUE, !.draft = rec[r].logged, !.superseded = s]
        BY <1>4
      <3>2. 0 \in Int /\ 0 # Null
        BY DEF Null
      <3> DEFINE y == [rec[r] EXCEPT !.folded = TRUE, !.draft = rec[r].logged, !.superseded = s]
      <3>3. y \in RecRow /\ RecIsKept(y)
        BY <3>2, <1>1, <1>2, RowsAreKept
      <3> QED BY <2>1, <3>1, <3>3
    <2>2. CASE q # r /\ rec'[q] = rec[q]
      BY <2>2, <1>1
    <2>3. CASE q # r /\ rec'[q] = [rec[q] EXCEPT !.superseded = rec[r].at]
      <3>1. /\ rec[q] \in RecRow /\ RecIsKept(rec[q])
            /\ rec[r].at \in Int /\ rec[r].at # Null
        BY <1>1, <1>2 DEF RecRow
      <3> QED BY <2>3, <3>1, RowsAreKept
    <2> QED BY <2>1, <2>2, <2>3, <1>5
  <1> QED BY <1>2, <1>3, <1>6, RecChanges

LEMMA FoldApprovalKeeps ==
  ASSUME RetentionInv, ApprovalsTyped, NEW r \in Rec, FoldApproval(r)
  PROVE  RetentionInv'
  <1>1. \A q \in Rec : rec[q] \in RecRow /\ RecIsKept(rec[q])
                       /\ action[q] \in ActionRow /\ ActionIsKept(action[q])
    BY DEF RetentionInv, RetentionTyped
  <1>2. clock \in Nat /\ rec \in [Rec -> RecRow] /\ action \in [Rec -> ActionRow]
    BY DEF RetentionInv, RetentionTyped
  <1>3. clock' = clock
        /\ rec' = [rec EXCEPT ![r] = [rec[r] EXCEPT
                     !.superseded = IF @ = Null THEN approval[r].at ELSE @]]
        /\ approval[r].at # Null
    BY <1>1, <1>2 DEF FoldApproval, RecRow
  <1> DEFINE begun == [NoAction EXCEPT !.status = "running", !.request = "whole", !.logged = "whole"]
  <1>4. /\ action' = action \/ action' = [action EXCEPT ![r] = begun]
        /\ begun \in ActionRow /\ ActionIsKept(begun)
    <2>1. action' = action \/ action' = [action EXCEPT ![r] = begun]
      BY DEF FoldApproval
    <2>2. NoAction \in ActionRow /\ NoAction.completed = Null
      BY DEF NoAction, ActionRow, Body, Null
    <2>3. "running" \in {"none", "running", "closed"} /\ "whole" \in Body
      BY DEF Body
    <2>4. /\ begun \in ActionRow /\ begun.status = "running" /\ begun.completed = Null
          /\ begun.request = "whole" /\ begun.logged = "whole"
      BY <2>2, <2>3 DEF ActionRow
    <2> QED BY <2>1, <2>4 DEF ActionIsKept
  <1>5. ASSUME NEW q \in Rec PROVE rec'[q] \in RecRow /\ RecIsKept(rec'[q])
    <2>1. CASE rec'[q] = rec[q]
      BY <2>1, <1>1
    <2>2. CASE q = r /\ rec'[q] = [rec[q] EXCEPT !.superseded = approval[r].at]
      <3>1. approval[r].at \in Int /\ approval[r].at # Null
        BY <1>3 DEF ApprovalsTyped
      <3> DEFINE y == [rec[r] EXCEPT !.superseded = approval[r].at]
      <3>2. y \in RecRow /\ RecIsKept(y)
        BY <3>1, <1>1, RowsAreKept
      <3> QED BY <2>2, <3>2
    <2>3. CASE q = r /\ rec'[q] = [rec[q] EXCEPT !.superseded = rec[q].superseded]
      BY <2>3, <1>1 DEF RecRow
    <2> QED BY <2>1, <2>2, <2>3, <1>2, <1>3
  <1>6. ASSUME NEW q \in Rec PROVE action'[q] \in ActionRow /\ ActionIsKept(action'[q])
    BY <1>1, <1>2, <1>4
  <1>7. rec' \in [Rec -> RecRow] /\ action' \in [Rec -> ActionRow]
    <2>1. rec' \in [Rec -> RecRow]
      BY <1>2, <1>3, <1>5
    <2>2. action' \in [Rec -> ActionRow]
      BY <1>2, <1>4, <1>6
    <2> QED BY <2>1, <2>2
  <1> QED BY <1>2, <1>3, <1>5, <1>6, <1>7 DEF RetentionInv, RetentionTyped

LEMMA ActionClosesKeeps ==
  ASSUME RetentionInv, NEW r \in Rec, ActionCloses(r)
  PROVE  RetentionInv'
  <1>1. \A q \in Rec : rec[q] \in RecRow /\ RecIsKept(rec[q])
                       /\ action[q] \in ActionRow /\ ActionIsKept(action[q])
    BY DEF RetentionInv, RetentionTyped
  <1>2. clock \in Nat /\ rec \in [Rec -> RecRow] /\ action \in [Rec -> ActionRow]
    BY DEF RetentionInv, RetentionTyped
  <1>3. clock' = clock /\ rec' = rec
        /\ action' = [action EXCEPT ![r] = [action[r] EXCEPT !.status = "closed", !.completed = clock]]
    BY <1>1, <1>2 DEF ActionCloses, ActionRow
  <1>4. ASSUME NEW q \in Rec PROVE action'[q] \in ActionRow /\ ActionIsKept(action'[q])
    <2>1. CASE q = r
      <3> DEFINE y == [action[r] EXCEPT !.status = "closed", !.completed = clock]
      <3>1. action'[q] = y
        BY <2>1, <1>2, <1>3
      <3>2. y \in ActionRow /\ ActionIsKept(y)
        <4>1. clock \in Int /\ action[r] \in ActionRow /\ ActionIsKept(action[r])
          BY <1>1, <1>2
        <4> QED BY <4>1, ClosedIsKept
      <3> QED BY <3>1, <3>2
    <2>2. CASE q # r
      BY <2>2, <1>1, <1>2, <1>3
    <2> QED BY <2>1, <2>2
  <1>5. action' \in [Rec -> ActionRow]
    BY <1>2, <1>3, <1>4
  <1> QED BY <1>1, <1>2, <1>3, <1>4, <1>5 DEF RetentionInv, RetentionTyped

LEMMA NextApprovals ==
  RetentionInv /\ ApprovalsTyped /\ [RetentionNext]_(retentionVars) => ApprovalsTyped'
  <1> SUFFICES ASSUME RetentionInv, ApprovalsTyped, [RetentionNext]_(retentionVars)
               PROVE  ApprovalsTyped'
    OBVIOUS
  <1>1. clock \in Int
    BY DEF RetentionInv, RetentionTyped
  <1>2. \/ approval' = approval
        \/ \E r \in Rec : approval' = [approval EXCEPT ![r].at = clock]
        \/ \E r \in Rec : approval' = [approval EXCEPT ![r].folded = TRUE]
    BY DEF RetentionNext, retentionVars, Fetch, Recommend, Approve, FoldApproval, ActionCloses,
           FoldRecommendation, SetPolicy, Sweep, TimePasses
  <1> QED BY <1>1, <1>2 DEF ApprovalsTyped

LEMMA NextRetentionInv ==
  RetentionInv /\ ApprovalsTyped /\ [RetentionNext]_(retentionVars) => RetentionInv'
  <1> SUFFICES ASSUME RetentionInv, ApprovalsTyped, [RetentionNext]_(retentionVars)
               PROVE  RetentionInv'
    OBVIOUS
  <1>1. ASSUME rec' = rec, action' = action, clock' \in Nat PROVE RetentionInv'
    BY <1>1 DEF RetentionInv, RetentionTyped
  <1>2. clock \in Nat
    BY DEF RetentionInv, RetentionTyped
  <1>3. ASSUME NEW r \in Rec, Fetch(r) PROVE RetentionInv'
    BY <1>1, <1>2, <1>3 DEF Fetch
  <1>4. ASSUME NEW r \in Rec, Approve(r) PROVE RetentionInv'
    BY <1>1, <1>2, <1>4 DEF Approve
  <1>5. ASSUME NEW f \in Field, NEW ttl \in Ttl \cup {Keep}, SetPolicy(f, ttl)
        PROVE  RetentionInv'
    BY <1>1, <1>2, <1>5 DEF SetPolicy
  <1>6. CASE TimePasses
    BY <1>1, <1>2, <1>6 DEF TimePasses
  <1>7. CASE UNCHANGED retentionVars
    BY <1>1, <1>2, <1>7 DEF retentionVars
  <1> QED BY <1>3, <1>4, <1>5, <1>6, <1>7, SweepKeeps, RecommendKeeps, FoldRecommendationKeeps,
             FoldApprovalKeeps, ActionClosesKeeps DEF RetentionNext

LEMMA InitRetentionInv == RetentionInit => RetentionInv /\ ApprovalsTyped
  <1> SUFFICES ASSUME RetentionInit PROVE RetentionInv /\ ApprovalsTyped
    OBVIOUS
  <1>1. NoRec \in RecRow /\ RecIsKept(NoRec)
    BY DEF NoRec, RecRow, Body, RecIsKept, Null
  <1>2. NoAction \in ActionRow /\ ActionIsKept(NoAction)
    BY DEF NoAction, ActionRow, Body, ActionIsKept, Null
  <1>3. NoApproval \in [at : Int, folded : BOOLEAN]
    BY DEF NoApproval, Null
  <1> QED BY <1>1, <1>2, <1>3 DEF RetentionInit, RetentionInv, RetentionTyped, ApprovalsTyped

(* What is still to be used is not purged (core/retention.js: the draft of *)
(* a live recommendation, the request of an action under way), for any     *)
(* number of recommendations, any policy and any sequence of changes of    *)
(* it, and sweeps at any moment.                                           *)
THEOREM NeededStays == RetentionSpec => []NeededIsKept
  <1>1. RetentionInv => NeededIsKept
    BY DEF RetentionInv, RecIsKept, ActionIsKept, NeededIsKept, Live
  <1> QED BY <1>1, InitRetentionInv, NextRetentionInv, NextApprovals, PTL DEF RetentionSpec

(* A body is gone from the log exactly when it is gone from the tables, so *)
(* that a replay of the log would not bring it back nor lose another.      *)
THEOREM LogFollowsTables == RetentionSpec => []LogAndTablesAgree
  <1>1. RetentionInv => LogAndTablesAgree
    BY DEF RetentionInv, RecIsKept, ActionIsKept, LogAndTablesAgree
  <1> QED BY <1>1, InitRetentionInv, NextRetentionInv, NextApprovals, PTL DEF RetentionSpec
=============================================================================
