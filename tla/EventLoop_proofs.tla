--------------------------- MODULE EventLoop_proofs ---------------------------
(***************************************************************************)
(* Facts about the machinery of EventLoop that hold of any component: the  *)
(* memory of its effect pool (core/loop.js) and the retry clocks.  A       *)
(* component has EventLoop by INSTANCE, with constants of its own, so what *)
(* is said of the pool here is said of a backlog and a pool of anything.   *)
(***************************************************************************)
EXTENDS Backoff, Sequences, FiniteSetTheorems, FunctionTheorems, SequenceTheorems, TLAPS

-----------------------------------------------------------------------------
(* The retry clocks                                                        *)

LEMMA AtMostCaps == ASSUME NEW a, NEW c \in Int PROVE AtMost(a, c) <= c
  BY DEF AtMost

(* No retry waits longer than its cap, whatever hint the source gives and  *)
(* however long the streak (syncRetryDelayMs, recordFailure); a positive   *)
(* hint is never turned into no wait at all, and a zero or negative one    *)
(* does not count; a probe's cap is never below its base (prCheckDelayMs). *)
THEOREM DelaysAreCapped ==
  ASSUME NEW n \in Nat \ {0}, NEW hint \in Int, NEW base \in Nat \ {0}, NEW cap \in Nat \ {0}
  PROVE  /\ RetryDelay(n) <= 300
         /\ SyncRetryDelay(n, hint, base, cap) <= cap
         /\ hint > 0 => SyncRetryDelay(n, hint, base, cap) > 0
         /\ hint <= 0 => SyncRetryDelay(n, hint, base, cap) = SyncRetryDelay(n, -1, base, cap)
         /\ PrCheckDelay(n, base, cap) <= AtLeast(cap, base)
  <1>1. AtLeast(cap, base) \in Int
    BY DEF AtLeast
  <1>2. PrCheckDelay(n, base, cap) <= AtLeast(cap, base)
    BY <1>1, AtMostCaps DEF PrCheckDelay
  <1>3. SyncRetryDelay(n, hint, base, cap) <= cap
    BY AtMostCaps DEF SyncRetryDelay
  <1>4. hint > 0 => SyncRetryDelay(n, hint, base, cap) > 0
    BY DEF SyncRetryDelay, AtMost
  <1>5. hint <= 0 => SyncRetryDelay(n, hint, base, cap) = SyncRetryDelay(n, -1, base, cap)
    BY DEF SyncRetryDelay
  <1>6. RetryDelay(n) <= 300
    BY AtMostCaps DEF RetryDelay
  <1> QED BY <1>2, <1>3, <1>4, <1>5, <1>6

-----------------------------------------------------------------------------
(* The effect pool                                                         *)

(* Every effect in memory is there once, buffered or running, and no more  *)
(* than `limit' run.                                                       *)
LoopMemory(S, waiting, running, limit) ==
  /\ waiting \in Seq(S) /\ running \subseteq S
  /\ IsFiniteSet(running) /\ Cardinality(running) <= limit
  /\ \A i, j \in 1..Len(waiting) : waiting[i] = waiting[j] => i = j
  /\ \A i \in 1..Len(waiting) : waiting[i] \notin running

(* What is in memory, as a set: `Range' of the backlog, and the pool.      *)
LEMMA RangeOfBacklog ==
  ASSUME NEW S, NEW waiting \in Seq(S)
  PROVE  Range(waiting) = {waiting[i] : i \in 1..Len(waiting)} /\ Range(waiting) \subseteq S
BY DEF Range

(* The memory of a daemon that just started.                               *)
LEMMA EmptyMemory ==
  ASSUME NEW S, NEW limit \in Nat
  PROVE  LoopMemory(S, <<>>, {}, limit) /\ Range(<<>>) = {}
<1>1. Range(<<>>) = {}
  BY DEF Range
<1>2. IsFiniteSet({}) /\ Cardinality({}) = 0
  BY FS_EmptySet
<1>3. QED
  BY <1>1, <1>2 DEF LoopMemory

(* A commit buffers nothing, or one effect that is not in memory.          *)
LEMMA BufferNothing ==
  ASSUME NEW S, NEW waiting \in Seq(S)
  PROVE  waiting \o <<>> = waiting
BY ConcatEmptySeq

LEMMA BufferOne ==
  ASSUME NEW S, NEW waiting, NEW running, NEW limit \in Nat,
         LoopMemory(S, waiting, running, limit),
         NEW x \in S, x \notin Range(waiting), x \notin running
  PROVE  /\ LoopMemory(S, waiting \o <<x>>, running, limit)
         /\ Range(waiting \o <<x>>) = Range(waiting) \cup {x}
<1> DEFINE longer == waiting \o <<x>>
<1>1. waiting \in Seq(S)
  BY DEF LoopMemory
<1>2. /\ longer \in Seq(S) /\ Len(longer) = Len(waiting) + 1
      /\ \A i \in 1..Len(waiting) : longer[i] = waiting[i]
      /\ longer[Len(waiting) + 1] = x
  BY <1>1
<1> HIDE DEF longer
<1>3. \A i \in 1..Len(longer) : i \in 1..Len(waiting) \/ i = Len(waiting) + 1
  BY <1>1, <1>2
<1>4. \A i \in 1..Len(waiting) : waiting[i] # x
  BY <1>1 DEF Range
<1>5. \A i, j \in 1..Len(longer) : longer[i] = longer[j] => i = j
  BY <1>2, <1>3, <1>4 DEF LoopMemory
<1>6. \A i \in 1..Len(longer) : longer[i] \notin running
  BY <1>2, <1>3 DEF LoopMemory
<1>7. Range(longer) = Range(waiting) \cup {x}
  <2>1. Range(longer) \subseteq Range(waiting) \cup {x}
    BY <1>1, <1>2, <1>3 DEF Range
  <2>2. Range(waiting) \cup {x} \subseteq Range(longer)
    BY <1>1, <1>2 DEF Range
  <2>3. QED
    BY <2>1, <2>2
<1>8. LoopMemory(S, longer, running, limit)
  BY <1>2, <1>5, <1>6 DEF LoopMemory
<1>9. QED
  BY <1>7, <1>8 DEF longer

(* pumpEffects, when `rest' is what is left of the pool: the first n of    *)
(* the backlog start, as many as there are or as there is room for.        *)
Pumped(S, waiting, rest, limit, n, started, left) ==
  /\ n \in 0..Len(waiting) /\ n <= limit - Cardinality(rest)
  /\ n < Len(waiting) => n = limit - Cardinality(rest)
  /\ \A x : x \in started <=> x \in rest \/ \E i \in 1..n : x = waiting[i]
  /\ left \in Seq(S) /\ Len(left) = Len(waiting) - n
  /\ \A i \in 1..Len(left) : left[i] = waiting[n + i]

(* It loses nothing, starts nothing twice, and stops at the limit only.    *)
LEMMA PumpMoves ==
  ASSUME NEW S, NEW waiting, NEW running, NEW limit \in Nat,
         LoopMemory(S, waiting, running, limit), NEW rest \in SUBSET running,
         NEW n, NEW started, NEW left, Pumped(S, waiting, rest, limit, n, started, left)
  PROVE  /\ LoopMemory(S, left, started, limit)
         /\ Range(left) \cup started = Range(waiting) \cup rest
         /\ rest \subseteq started
         /\ Range(left) \subseteq Range(waiting)
         /\ left # <<>> => Cardinality(started) = limit
<1> DEFINE moved == {waiting[i] : i \in 1..n}
           first == [i \in 1..n |-> waiting[i]]
<1> USE DEF Pumped
<1>1. waiting \in Seq(S) /\ Len(waiting) \in Nat
  BY DEF LoopMemory
<1>2. IsFiniteSet(running) /\ Cardinality(running) \in Nat /\ Cardinality(running) <= limit
  BY FS_CardinalityType DEF LoopMemory
<1>3. IsFiniteSet(rest) /\ Cardinality(rest) \in Nat /\ Cardinality(rest) <= limit
  BY <1>2, FS_Subset, FS_CardinalityType
<1>4. n \in Nat /\ 1..n \subseteq 1..Len(waiting)
  BY <1>1
<1>5. /\ Len(left) \in Nat
      /\ \A i \in 1..Len(left) : left[i] = waiting[n + i] /\ n + i \in 1..Len(waiting)
  BY <1>1
<1>0. started = rest \cup moved
  OBVIOUS
<1>6. IsFiniteSet(moved) /\ Cardinality(moved) = n
  <2>1. first \in [1..n -> moved] /\ \A t \in moved : \E i \in 1..n : first[i] = t
    OBVIOUS
  <2>2. \A i, j \in 1..n : first[i] = first[j] => i = j
    BY <1>4 DEF LoopMemory
  <2>3. first \in Bijection(1..n, moved)
    BY <2>1, <2>2, Fun_IsBij
  <2>4. ExistsBijection(1..n, moved)
    BY <2>3 DEF ExistsBijection
  <2>5. IsFiniteSet(1..n) /\ Cardinality(1..n) = n
    BY <1>4, FS_Interval
  <2>6. QED
    BY <2>4, <2>5, FS_Bijection
<1>7. IsFiniteSet(started) /\ Cardinality(started) = Cardinality(rest) + n
  <2>1. rest \cap moved = {}
    BY <1>4 DEF LoopMemory
  <2>2. Cardinality(rest \cap moved) = 0
    BY <2>1, FS_EmptySet
  <2> HIDE DEF moved
  <2>3. /\ IsFiniteSet(rest \cup moved)
        /\ Cardinality(rest \cup moved)
             = Cardinality(rest) + Cardinality(moved) - Cardinality(rest \cap moved)
    BY <1>3, <1>6, FS_Union
  <2>4. QED
    BY <1>3, <1>4, <1>0, <1>6, <2>2, <2>3
<1>8. started \subseteq S
  BY <1>1, <1>4 DEF LoopMemory
<1>9. \A i, j \in 1..Len(left) : left[i] = left[j] => i = j
  <2> SUFFICES ASSUME NEW i \in 1..Len(left), NEW j \in 1..Len(left), left[i] = left[j]
               PROVE  i = j
    OBVIOUS
  <2>1. n + i \in 1..Len(waiting) /\ n + j \in 1..Len(waiting)
    BY <1>1, <1>4, <1>5
  <2>2. waiting[n + i] = waiting[n + j]
    BY <1>5
  <2>3. n + i = n + j
    BY <2>1, <2>2 DEF LoopMemory
  <2>4. QED
    BY <1>4, <1>5, <2>3
<1>10. \A i \in 1..Len(left) : left[i] \notin started
  <2> SUFFICES ASSUME NEW i \in 1..Len(left)
               PROVE  left[i] \notin started
    OBVIOUS
  <2>1. n + i \in 1..Len(waiting) /\ n + i \notin 1..n /\ left[i] = waiting[n + i]
    BY <1>1, <1>4, <1>5
  <2>2. left[i] \notin running
    BY <2>1 DEF LoopMemory
  <2>3. ASSUME NEW j \in 1..n
        PROVE  waiting[j] # left[i]
    <3>1. j \in 1..Len(waiting)
      BY <1>1, <1>4
    <3>2. j # n + i
      BY <2>1
    <3>3. QED
      BY <2>1, <3>1, <3>2 DEF LoopMemory
  <2>4. QED
    BY <2>2, <2>3
<1>11. LoopMemory(S, left, started, limit)
  BY <1>3, <1>4, <1>5, <1>7, <1>8, <1>9, <1>10 DEF LoopMemory
<1>12. Range(left) \subseteq Range(waiting)
  <2> SUFFICES ASSUME NEW i \in 1..Len(left)
               PROVE  left[i] \in Range(waiting)
    BY <1>5 DEF Range
  <2>1. n + i \in 1..Len(waiting) /\ left[i] = waiting[n + i]
    BY <1>1, <1>4, <1>5
  <2>2. QED
    BY <1>1, <2>1 DEF Range
<1>13. Range(waiting) \subseteq Range(left) \cup started
  <2> SUFFICES ASSUME NEW i \in 1..Len(waiting)
               PROVE  waiting[i] \in Range(left) \cup started
    BY <1>1 DEF Range
  <2>1. CASE i <= n
    BY <1>4, <2>1
  <2>2. CASE i > n
    <3>1. i - n \in 1..Len(left) /\ left[i - n] = waiting[i]
      BY <1>1, <1>4, <1>5, <2>2
    <3>2. QED
      BY <1>5, <3>1 DEF Range
  <2>3. QED
    BY <1>4, <2>1, <2>2
<1>14. moved \subseteq Range(waiting)
  BY <1>1, <1>4 DEF Range
<1>15. left # <<>> => Cardinality(started) = limit
  <2>1. left # <<>> => n < Len(waiting)
    BY <1>1, <1>4, <1>5
  <2>2. QED
    BY <1>3, <1>4, <1>7, <2>1
<1>16. QED
  BY <1>11, <1>12, <1>13, <1>14, <1>15
=============================================================================
