----------------------------- MODULE Sync_proofs -----------------------------
(***************************************************************************)
(* Proofs about Sync, for any sequence of fingerprints, any number of      *)
(* overlapping syncs and any number of failures, deaths and                *)
(* re-installations, and about GithubSource, the plugin whose diff Sync    *)
(* takes as one step, for any set of items and any calls that fail.        *)
(***************************************************************************)
EXTENDS Sync, GithubSource, FiniteSetTheorems, TLAPS

Reported(f) == f # Absent => \E e \in log : e.print = f

(* What strengthens BaselineIsReported: a sync that is under way carries   *)
(* the baseline of another time, and writes an answer it does not report   *)
(* when the two are equal; so that baseline must be a reported one too.    *)
PriorsAreReported == \A s \in Slot : Reported(syncs[s].prior)

SyncsTyped ==
  syncs \in [Slot -> [phase : {"idle", "asking", "answering"},
                      prior : Fingerprint \cup {Absent},
                      answer : Fingerprint \cup {Absent}]]

ReportedInv ==
  /\ baseline \in Fingerprint \cup {Absent}
  /\ source \in Version
  /\ SyncsTyped
  /\ Reported(baseline)
  /\ PriorsAreReported

-----------------------------------------------------------------------------
(* The diff                                                                *)

(* A diff against a baseline that was reported leaves nothing of the       *)
(* answer unreported (diff in both plugins).                               *)
LEMMA DiffReports ==
  ASSUME NEW prior, NEW live, live # Absent, prior # live
  PROVE  \E e \in Diff(prior, live) : e.print = live
  <1>1. CASE prior = Absent
    <2>1. Diff(prior, live) = {Created(live)}
      BY <1>1 DEF Diff
    <2>2. Created(live).print = live
      BY DEF Created
    <2> QED BY <2>1, <2>2
  <1>2. CASE prior # Absent
    <2>1. Diff(prior, live) = {Updated(live)}
      BY <1>2 DEF Diff
    <2>2. Updated(live).print = live
      BY DEF Updated
    <2> QED BY <2>1, <2>2
  <1> QED BY <1>1, <1>2

(* The log only grows, so that what was reported stays reported.           *)
LEMMA ReportedStays ==
  ASSUME NEW f, log \subseteq log', Reported(f)
  PROVE  f # Absent => \E e \in log' : e.print = f
  BY DEF Reported

-----------------------------------------------------------------------------
(* The steps                                                               *)

LEMMA InitReported == Init => ReportedInv
  <1> SUFFICES ASSUME Init PROVE ReportedInv
    OBVIOUS
  <1>1. source \in Version
    BY SyncAssumption DEF Init, Version
  <1>2. SyncsTyped
    BY DEF Init, SyncsTyped, Idle
  <1>3. PriorsAreReported
    BY DEF Init, PriorsAreReported, Reported, Idle
  <1> QED BY <1>1, <1>2, <1>3 DEF Init, ReportedInv, Reported

(* A step that forgets syncs and leaves the baseline as it is, or resets   *)
(* it, needs no more than a growing log.                                   *)
LEMMA Forgetting ==
  ASSUME ReportedInv,
         source' \in Version,
         log \subseteq log',
         baseline' \in {baseline, Absent},
         \A s \in Slot : syncs'[s] = syncs[s] \/ syncs'[s] = Idle,
         syncs' \in [Slot -> [phase : {"idle", "asking", "answering"},
                              prior : Fingerprint \cup {Absent},
                              answer : Fingerprint \cup {Absent}]]
  PROVE  ReportedInv'
  <1>1. Reported(baseline)'
    BY DEF ReportedInv, Reported
  <1>2. PriorsAreReported'
    BY DEF ReportedInv, PriorsAreReported, Reported, Idle
  <1> QED BY <1>1, <1>2 DEF ReportedInv, SyncsTyped

LEMMA LaunchReported ==
  ASSUME ReportedInv, NEW s \in Slot, Launch(s)
  PROVE  ReportedInv'
  <1>1. SyncsTyped'
    BY DEF Launch, ReportedInv, SyncsTyped
  <1>2. PriorsAreReported'
    BY DEF Launch, ReportedInv, SyncsTyped, PriorsAreReported, Reported, plugin
  <1> QED BY <1>1, <1>2 DEF Launch, ReportedInv, Reported, plugin

LEMMA PluginReadsReported ==
  ASSUME ReportedInv, NEW s \in Slot, PluginReads(s)
  PROVE  ReportedInv'
  <1>1. Content[source] \in Fingerprint \cup {Absent}
    BY DEF ReportedInv, Fingerprint
  <1>2. SyncsTyped'
    BY <1>1 DEF PluginReads, ReportedInv, SyncsTyped
  <1>3. PriorsAreReported'
    BY DEF PluginReads, ReportedInv, SyncsTyped, PriorsAreReported, Reported, history
  <1> QED BY <1>2, <1>3 DEF PluginReads, ReportedInv, Reported, plugin

LEMMA SyncReturnsReported ==
  ASSUME ReportedInv, NEW s \in Slot, SyncReturns(s)
  PROVE  ReportedInv'
  <1> DEFINE prior == syncs[s].prior
             answer == syncs[s].answer
  <1>1. log' = log \cup Diff(prior, answer)
    BY DEF SyncReturns, Enqueue
  <1>2. /\ syncs' = [syncs EXCEPT ![s] = Idle]
        /\ baseline' = answer
        /\ source' = source
    BY DEF SyncReturns
  <1>3. answer \in Fingerprint \cup {Absent}
    BY DEF ReportedInv, SyncsTyped
  <1>4. answer # Absent => \E e \in log' : e.print = answer
    <2>1. CASE prior = answer
      BY <1>1, <2>1 DEF ReportedInv, PriorsAreReported, Reported
    <2>2. CASE prior # answer
      <3> HIDE DEF prior, answer
      <3> QED BY <1>1, <2>2, DiffReports
    <2> QED BY <2>1, <2>2
  <1>5. SyncsTyped'
    BY <1>2 DEF ReportedInv, SyncsTyped, Idle
  <1>6. PriorsAreReported'
    BY <1>1, <1>2 DEF ReportedInv, SyncsTyped, PriorsAreReported, Reported, Idle
  <1> QED BY <1>2, <1>3, <1>4, <1>5, <1>6 DEF ReportedInv, Reported

(* Syncs that end without an answer, by themselves or with the daemon.     *)
LEMMA EndsReported ==
  ASSUME ReportedInv,
         \/ \E s \in Slot : SyncFails(s) \/ SyncThrows(s) \/ CrashHalfway(s)
         \/ Crash
  PROVE  ReportedInv'
  <1>1. ASSUME NEW s \in Slot, SyncFails(s) \/ SyncThrows(s)
        PROVE  ReportedInv'
    <2>1. syncs' = [syncs EXCEPT ![s] = Idle] /\ UNCHANGED <<source, baseline, log>>
      BY <1>1 DEF SyncFails, SyncThrows, plugin
    <2> QED BY <2>1, Forgetting DEF ReportedInv, SyncsTyped, Idle
  <1>2. ASSUME NEW s \in Slot, CrashHalfway(s)
        PROVE  ReportedInv'
    <2>1. /\ syncs' = [t \in Slot |-> Idle] /\ UNCHANGED <<source, baseline>>
          /\ log \subseteq log'
      BY <1>2 DEF CrashHalfway, Enqueue, plugin
    <2> QED BY <2>1, Forgetting DEF ReportedInv, Idle
  <1>3. ASSUME Crash
        PROVE  ReportedInv'
    <2>1. syncs' = [t \in Slot |-> Idle] /\ UNCHANGED <<source, baseline, log>>
      BY <1>3 DEF Crash, plugin
    <2> QED BY <2>1, Forgetting DEF ReportedInv, Idle
  <1> QED BY <1>1, <1>2, <1>3

(* Everything else that is not a sync.                                     *)
LEMMA OthersReported ==
  ASSUME ReportedInv,
         AddAgain \/ Configure \/ SourceMoves \/ Fold \/ Pass \/ UNCHANGED vars
  PROVE  ReportedInv'
  <1>1. UNCHANGED <<syncs, log>> /\ baseline' \in {baseline, Absent}
    BY DEF AddAgain, Configure, SourceMoves, Fold, Pass, vars, plugin
  <1>2. source' \in Version
    <2>1. CASE SourceMoves
      BY <2>1, SyncAssumption DEF SourceMoves, ReportedInv, Version
    <2>2. CASE ~ SourceMoves
      BY <2>2 DEF AddAgain, Configure, Fold, Pass, vars, ReportedInv
    <2> QED BY <2>1, <2>2
  <1> QED BY <1>1, <1>2, Forgetting DEF ReportedInv, SyncsTyped

LEMMA NextReported == ReportedInv /\ [Next]_vars => ReportedInv'
  <1> SUFFICES ASSUME ReportedInv, [Next]_vars PROVE ReportedInv'
    OBVIOUS
  <1>1. ASSUME NEW s \in Slot, Launch(s) PROVE ReportedInv'
    BY <1>1, LaunchReported
  <1>2. ASSUME NEW s \in Slot, PluginReads(s) PROVE ReportedInv'
    BY <1>2, PluginReadsReported
  <1>3. ASSUME NEW s \in Slot, SyncReturns(s) PROVE ReportedInv'
    BY <1>3, SyncReturnsReported
  <1>4. CASE \/ \E s \in Slot : SyncFails(s) \/ SyncThrows(s) \/ CrashHalfway(s)
             \/ Crash
    BY <1>4, EndsReported
  <1>5. CASE AddAgain \/ Configure \/ SourceMoves \/ Fold \/ Pass \/ UNCHANGED vars
    BY <1>5, OthersReported
  <1> QED BY <1>1, <1>2, <1>3, <1>4, <1>5 DEF Next

(* The baseline never runs ahead of what was reported, for any source, any *)
(* overlap of syncs, any failures, deaths and re-installations             *)
(* (effects.js writes it after the events).                                *)
THEOREM NothingIsSkipped == Spec => []BaselineIsReported
  <1>1. ReportedInv => BaselineIsReported
    BY DEF ReportedInv, Reported, BaselineIsReported
  <1> QED BY InitReported, NextReported, <1>1, PTL DEF Spec

-----------------------------------------------------------------------------
(* The order of events                                                     *)

(* A source each of whose states shows once, so that what the item shows   *)
(* tells the version.                                                      *)
EachStateOnce ==
  /\ \A v, w \in Version : Content[v] = Content[w] => v = w
  /\ "none" \notin Fingerprint

Age(e) == VersionOf(e.print)

Events == {Closed} \cup {Created(f) : f \in Fingerprint} \cup {Updated(f) : f \in Fingerprint}

(* All that is shown or queued is no newer than v.                         *)
NoNewerThan(v) ==
  /\ VersionOf(shown) <= v
  /\ \A i \in 1..Len(queue) : Age(queue[i]) <= v

(* What strengthens MovesForward: the queue is in the order of the source, *)
(* and the one sync under way has seen nothing older than what is in it.   *)
QueueIsInOrder ==
  /\ queue \in Seq(Events) /\ VersionOf(shown) \in Nat
  /\ \A i \in 1..Len(queue) : Age(queue[i]) \in Nat /\ VersionOf(shown) <= Age(queue[i])
  /\ \A i, j \in 1..Len(queue) : i < j => Age(queue[i]) <= Age(queue[j])

OneSyncAtATime == \A s, t \in Slot : Busy(s) /\ Busy(t) => s = t

AnswersAreNewest ==
  \A s \in Slot : syncs[s].phase = "answering" =>
    \E v \in Version : syncs[s].answer = Content[v] /\ v <= source /\ NoNewerThan(v)

ForwardInv ==
  /\ ReportedInv
  /\ ~ overlapped =>
       OneSyncAtATime /\ QueueIsInOrder /\ NoNewerThan(source) /\ AnswersAreNewest

(* The one event of a diff is as old as the answer.                        *)
LEMMA DiffIsOfItsAnswer ==
  ASSUME EachStateOnce, NEW v \in Version, NEW prior
  PROVE  Diff(prior, Content[v]) = {} \/
           \E e \in Events : Diff(prior, Content[v]) = {e} /\ Age(e) = v
  <1>1. CASE Content[v] = Absent
    <2>1. (CHOOSE w \in Version : Content[w] = Absent) = v
      BY <1>1 DEF EachStateOnce
    <2>2. VersionOf("closed") = v
      BY <2>1 DEF VersionOf
    <2>3. Closed \in Events /\ Age(Closed) = v
      BY <2>2 DEF Events, Age, Closed
    <2> QED BY <1>1, <2>3 DEF Diff
  <1>2. CASE Content[v] # Absent
    <2>1. Content[v] \in Fingerprint /\ Content[v] # "none" /\ Content[v] # "closed"
      BY <1>2, SyncAssumption DEF Fingerprint, EachStateOnce
    <2>2. (CHOOSE w \in Version : Content[w] = Content[v]) = v
      BY DEF EachStateOnce
    <2>3. VersionOf(Content[v]) = v
      BY <2>1, <2>2 DEF VersionOf
    <2>4. /\ Created(Content[v]) \in Events /\ Created(Content[v]).print = Content[v]
          /\ Updated(Content[v]) \in Events /\ Updated(Content[v]).print = Content[v]
      BY <2>1 DEF Events, Created, Updated
    <2>5. Age(Created(Content[v])) = v /\ Age(Updated(Content[v])) = v
      BY <2>3, <2>4 DEF Age
    <2> QED BY <1>2, <2>4, <2>5 DEF Diff
  <1> QED BY <1>1, <1>2

(* What a sync reports goes to the end of the queue, where it belongs.     *)
LEMMA ReportedInOrder ==
  ASSUME EachStateOnce, QueueIsInOrder, UNCHANGED shown,
         NEW v \in Version, v <= source, source \in Version, NoNewerThan(v),
         NEW prior, Enqueue(Diff(prior, Content[v]))
  PROVE  QueueIsInOrder' /\ (\A i \in 1..Len(queue') : Age(queue'[i]) <= v)
  <1> DEFINE events == Diff(prior, Content[v])
  <1>1. CASE queue' = queue
    BY <1>1 DEF QueueIsInOrder, NoNewerThan, Age
  <1>2. CASE queue' # queue
    <2>1. queue' = Append(queue, CHOOSE e \in events : TRUE) /\ events # {}
      BY <1>2 DEF Enqueue
    <2>2. PICK e \in Events : events = {e} /\ Age(e) = v
      BY <2>1, DiffIsOfItsAnswer
    <2>3. queue' = Append(queue, e)
      BY <2>1, <2>2
    <2>4. /\ queue' \in Seq(Events) /\ Len(queue') = Len(queue) + 1 /\ Len(queue) \in Nat
          /\ \A i \in 1..Len(queue) : queue'[i] = queue[i]
          /\ queue'[Len(queue) + 1] = e
      BY <2>3 DEF QueueIsInOrder
    <2>5. v \in Nat /\ VersionOf(shown) \in Nat /\ VersionOf(shown) <= v
      BY DEF Version, QueueIsInOrder, NoNewerThan
    <2>6. ASSUME NEW i \in 1..Len(queue')
          PROVE  /\ Age(queue'[i]) \in Nat /\ VersionOf(shown) <= Age(queue'[i])
                 /\ Age(queue'[i]) <= v
      <3>1. CASE i \in 1..Len(queue)
        <4>1. queue'[i] = queue[i]
          BY <2>4, <3>1
        <4> QED BY <3>1, <4>1 DEF QueueIsInOrder, NoNewerThan
      <3>2. CASE i = Len(queue) + 1
        BY <2>2, <2>4, <2>5, <3>2
      <3> QED BY <2>4, <3>1, <3>2
    <2>7. ASSUME NEW i \in 1..Len(queue'), NEW j \in 1..Len(queue'), i < j
          PROVE  Age(queue'[i]) <= Age(queue'[j])
      <3>1. CASE j \in 1..Len(queue)
        <4>1. i \in 1..Len(queue) /\ queue'[i] = queue[i] /\ queue'[j] = queue[j]
          BY <2>4, <2>7, <3>1
        <4> QED BY <2>7, <3>1, <4>1 DEF QueueIsInOrder
      <3>2. CASE j = Len(queue) + 1
        BY <2>2, <2>4, <2>6, <3>2
      <3> QED BY <2>4, <3>1, <3>2
    <2>8. QueueIsInOrder'
      BY <2>4, <2>5, <2>6, <2>7 DEF QueueIsInOrder, Age
    <2> QED BY <2>6, <2>8
  <1> QED BY <1>1, <1>2

(* A sync that ends by reporting: it was the only one.                     *)
LEMMA ReturnsForward ==
  ASSUME EachStateOnce, ForwardInv, ReportedInv', NEW s \in Slot,
         syncs[s].phase = "answering", Enqueue(Diff(syncs[s].prior, syncs[s].answer)),
         \A t \in Slot : syncs'[t] = Idle \/ (t # s /\ syncs'[t] = syncs[t]),
         UNCHANGED <<shown, source, overlapped>>
  PROVE  ForwardInv'
  <1> SUFFICES ASSUME ~ overlapped
               PROVE  OneSyncAtATime' /\ QueueIsInOrder' /\ NoNewerThan(source)' /\ AnswersAreNewest'
    BY DEF ForwardInv
  <1>0. OneSyncAtATime /\ QueueIsInOrder /\ AnswersAreNewest /\ source \in Version
    BY DEF ForwardInv, ReportedInv
  <1>1. PICK v \in Version : syncs[s].answer = Content[v] /\ v <= source /\ NoNewerThan(v)
    BY <1>0 DEF AnswersAreNewest
  <1>2. \A t \in Slot : syncs'[t].phase = "idle"
    BY <1>0 DEF OneSyncAtATime, Busy, Idle
  <1>3. QueueIsInOrder' /\ (\A i \in 1..Len(queue') : Age(queue'[i]) <= v)
    BY <1>0, <1>1, ReportedInOrder
  <1>4. NoNewerThan(source)'
    <2>1. v \in Nat /\ source \in Nat /\ v <= source
      BY <1>0, <1>1 DEF Version
    <2>2. VersionOf(shown) \in Nat /\ VersionOf(shown) <= v
      BY <1>0, <1>1 DEF QueueIsInOrder, NoNewerThan
    <2>3. \A i \in 1..Len(queue') : Age(queue'[i]) \in Nat
      BY <1>3 DEF QueueIsInOrder, Age
    <2> QED BY <1>3, <2>1, <2>2, <2>3 DEF NoNewerThan, Age
  <1>5. OneSyncAtATime' /\ AnswersAreNewest'
    BY <1>2 DEF OneSyncAtATime, AnswersAreNewest, Busy
  <1> QED BY <1>3, <1>4, <1>5

(* What reports nothing, and starts no sync.                               *)
LEMMA QuietForward ==
  ASSUME ForwardInv, ReportedInv', UNCHANGED <<queue, shown, overlapped>>,
         source' = source \/ source' = source + 1,
         \A s \in Slot : syncs'[s] = syncs[s] \/ syncs'[s] = Idle
  PROVE  ForwardInv'
  <1> SUFFICES ASSUME ~ overlapped
               PROVE  OneSyncAtATime' /\ QueueIsInOrder' /\ NoNewerThan(source)' /\ AnswersAreNewest'
    BY DEF ForwardInv
  <1>0. /\ OneSyncAtATime /\ QueueIsInOrder /\ NoNewerThan(source) /\ AnswersAreNewest
        /\ source \in Version
    BY DEF ForwardInv, ReportedInv
  <1>1. QueueIsInOrder'
    BY <1>0 DEF QueueIsInOrder, Age
  <1>2. NoNewerThan(source)'
    <2>1. source \in Nat /\ source' \in Nat /\ source <= source'
      BY <1>0 DEF Version
    <2>2. VersionOf(shown) \in Nat /\ \A i \in 1..Len(queue) : Age(queue[i]) \in Nat
      BY <1>0 DEF QueueIsInOrder
    <2> QED BY <1>0, <2>1, <2>2 DEF NoNewerThan, Age
  <1>3. OneSyncAtATime'
    BY <1>0 DEF OneSyncAtATime, Busy, Idle
  <1>4. AnswersAreNewest'
    <2> SUFFICES ASSUME NEW s \in Slot, syncs'[s].phase = "answering"
                 PROVE  \E v \in Version : /\ syncs'[s].answer = Content[v]
                                           /\ v <= source' /\ NoNewerThan(v)'
      BY DEF AnswersAreNewest
    <2>1. syncs'[s] = syncs[s]
      BY DEF Idle
    <2>2. PICK v \in Version : syncs[s].answer = Content[v] /\ v <= source /\ NoNewerThan(v)
      BY <1>0, <2>1 DEF AnswersAreNewest
    <2>3. v <= source'
      BY <1>0, <2>2 DEF Version
    <2>4. NoNewerThan(v)'
      BY <2>2 DEF NoNewerThan, Age
    <2> QED BY <2>1, <2>2, <2>3, <2>4
  <1> QED BY <1>1, <1>2, <1>3, <1>4

LEMMA LaunchForward ==
  ASSUME ForwardInv, ReportedInv', NEW s \in Slot, Launch(s) PROVE ForwardInv'
  <1>1. /\ syncs' = [syncs EXCEPT ![s] = [phase |-> "asking", prior |-> baseline, answer |-> Absent]]
        /\ overlapped' = (overlapped \/ \E t \in Slot : Busy(t))
        /\ UNCHANGED <<source, queue, shown>>
    BY DEF Launch
  <1> SUFFICES ASSUME ~ overlapped, \A t \in Slot : ~ Busy(t)
               PROVE  OneSyncAtATime' /\ QueueIsInOrder' /\ NoNewerThan(source)' /\ AnswersAreNewest'
    BY <1>1 DEF ForwardInv
  <1>2. QueueIsInOrder /\ NoNewerThan(source) /\ SyncsTyped
    BY DEF ForwardInv, ReportedInv
  <1>3. \A t \in Slot : syncs'[t].phase = IF t = s THEN "asking" ELSE "idle"
    BY <1>1, <1>2 DEF SyncsTyped, Busy
  <1>4. OneSyncAtATime' /\ AnswersAreNewest'
    BY <1>3 DEF OneSyncAtATime, AnswersAreNewest, Busy
  <1> QED BY <1>1, <1>2, <1>4 DEF QueueIsInOrder, NoNewerThan, Age

LEMMA PluginReadsForward ==
  ASSUME ForwardInv, ReportedInv', NEW s \in Slot, PluginReads(s) PROVE ForwardInv'
  <1>1. /\ syncs' = [syncs EXCEPT ![s].phase = "answering", ![s].answer = Content[source]]
        /\ UNCHANGED <<source, queue, shown, overlapped>> /\ syncs[s].phase = "asking"
    BY DEF PluginReads, history
  <1> SUFFICES ASSUME ~ overlapped
               PROVE  OneSyncAtATime' /\ QueueIsInOrder' /\ NoNewerThan(source)' /\ AnswersAreNewest'
    BY <1>1 DEF ForwardInv
  <1>2. /\ QueueIsInOrder /\ NoNewerThan(source) /\ OneSyncAtATime /\ AnswersAreNewest
        /\ SyncsTyped /\ source \in Version
    BY DEF ForwardInv, ReportedInv
  <1>3. /\ syncs'[s].phase = "answering" /\ syncs'[s].answer = Content[source]
        /\ \A t \in Slot : t # s => syncs'[t] = syncs[t]
    BY <1>1, <1>2 DEF SyncsTyped
  <1>4. OneSyncAtATime'
    BY <1>1, <1>2, <1>3 DEF OneSyncAtATime, Busy
  <1>5. \A v : NoNewerThan(v) => NoNewerThan(v)'
    BY <1>1 DEF NoNewerThan, Age
  <1>6. AnswersAreNewest'
    <2> SUFFICES ASSUME NEW t \in Slot, syncs'[t].phase = "answering"
                 PROVE  \E v \in Version : /\ syncs'[t].answer = Content[v]
                                           /\ v <= source' /\ NoNewerThan(v)'
      BY DEF AnswersAreNewest
    <2>1. t = s
      BY <1>1, <1>2, <1>3 DEF OneSyncAtATime, Busy
    <2>2. PICK v \in Version : v = source
      BY <1>2
    <2>3. v <= source' /\ NoNewerThan(v)'
      BY <1>1, <1>2, <1>5, <2>2 DEF Version
    <2> QED BY <1>3, <2>1, <2>2, <2>3
  <1> QED BY <1>1, <1>2, <1>4, <1>5, <1>6 DEF QueueIsInOrder, NoNewerThan, Age

(* The head of the queue is the oldest of it.                              *)
LEMMA FoldForward == ASSUME ForwardInv, ReportedInv', Fold PROVE ForwardInv'
  <1>1. /\ queue # <<>> /\ shown' = Head(queue).print /\ queue' = Tail(queue)
        /\ UNCHANGED <<source, syncs, overlapped>>
    BY DEF Fold, history
  <1> SUFFICES ASSUME ~ overlapped
               PROVE  OneSyncAtATime' /\ QueueIsInOrder' /\ NoNewerThan(source)' /\ AnswersAreNewest'
    BY <1>1 DEF ForwardInv
  <1>2. /\ QueueIsInOrder /\ NoNewerThan(source) /\ OneSyncAtATime /\ AnswersAreNewest
    BY DEF ForwardInv
  <1>3. /\ queue' \in Seq(Events) /\ Len(queue') = Len(queue) - 1 /\ Len(queue) \in Nat \ {0}
        /\ \A i \in 1..Len(queue') : i + 1 \in 1..Len(queue) /\ queue'[i] = queue[i + 1]
        /\ 1 \in 1..Len(queue) /\ Head(queue) = queue[1]
    BY <1>1, <1>2 DEF QueueIsInOrder
  <1>4. VersionOf(shown') = Age(queue[1])
    BY <1>1, <1>3 DEF Age
  <1>5. QueueIsInOrder'
    <2>1. VersionOf(shown') \in Nat
      BY <1>2, <1>3, <1>4 DEF QueueIsInOrder
    <2>2. ASSUME NEW i \in 1..Len(queue')
          PROVE  Age(queue'[i]) \in Nat /\ VersionOf(shown') <= Age(queue'[i])
      <3>1. i + 1 \in 1..Len(queue) /\ queue'[i] = queue[i + 1] /\ 1 < i + 1
        BY <1>3
      <3> QED BY <1>2, <1>3, <1>4, <3>1 DEF QueueIsInOrder
    <2>3. ASSUME NEW i \in 1..Len(queue'), NEW j \in 1..Len(queue'), i < j
          PROVE  Age(queue'[i]) <= Age(queue'[j])
      <3>1. /\ i + 1 \in 1..Len(queue) /\ queue'[i] = queue[i + 1]
            /\ j + 1 \in 1..Len(queue) /\ queue'[j] = queue[j + 1] /\ i + 1 < j + 1
        BY <1>3, <2>3
      <3> QED BY <1>2, <3>1 DEF QueueIsInOrder
    <2> QED BY <1>3, <2>1, <2>2, <2>3 DEF QueueIsInOrder, Age
  <1>6. ASSUME NEW v, NoNewerThan(v) PROVE NoNewerThan(v)'
    BY <1>1, <1>3, <1>4, <1>6 DEF NoNewerThan, Age
  <1>7. AnswersAreNewest'
    BY <1>1, <1>2, <1>6 DEF AnswersAreNewest
  <1>8. NoNewerThan(source)'
    <2>1. \A v : NoNewerThan(v) => NoNewerThan(v)'
      BY <1>6
    <2> QED BY <1>1, <1>2, <2>1 DEF NoNewerThan
  <1> QED BY <1>1, <1>2, <1>5, <1>7, <1>8 DEF OneSyncAtATime, Busy

LEMMA InitForward == Init => ForwardInv
  <1> SUFFICES ASSUME Init PROVE ForwardInv
    OBVIOUS
  <1>1. queue = <<>> /\ shown = "none" /\ source = 1 /\ \A s \in Slot : syncs[s] = Idle
    BY DEF Init
  <1>2. VersionOf(shown) = 0
    BY <1>1 DEF VersionOf
  <1>3. QueueIsInOrder /\ NoNewerThan(source)
    BY <1>1, <1>2 DEF QueueIsInOrder, NoNewerThan
  <1>4. OneSyncAtATime /\ AnswersAreNewest
    BY <1>1 DEF OneSyncAtATime, AnswersAreNewest, Busy, Idle
  <1> QED BY <1>3, <1>4, InitReported DEF ForwardInv

LEMMA NextForward == ASSUME EachStateOnce, ForwardInv, [Next]_vars PROVE ForwardInv'
  <1>0. ReportedInv'
    BY NextReported DEF ForwardInv
  <1>1. ASSUME NEW s \in Slot, Launch(s) \/ PluginReads(s) PROVE ForwardInv'
    BY <1>0, <1>1, LaunchForward, PluginReadsForward
  <1>2. ASSUME NEW s \in Slot, SyncReturns(s) \/ CrashHalfway(s) PROVE ForwardInv'
    <2>1. SyncsTyped
      BY DEF ForwardInv, ReportedInv
    <2>2. /\ syncs[s].phase = "answering"
          /\ Enqueue(Diff(syncs[s].prior, syncs[s].answer))
          /\ \A t \in Slot : syncs'[t] = Idle \/ (t # s /\ syncs'[t] = syncs[t])
          /\ UNCHANGED <<shown, source, overlapped>>
      <3>1. CASE SyncReturns(s)
        <4>1. syncs' = [syncs EXCEPT ![s] = Idle]
          BY <3>1 DEF SyncReturns
        <4>2. \A t \in Slot : IF t = s THEN syncs'[t] = Idle ELSE syncs'[t] = syncs[t]
          BY <2>1, <4>1 DEF SyncsTyped
        <4>3. UNCHANGED <<shown, source, overlapped>>
          BY <3>1 DEF SyncReturns, history
        <4>4. syncs[s].phase = "answering" /\ Enqueue(Diff(syncs[s].prior, syncs[s].answer))
          BY <3>1 DEF SyncReturns
        <4> QED BY <4>2, <4>3, <4>4
      <3>2. CASE CrashHalfway(s)
        <4>1. \A t \in Slot : syncs'[t] = Idle
          BY <3>2 DEF CrashHalfway
        <4>2. UNCHANGED <<shown, source, overlapped>>
          BY <3>2 DEF CrashHalfway
        <4>3. syncs[s].phase = "answering" /\ Enqueue(Diff(syncs[s].prior, syncs[s].answer))
          BY <3>2 DEF CrashHalfway
        <4> QED BY <4>1, <4>2, <4>3
      <3> QED BY <1>2, <3>1, <3>2
    <2> QED BY <1>0, <2>2, ReturnsForward
  <1>3. CASE \/ \E s \in Slot : SyncFails(s) \/ SyncThrows(s)
             \/ Crash \/ AddAgain \/ Configure \/ SourceMoves \/ Pass \/ UNCHANGED vars
    <2>1. /\ UNCHANGED <<queue, shown, overlapped>> /\ (source' = source \/ source' = source + 1)
      BY <1>3 DEF SyncFails, SyncThrows, Crash, AddAgain, Configure, SourceMoves, Pass, vars, history
    <2>2. \A s \in Slot : syncs'[s] = syncs[s] \/ syncs'[s] = Idle
      <3>1. SyncsTyped
        BY DEF ForwardInv, ReportedInv
      <3> QED BY <1>3, <3>1 DEF SyncFails, SyncThrows, Crash, AddAgain, Configure,
                                SourceMoves, Pass, vars, SyncsTyped
    <2> QED BY <1>0, <2>1, <2>2, QuietForward
  <1>4. CASE Fold
    BY <1>0, <1>4, FoldForward
  <1> QED BY <1>1, <1>2, <1>3, <1>4 DEF Next

(* The item never goes back to an earlier state of its source, as long as  *)
(* syncs do not overlap, for every source each of whose states shows once  *)
(* and any failures, deaths and re-installations: events are enqueued in   *)
(* the order of the source and folded in that order.                       *)
THEOREM ItemMovesForward == EachStateOnce => (Spec => MovesForward)
  <1> SUFFICES ASSUME EachStateOnce PROVE Spec => MovesForward
    OBVIOUS
  <1>1. ForwardInv /\ [Next]_vars => ForwardInv'
    BY NextForward
  <1>2. ASSUME ForwardInv, [Next]_vars
        PROVE  [~ overlapped => VersionOf(shown') >= VersionOf(shown)]_vars
    <2>1. CASE Fold /\ ~ overlapped
      <3>1. QueueIsInOrder
        BY <1>2, <2>1 DEF ForwardInv
      <3>2. 1 \in 1..Len(queue) /\ shown' = queue[1].print
        BY <2>1, <3>1 DEF Fold, QueueIsInOrder
      <3> QED BY <3>1, <3>2 DEF QueueIsInOrder, Age
    <2>2. CASE UNCHANGED shown /\ ~ overlapped
      <3>1. VersionOf(shown) \in Nat /\ VersionOf(shown') = VersionOf(shown)
        BY <1>2, <2>2 DEF ForwardInv, QueueIsInOrder
      <3> QED BY <3>1
    <2>3. Fold \/ UNCHANGED shown
      BY <1>2 DEF Next, Launch, PluginReads, SyncReturns, SyncFails, SyncThrows, CrashHalfway,
                  Crash, AddAgain, Configure, SourceMoves, Pass, vars
    <2> QED BY <2>1, <2>2, <2>3
  <1> QED BY <1>1, <1>2, InitForward, PTL DEF Spec, MovesForward

-----------------------------------------------------------------------------
(* The GitHub plugin                                                       *)

World == [open : BOOLEAN, own : Nat, foreign : Nat, updated : Nat,
          draft : BOOLEAN, stale : BOOLEAN, changes : BOOLEAN, window : BOOLEAN]

GithubTyped ==
  /\ clock \in Nat /\ failedCalls \in Nat
  /\ world \in [Item -> World]
  /\ activity \in [Item -> Nat]
  /\ news \in [Item -> BOOLEAN] /\ doubt \in [Item -> BOOLEAN]

(* As long as no call failed: others have engaged with whatever has a      *)
(* request for changes, activity, or, being the user's own, attention.     *)
EngagedInv ==
  \A i \in Item :
    /\ world[i].changes => world[i].foreign > 0
    /\ failedCalls = 0 /\ activity[i] > 0 => world[i].foreign > 0
    /\ failedCalls = 0 /\ i \in Own /\ Maintained(i) /\ told[i].surface => world[i].foreign > 0

Hidden(i) == config.excludeDrafts /\ world[i].draft

(* The fingerprint of an item about which the probe knows everything.      *)
QuietPrint(i) == IF Hidden(i) THEN Unlisted ELSE ContentFingerprint(i, world[i].foreign)

(* An item that nobody else has touched since the last probe is listed,    *)
(* and, unless a call has failed, the baseline has what a call would find. *)
QuietInv ==
  \A i \in Item : config.probe /\ Maintained(i) /\ ~ news[i] =>
    /\ world[i].open /\ world[i].window
    /\ ~ doubt[i] => activity[i] = world[i].foreign /\ fingerprints[i] = QuietPrint(i)

GithubInv == GithubTyped /\ EngagedInv /\ QuietInv

(* What a call counts as failures is nothing only if nothing failed.       *)
LEMMA FailuresCount ==
  ASSUME NEW noUser \in BOOLEAN, NEW noStars \in BOOLEAN,
         NEW badProbe \in SUBSET Item, failedCalls \in Nat, Sync(noUser, noStars, badProbe)
  PROVE  /\ failedCalls' \in Nat
         /\ failedCalls' = 0 => failedCalls = 0 /\ ~ noUser /\ ~ noStars /\ badProbe = {}
  <1> DEFINE u == IF noUser THEN 1 ELSE 0
             s == IF noStars THEN 1 ELSE 0
  <1>1. IsFiniteSet(badProbe) /\ Cardinality(badProbe) \in Nat
    <2>1. IsFiniteSet(Item) /\ badProbe \subseteq Item
      BY SourceAssumption DEF SourceAssumption
    <2>2. IsFiniteSet(badProbe)
      BY <2>1, FS_Subset
    <2> QED BY <2>2, FS_CardinalityType
  <1>2. Cardinality(badProbe) = 0 => badProbe = {}
    BY <1>1, FS_EmptySet
  <1>3. failedCalls' = failedCalls + (Cardinality(badProbe) + u + s)
    BY <1>1 DEF Sync
  <1> QED BY <1>1, <1>2, <1>3

(* The call itself, item by item.                                          *)
LEMMA CompleteTells ==
  ASSUME NEW noUser \in BOOLEAN, NEW noStars \in BOOLEAN, NEW badProbe \in SUBSET Item,
         Complete(noUser, noStars, badProbe), NEW i \in Item
  PROVE  LET act == Resolve(i, noUser, badProbe)
             listed == Resolves(i) /\ Listed(i, noUser, noStars)
             print == IF Visible(i, noUser, noStars) THEN ContentFingerprint(i, act) ELSE Unlisted IN
         /\ fingerprints'[i] = print
         /\ told'[i] = Tell(i, print, Surfaces(i, act, noUser))
         /\ activity'[i] = IF listed THEN act ELSE 0
         /\ news'[i] \in BOOLEAN /\ doubt'[i] \in BOOLEAN
         /\ news'[i] <=> news[i] /\ ~ (doProbe /\ listed)
         /\ doubt'[i] <=> noUser \/ noStars \/ i \in badProbe \/ (~ doProbe /\ doubt[i])
  BY DEF Complete

LEMMA CompleteTyped ==
  ASSUME GithubTyped, failedCalls' \in Nat,
         NEW noUser \in BOOLEAN, NEW noStars \in BOOLEAN, NEW badProbe \in SUBSET Item,
         Complete(noUser, noStars, badProbe)
  PROVE  GithubTyped'
  <1>1. clock' = clock /\ world' = world
    BY DEF Complete
  <1>2. ASSUME NEW i \in Item PROVE Resolve(i, noUser, badProbe) \in Nat
    BY DEF GithubTyped, World, Resolve, ProbedActivity
  <1>3. ASSUME NEW i \in Item PROVE activity'[i] \in Nat
    BY <1>2, CompleteTells
  <1>4. ASSUME NEW i \in Item PROVE news'[i] \in BOOLEAN /\ doubt'[i] \in BOOLEAN
    BY CompleteTells
  <1>5. /\ activity' = [i \in Item |-> activity'[i]]
        /\ news' = [i \in Item |-> news'[i]] /\ doubt' = [i \in Item |-> doubt'[i]]
    BY DEF Complete
  <1>6. /\ activity' \in [Item -> Nat]
        /\ news' \in [Item -> BOOLEAN] /\ doubt' \in [Item -> BOOLEAN]
    BY <1>3, <1>4, <1>5
  <1> QED BY <1>1, <1>6 DEF GithubTyped

(* Without failures the user's own item surfaces for others only.          *)
LEMMA SyncEngaged ==
  ASSUME GithubInv,
         NEW noUser \in BOOLEAN, NEW noStars \in BOOLEAN, NEW badProbe \in SUBSET Item,
         Sync(noUser, noStars, badProbe)
  PROVE  EngagedInv'
  <1> SUFFICES ASSUME NEW i \in Item
               PROVE  /\ world[i].changes => world[i].foreign > 0
                      /\ failedCalls' = 0 /\ activity'[i] > 0 => world[i].foreign > 0
                      /\ failedCalls' = 0 /\ i \in Own /\ Maintained(i) /\ told'[i].surface
                           => world[i].foreign > 0
    BY DEF EngagedInv, Sync, Complete, Maintained
  <1>1. world[i].changes => world[i].foreign > 0
    BY DEF GithubInv, EngagedInv
  <1> SUFFICES ASSUME failedCalls' = 0
               PROVE  /\ activity'[i] > 0 => world[i].foreign > 0
                      /\ i \in Own /\ Maintained(i) /\ told'[i].surface => world[i].foreign > 0
    BY <1>1
  <1>2. failedCalls = 0 /\ ~ noUser /\ ~ noStars /\ badProbe = {}
    BY FailuresCount DEF GithubInv, GithubTyped
  <1>3. /\ activity[i] > 0 => world[i].foreign > 0
        /\ i \in Own /\ Maintained(i) /\ told[i].surface => world[i].foreign > 0
    BY <1>2 DEF GithubInv, EngagedInv
  <1> DEFINE act == Resolve(i, noUser, badProbe)
  <1>4. act > 0 => world[i].foreign > 0
    BY <1>2, <1>3 DEF Resolve, ProbedActivity
  <1>5. i \in Own /\ Maintained(i) /\ Surfaces(i, act, noUser) => world[i].foreign > 0
    BY <1>1, <1>2, <1>4 DEF Surfaces
  <1>6. Complete(noUser, noStars, badProbe)
    BY DEF Sync
  <1>7. activity'[i] > 0 => world[i].foreign > 0
    BY <1>4, <1>6, CompleteTells
  <1>8. \/ told'[i] = told[i] \/ told'[i].surface = FALSE
        \/ told'[i].surface = Surfaces(i, act, noUser)
    <2>1. PICK p : told'[i] = Tell(i, p, Surfaces(i, act, noUser))
      BY <1>6, CompleteTells
    <2>2. told'[i] \in {told[i], ClosedEvent, Event(p, Surfaces(i, act, noUser))}
      BY <2>1 DEF Tell
    <2> QED BY <2>2 DEF ClosedEvent, Event
  <1> QED BY <1>3, <1>5, <1>7, <1>8

(* What a call without failures finds about an item nobody has touched.    *)
LEMMA SyncIsQuiet ==
  ASSUME GithubInv, config.probe, NEW i \in Item, Maintained(i),
         NEW noUser \in BOOLEAN, NEW noStars \in BOOLEAN, NEW badProbe \in SUBSET Item,
         ~ noUser, ~ noStars, i \notin badProbe, world[i].open, world[i].window,
         doProbe \/ activity[i] = world[i].foreign
  PROVE  /\ Resolves(i) /\ Listed(i, noUser, noStars)
         /\ Resolve(i, noUser, badProbe) = world[i].foreign
         /\ Visible(i, noUser, noStars) <=> ~ Hidden(i)
  BY DEF Resolves, Listed, Resolve, ProbedActivity, Visible, Hidden

LEMMA SyncKeepsQuiet ==
  ASSUME GithubInv,
         NEW noUser \in BOOLEAN, NEW noStars \in BOOLEAN, NEW badProbe \in SUBSET Item,
         Sync(noUser, noStars, badProbe)
  PROVE  QuietInv'
  <1>1. /\ Complete(noUser, noStars, badProbe) /\ config' = config /\ world' = world
    BY DEF Sync, Complete
  <1>2. \A i \in Item : QuietPrint(i)' = QuietPrint(i) /\ (Maintained(i))' = Maintained(i)
    BY <1>1 DEF QuietPrint, Hidden, ContentFingerprint, Resolves, Maintained
  <1> SUFFICES ASSUME NEW i \in Item, config.probe, Maintained(i), ~ news'[i]
               PROVE  /\ world[i].open /\ world[i].window
                      /\ ~ doubt'[i] => activity'[i] = world[i].foreign /\ fingerprints'[i] = QuietPrint(i)
    BY <1>1, <1>2 DEF QuietInv
  <1>3. world[i].open /\ world[i].window
    <2>1. CASE ~ news[i]
      BY <2>1 DEF GithubInv, QuietInv
    <2>2. CASE news[i]
      <3>1. Resolves(i) /\ Listed(i, noUser, noStars)
        BY <2>2, <1>1, CompleteTells
      <3> QED BY <3>1 DEF Resolves, Listed
    <2> QED BY <2>1, <2>2
  <1>4. ASSUME ~ doubt'[i]
        PROVE  activity'[i] = world[i].foreign /\ fingerprints'[i] = QuietPrint(i)
    <2>1. ~ noUser /\ ~ noStars /\ i \notin badProbe /\ (~ doProbe => ~ doubt[i])
      BY <1>4, <1>1, CompleteTells
    <2>2. ~ doProbe => ~ news[i]
      BY <1>1, CompleteTells
    <2>3. doProbe \/ activity[i] = world[i].foreign
      BY <2>1, <2>2 DEF GithubInv, QuietInv
    <2>4. /\ Resolves(i) /\ Listed(i, noUser, noStars)
          /\ Resolve(i, noUser, badProbe) = world[i].foreign
          /\ Visible(i, noUser, noStars) <=> ~ Hidden(i)
      BY <1>3, <2>1, <2>3, SyncIsQuiet
    <2> QED BY <2>4, <1>1, CompleteTells DEF QuietPrint
  <1> QED BY <1>3, <1>4

LEMMA SyncGithubInv ==
  ASSUME GithubInv,
         NEW noUser \in BOOLEAN, NEW noStars \in BOOLEAN, NEW badProbe \in SUBSET Item,
         Sync(noUser, noStars, badProbe)
  PROVE  GithubInv'
  <1>1. failedCalls' \in Nat /\ Complete(noUser, noStars, badProbe)
    BY FailuresCount DEF GithubInv, GithubTyped, Sync
  <1>2. GithubTyped'
    BY <1>1, CompleteTyped DEF GithubInv
  <1> QED BY <1>2, SyncEngaged, SyncKeepsQuiet DEF GithubInv

(* Something happens to an item: others are as they were, and it is either *)
(* news or nothing that a fingerprint with the probe shows.                *)
LEMMA WorldMoves ==
  ASSUME GithubInv, NEW i \in Item, NEW record \in World, Happens(i, record),
         world[i].foreign > 0 => record.foreign > 0,
         record.changes => world[i].changes \/ record.foreign > 0,
         NEW n \in BOOLEAN, news' = [news EXCEPT ![i] = n],
         \/ n
         \/ /\ n = news[i]
            /\ record.open = world[i].open /\ record.window = world[i].window
            /\ record.foreign = world[i].foreign /\ record.draft = world[i].draft
            /\ record.stale = world[i].stale /\ record.changes = world[i].changes
  PROVE  GithubInv'
  <1>1. /\ clock \in Nat /\ clock' = clock + 1 /\ world \in [Item -> World]
        /\ world' = [world EXCEPT ![i] = record] /\ config' = config
        /\ fingerprints' = fingerprints /\ activity' = activity /\ told' = told
        /\ doubt' = doubt /\ failedCalls' = failedCalls
    BY DEF GithubInv, GithubTyped, Happens, kept
  <1>2. GithubTyped'
    <2>1. world' \in [Item -> World] /\ clock' \in Nat
      BY <1>1
    <2>2. news' \in [Item -> BOOLEAN]
      BY DEF GithubInv, GithubTyped
    <2> QED BY <1>1, <2>1, <2>2 DEF GithubInv, GithubTyped
  <1>3. \A j \in Item :
          /\ j # i => world'[j] = world[j] /\ news'[j] = news[j]
          /\ j = i => world'[j] = record /\ news'[j] = n
    BY <1>1 DEF GithubInv, GithubTyped
  <1>4. \A j \in Item : world[j] \in World /\ world'[j] \in World
    BY <1>1, <1>2 DEF GithubTyped
  <1>5. EngagedInv'
    <2> SUFFICES ASSUME NEW j \in Item
                 PROVE  /\ world'[j].changes => world'[j].foreign > 0
                        /\ failedCalls = 0 /\ activity[j] > 0 => world'[j].foreign > 0
                        /\ failedCalls = 0 /\ j \in Own /\ Maintained(j) /\ told[j].surface
                             => world'[j].foreign > 0
      BY <1>1 DEF EngagedInv, Maintained
    <2>1. /\ world[j].foreign > 0 => world'[j].foreign > 0
          /\ world'[j].changes => world[j].changes \/ world'[j].foreign > 0
          /\ world[j].foreign \in Nat /\ world'[j].foreign \in Nat
      BY <1>3, <1>4 DEF World
    <2>2. /\ world[j].changes => world[j].foreign > 0
          /\ failedCalls = 0 /\ activity[j] > 0 => world[j].foreign > 0
          /\ failedCalls = 0 /\ j \in Own /\ Maintained(j) /\ told[j].surface
               => world[j].foreign > 0
      BY DEF GithubInv, EngagedInv
    <2> QED BY <2>1, <2>2
  <1>6. QuietInv'
    <2> SUFFICES ASSUME NEW j \in Item, config.probe, Maintained(j), ~ news'[j]
                 PROVE  /\ world'[j].open /\ world'[j].window
                        /\ ~ doubt[j] => activity[j] = world'[j].foreign
                                         /\ fingerprints[j] = QuietPrint(j)'
      BY <1>1 DEF QuietInv, Maintained
    <2>1. /\ world'[j].open = world[j].open /\ world'[j].window = world[j].window
          /\ world'[j].foreign = world[j].foreign /\ world'[j].draft = world[j].draft
          /\ world'[j].stale = world[j].stale /\ world'[j].changes = world[j].changes
          /\ ~ news[j]
      BY <1>3
    <2>2. /\ world[j].open /\ world[j].window
          /\ ~ doubt[j] => activity[j] = world[j].foreign /\ fingerprints[j] = QuietPrint(j)
      BY <2>1 DEF GithubInv, QuietInv
    <2>3. QuietPrint(j)' = QuietPrint(j)
      BY <1>1, <2>1, <2>2 DEF QuietPrint, Hidden, ContentFingerprint, Resolves, Maintained
    <2> QED BY <2>1, <2>2, <2>3
  <1> QED BY <1>2, <1>5, <1>6 DEF GithubInv

(* The things that happen, one record each.                                *)
LEMMA GithubMoves ==
  ASSUME GithubInv, NEW i \in Item,
         \/ UserComments(i) \/ ClosesOrReopens(i) \/ MarksDraftOrReady(i)
         \/ GoesStale(i) \/ FallsOut(i)
         \/ \E changes \in BOOLEAN : OtherEngages(i, changes)
  PROVE  GithubInv'
  <1> DEFINE w == world[i]
             t == clock + 1
  <1>1. w \in World /\ t \in Nat /\ t > 0 /\ news[i] \in BOOLEAN
    BY DEF GithubInv, GithubTyped
  <1>2. clock' = t => clock' = clock + 1
    OBVIOUS
  <1>3. CASE UserComments(i)
    <2> DEFINE x == [w EXCEPT !.own = t, !.updated = t, !.stale = FALSE]
    <2>1. /\ x \in World /\ x.open = w.open /\ x.window = w.window /\ x.foreign = w.foreign
          /\ x.draft = w.draft /\ x.stale = FALSE /\ x.changes = w.changes
      BY <1>1 DEF World
    <2>2. Happens(i, x) /\ news' = [news EXCEPT ![i] = news[i] \/ w.stale]
      BY <1>3 DEF UserComments, Happens, GithubInv, GithubTyped
    <2>3. w.stale \in BOOLEAN /\ w.foreign \in Nat
      BY <1>1 DEF World
    <2> HIDE DEF x
    <2>4. CASE news[i] \/ w.stale
      BY <2>4, <2>1, <2>2, <2>3, WorldMoves
    <2>5. CASE ~ news[i] /\ ~ w.stale
      BY <2>5, <1>1, <2>1, <2>2, <2>3, WorldMoves
    <2> QED BY <2>4, <2>5
  <1>4. ASSUME NEW x \in World, Happens(i, x), Tells(i), w.foreign > 0 => x.foreign > 0,
               x.changes => w.changes \/ x.foreign > 0
        PROVE  GithubInv'
    BY <1>4, WorldMoves DEF Tells
  <1>5. CASE ClosesOrReopens(i)
    <2> DEFINE x == [w EXCEPT !.open = ~ w.open, !.updated = t, !.stale = FALSE]
    <2>1. x \in World /\ x.foreign = w.foreign /\ x.changes = w.changes /\ w.foreign \in Nat
      BY <1>1 DEF World
    <2>2. Happens(i, x) /\ Tells(i)
      BY <1>5 DEF ClosesOrReopens, Happens
    <2> HIDE DEF x
    <2> QED BY <2>1, <2>2, <1>4
  <1>6. CASE MarksDraftOrReady(i)
    <2> DEFINE x == [w EXCEPT !.draft = ~ w.draft, !.updated = t, !.stale = FALSE]
    <2>1. x \in World /\ x.foreign = w.foreign /\ x.changes = w.changes /\ w.foreign \in Nat
      BY <1>1 DEF World
    <2>2. Happens(i, x) /\ Tells(i)
      BY <1>6 DEF MarksDraftOrReady, Happens
    <2> HIDE DEF x
    <2> QED BY <2>1, <2>2, <1>4
  <1>7. CASE GoesStale(i)
    <2> DEFINE x == [w EXCEPT !.stale = TRUE]
    <2>1. x \in World /\ x.foreign = w.foreign /\ x.changes = w.changes /\ w.foreign \in Nat
      BY <1>1 DEF World
    <2>2. Happens(i, x) /\ Tells(i)
      BY <1>7 DEF GoesStale, Happens
    <2> HIDE DEF x
    <2> QED BY <2>1, <2>2, <1>4
  <1>8. CASE FallsOut(i)
    <2> DEFINE x == [w EXCEPT !.window = FALSE]
    <2>1. x \in World /\ x.foreign = w.foreign /\ x.changes = w.changes /\ w.foreign \in Nat
      BY <1>1 DEF World
    <2>2. Happens(i, x) /\ Tells(i)
      BY <1>8 DEF FallsOut, Happens
    <2> HIDE DEF x
    <2> QED BY <2>1, <2>2, <1>4
  <1>9. ASSUME NEW c \in BOOLEAN, OtherEngages(i, c) PROVE GithubInv'
    <2> DEFINE x == [w EXCEPT !.foreign = t, !.updated = t, !.stale = FALSE,
                              !.changes = w.changes \/ c]
    <2>1. x \in World /\ x.foreign = t
      BY <1>1 DEF World
    <2>2. Happens(i, x) /\ Tells(i)
      BY <1>9 DEF OtherEngages, Happens
    <2> HIDE DEF x
    <2> QED BY <1>1, <2>1, <2>2, <1>4
  <1> QED BY <1>3, <1>5, <1>6, <1>7, <1>8, <1>9

LEMMA InitGithubInv == SourceInit => GithubInv
  <1> SUFFICES ASSUME SourceInit PROVE GithubInv
    OBVIOUS
  <1>1. /\ world = [i \in Item |-> [open |-> TRUE, own |-> 0, foreign |-> 0, updated |-> 0,
                     draft |-> FALSE, stale |-> FALSE, changes |-> FALSE, window |-> TRUE]]
        /\ clock = 0 /\ failedCalls = 0 /\ activity = [i \in Item |-> 0]
        /\ told = [i \in Item |-> ClosedEvent]
        /\ news = [i \in Item |-> TRUE] /\ doubt = [i \in Item |-> FALSE]
    BY DEF SourceInit
  <1>2. GithubTyped
    BY <1>1 DEF GithubTyped, World
  <1>3. EngagedInv
    <2>1. ClosedEvent.surface = FALSE
      BY DEF ClosedEvent, Event
    <2> QED BY <1>1, <2>1 DEF EngagedInv
  <1>4. QuietInv
    BY <1>1 DEF QuietInv
  <1> QED BY <1>2, <1>3, <1>4 DEF GithubInv

(* A call that gives up, time that passes, and a stutter change nothing    *)
(* the invariant speaks of but the count of failures.                      *)
LEMMA NothingTold ==
  ASSUME GithubInv, GiveUp \/ TimePasses \/ UNCHANGED sourceVars
  PROVE  GithubInv'
  <1>1. /\ config' = config /\ world' = world /\ clock' = clock /\ fingerprints' = fingerprints
        /\ activity' = activity /\ told' = told /\ news' = news /\ doubt' = doubt
        /\ failedCalls' \in {failedCalls, failedCalls + 1}
    BY DEF GiveUp, TimePasses, sourceVars, kept
  <1>2. failedCalls \in Nat
    BY DEF GithubInv, GithubTyped
  <1>3. GithubTyped'
    BY <1>1, <1>2 DEF GithubInv, GithubTyped
  <1>4. EngagedInv'
    BY <1>1, <1>2 DEF GithubInv, EngagedInv, Maintained
  <1>5. QuietInv'
    BY <1>1 DEF GithubInv, QuietInv, QuietPrint, Hidden, ContentFingerprint, Resolves, Maintained
  <1> QED BY <1>3, <1>4, <1>5 DEF GithubInv

LEMMA NextGithubInv ==
  GithubInv /\ [SourceNext]_(sourceVars) => GithubInv'
  <1> SUFFICES ASSUME GithubInv, [SourceNext]_(sourceVars) PROVE GithubInv'
    OBVIOUS
  <1> QED BY SyncGithubInv, GithubMoves, NothingTold DEF SourceNext

(* Only a call tells anything.                                             *)
LEMMA OnlyCallsTell ==
  ASSUME [SourceNext]_(sourceVars)
  PROVE  \/ told' = told
         \/ \E noUser, noStars \in BOOLEAN, badProbe \in SUBSET Item :
              Complete(noUser, noStars, badProbe)
  BY DEF SourceNext, sourceVars, kept, Sync, GiveUp, TimePasses, UserComments, ClosesOrReopens,
         MarksDraftOrReady, GoesStale, FallsOut, OtherEngages, Happens

LEMMA QuietStep ==
  ASSUME GithubInv, [SourceNext]_(sourceVars), NEW i \in Item,
         config.probe, Maintained(i), world[i].open, told'[i] # told[i]
  PROVE  news[i] \/ doubt[i] \/ doubt'[i]
  <1> SUFFICES ASSUME ~ news[i], ~ doubt[i], ~ doubt'[i] PROVE FALSE
    OBVIOUS
  <1>1. PICK noUser \in BOOLEAN, noStars \in BOOLEAN, badProbe \in SUBSET Item :
          Complete(noUser, noStars, badProbe)
    BY OnlyCallsTell
  <1>2. ~ noUser /\ ~ noStars /\ i \notin badProbe
    BY <1>1, CompleteTells
  <1>3. world[i].window /\ activity[i] = world[i].foreign /\ fingerprints[i] = QuietPrint(i)
    BY DEF GithubInv, QuietInv
  <1>4. /\ Resolve(i, noUser, badProbe) = world[i].foreign
        /\ Visible(i, noUser, noStars) <=> ~ Hidden(i)
    BY <1>2, <1>3, SyncIsQuiet
  <1>5. told'[i] = Tell(i, QuietPrint(i), Surfaces(i, world[i].foreign, noUser))
    BY <1>1, <1>4, CompleteTells DEF QuietPrint
  <1> QED BY <1>3, <1>5 DEF Tell

LEMMA ExplicitStep ==
  ASSUME GithubInv, [SourceNext]_(sourceVars), NEW i \in Item,
         Via[i] = "explicit", told[i].print # Unlisted, told'[i].print = Unlisted
  PROVE  ~ world[i].window \/ (config.excludeDrafts /\ world[i].draft)
  <1>1. PICK noUser \in BOOLEAN, noStars \in BOOLEAN, badProbe \in SUBSET Item :
          Complete(noUser, noStars, badProbe)
    BY OnlyCallsTell
  <1> DEFINE act == Resolve(i, noUser, badProbe)
             print == IF Visible(i, noUser, noStars) THEN ContentFingerprint(i, act) ELSE Unlisted
             surface == Surfaces(i, act, noUser)
  <1>2. told'[i] = Tell(i, print, surface)
    BY <1>1, CompleteTells
  <1>3. print = Unlisted
    <2> HIDE DEF print, surface
    <2>1. print # Unlisted => told'[i] = told[i] \/ told'[i] = Event(print, surface)
      BY <1>2 DEF Tell
    <2>2. Event(print, surface).print = print
      BY DEF Event
    <2> QED BY <2>1, <2>2
  <1>4. ContentFingerprint(i, act) # Unlisted
    <2>1. world[i] \in World /\ act \in Nat
      BY DEF GithubInv, GithubTyped, World, Resolve, ProbedActivity
    <2>2. ContentFingerprint(i, act) \in FingerprintSet
      BY <2>1 DEF World, ContentFingerprint, FingerprintSet
    <2> QED BY <2>2, SourceAssumption DEF SourceAssumption
  <1> QED BY <1>3, <1>4 DEF Visible, Listed

(* An open item of the user's own repositories, whatever the user does to  *)
(* it, moves only for others or for a call that failed (the activity probe *)
(* and computeContentFingerprint): for any set of items, any interval of   *)
(* the probe and any number of failedCalls calls.                              *)
THEOREM SelfStaysQuiet == SourceSpec => SelfActivityIsQuiet
  <1>1. SourceInit => GithubInv
    BY InitGithubInv
  <1>2. GithubInv /\ [SourceNext]_(sourceVars) => GithubInv'
    BY NextGithubInv
  <1>3. GithubInv /\ [SourceNext]_(sourceVars) =>
          [\A i \in Item :
             (config.probe /\ Maintained(i) /\ world[i].open /\ told'[i] # told[i])
               => (news[i] \/ doubt[i] \/ doubt'[i] \/ failedCalls' > failedCalls)]_(sourceVars)
    BY QuietStep
  <1> QED BY <1>1, <1>2, <1>3, PTL DEF SourceSpec, SelfActivityIsQuiet

(* The user's own maintained item asks for attention only once somebody    *)
(* else has engaged with it, or a call has failed (mapGhAttention).        *)
THEOREM OwnItemsWait == SourceSpec => []OwnItemsWaitForOthers
  <1>1. SourceInit => GithubInv
    BY InitGithubInv
  <1>2. GithubInv /\ [SourceNext]_(sourceVars) => GithubInv'
    BY NextGithubInv
  <1>3. GithubInv => OwnItemsWaitForOthers
    <2> SUFFICES ASSUME GithubInv, NEW i \in Own, Maintained(i), told[i].surface, failedCalls = 0
                 PROVE  world[i].foreign > 0
      BY DEF OwnItemsWaitForOthers, GithubInv, GithubTyped
    <2> QED BY SourceAssumption DEF GithubInv, EngagedInv, SourceAssumption
  <1> QED BY <1>1, <1>2, <1>3, PTL DEF SourceSpec

(* An item of an explicitly configured repository is reported closed only  *)
(* if the listing or a filter has lost it, whatever calls fail             *)
(* (listLiveRepositoryObjects does not need the user's name).              *)
THEOREM ExplicitStay == SourceSpec => ExplicitItemsAreNotLost
  <1>1. SourceInit => GithubInv
    BY InitGithubInv
  <1>2. GithubInv /\ [SourceNext]_(sourceVars) => GithubInv'
    BY NextGithubInv
  <1>3. GithubInv /\ [SourceNext]_(sourceVars) =>
          [\A i \in Item :
             (Via[i] = "explicit" /\ told[i].print # Unlisted /\ told'[i].print = Unlisted)
               => (~ world[i].window \/ (config.excludeDrafts /\ world[i].draft))]_(sourceVars)
    BY ExplicitStep
  <1> QED BY <1>1, <1>2, <1>3, PTL DEF SourceSpec, ExplicitItemsAreNotLost
=============================================================================
