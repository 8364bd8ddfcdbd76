------------------------------- MODULE FixJob -------------------------------
(***************************************************************************)
(* One fix job from its creation to its pull request: the fix effect and   *)
(* its progress events, the probes that look for a pull request opened     *)
(* later (fixDetect in host/effects.js), whether the scheduler              *)
(* (schedulePrChecks) or the user (job attach) asks for them, and the row  *)
(* they all write (upsertJob).  It runs on the daemon's event loop.        *)
(*                                                                         *)
(* How long a probe is put off is a constant; that the delay doubles up to *)
(* the poll interval is Backoff's PrCheckDelay.                            *)
(***************************************************************************)
EXTENDS Integers, Sequences, FiniteSets

CONSTANTS
  MaxProbes,    \* bound on probes
  MaxAttaches,  \* bound on attach commands
  PutOff,       \* delay until the next probe
  MaxAttempts, RetryAfter, MaxConcurrency,  \* see EventLoop
  MaxMisses,    \* bound on probes that overlook the pull request or fail
  MaxFaults,    \* bound on transactions that fail
  MaxCrashes    \* bound on daemon deaths

Probe == 1..MaxProbes
Attach == 1..MaxAttaches
Progress == {"preparing", "running_agent", "submitting"}

Evt(type, by) == [type |-> type, by |-> by]
JobCreated == Evt("created", 0)
JobProgress(phase) == Evt(phase, 0)
Waits(n) == Evt("waits", n)       \* of the fix, n = 0, or of a probe
Closes(ok, n) == Evt(IF ok THEN "succeeded" ELSE "failed", n)
Attaches(c) == Evt("attach", c)
Settled(ok) == Evt(IF ok THEN "handled" ELSE "action_error", 0)

JobEvent ==
  UNION { {JobCreated, Closes(FALSE, 0), Settled(TRUE), Settled(FALSE)},
          {JobProgress(p) : p \in Progress},
          {Waits(n) : n \in Probe \cup {0}},
          {Closes(TRUE, n) : n \in Probe \cup {0}},
          {Attaches(c) : c \in Attach} }

(* Effects: the fix is number 0, a probe has its own.                      *)
FixEffect == 0

IsSettlement(e) == e.type \in {"handled", "action_error"}

VARIABLES
  log, queue, pendingEffects, inFlight, pc,  \* see EventLoop
  job,       \* jobs table: status, phase and next_check_at - now
  fixing,    \* in memory: how far the fix effect is
  pull,      \* the pull request is there to be found
  probes, attaches,           \* how many there have been
  misses, faults, crashes,    \* history
  closed,    \* history: job.closed has been folded
  strayed    \* history: a progress event had to be tried again

INSTANCE EventLoop WITH
  Event <- JobEvent, Effect <- {FixEffect} \cup Probe, NoKey <- "none",
  Key <- [e \in JobEvent |-> IF IsSettlement(e) THEN e.type ELSE "none"],
  Lane <- [e \in JobEvent |-> IF e.type = "attach" THEN 0 ELSE 1],
  Depth <- [e \in JobEvent |-> CASE e.type = "created" -> 1 [] IsSettlement(e) -> 3 [] OTHER -> 2],
  Hold <- [e \in JobEvent |-> 0], MaxDepth <- 32

ASSUME FixJobAssumption ==
  /\ LoopAssumption
  /\ MaxProbes \in Nat /\ MaxAttaches \in Nat /\ PutOff \in Nat \ {0}
  /\ MaxMisses \in Nat /\ MaxFaults \in Nat /\ MaxCrashes \in Nat

counters == <<probes, attaches, misses, faults, crashes>>
vars == <<log, queue, pendingEffects, inFlight, pc, job, fixing, pull, counters, closed, strayed>>

Waiting == job.status = "running" /\ job.phase = "waiting_for_pr"

-----------------------------------------------------------------------------
(* Folding                                                                 *)

ProjectStatusOnly(e) ==  \* mutant: a probe's update is thought to change nothing but the status
  CASE e.type = "created" -> [job EXCEPT !.status = "queued", !.phase = "pending"]
    [] e.type = "waits" /\ e.by > 0 -> [job EXCEPT !.status = "running"]
    [] e.type = "waits" ->
         [status |-> "running", phase |-> "waiting_for_pr", next |-> PutOff]
    [] e.type \in {"succeeded", "failed"} ->
         [status |-> e.type, phase |-> e.type, next |-> -1]
    [] e.type \in Progress -> [job EXCEPT !.status = "running", !.phase = e.type]
    [] OTHER -> job

(* upsertJob: created once; an update takes what the event carries, even   *)
(* on a closed job; a closing leaves the probe rotation (-1 is null).      *)
Project(e) ==
  CASE e.type = "created" -> [job EXCEPT !.status = "queued", !.phase = "pending"]
    [] e.type = "waits" ->
         [status |-> "running", phase |-> "waiting_for_pr", next |-> PutOff]
    [] e.type \in {"succeeded", "failed"} ->
         [status |-> e.type, phase |-> e.type, next |-> -1]
    [] e.type \in Progress -> [job EXCEPT !.status = "running", !.phase = e.type]
    [] OTHER -> job

Upsert(e) ==
  /\ job' = Project(e)
  /\ closed' = (closed \/ e.type \in {"succeeded", "failed"})

FoldWithoutSettling(e) ==  \* mutant: maybeSettle leaves it to the actions
  /\ NextDue(e)
  /\ Commit(e, {},
       CASE e.type = "created" -> <<FixEffect>>
         [] e.type = "attach" /\ probes < MaxProbes -> <<probes + 1>>
         [] OTHER -> <<>>)
  /\ Upsert(e)
  /\ probes' = IF e.type = "attach" /\ probes < MaxProbes THEN probes + 1 ELSE probes
  /\ UNCHANGED <<fixing, pull, attaches, misses, faults, crashes, strayed>>

(* projectHandler with what comes after it: dispatchJob, maybeAttach,      *)
(* maybeSettle (of a job without actions).                                 *)
Fold(e) ==
  /\ NextDue(e)
  /\ Commit(e,
       IF e.type \in {"succeeded", "failed"} THEN {Settled(e.type = "succeeded")} ELSE {},
       CASE e.type = "created" -> <<FixEffect>>
         [] e.type = "attach" /\ probes < MaxProbes -> <<probes + 1>>
         [] OTHER -> <<>>)
  /\ Upsert(e)
  /\ probes' = IF e.type = "attach" /\ probes < MaxProbes THEN probes + 1 ELSE probes
  /\ UNCHANGED <<fixing, pull, attaches, misses, faults, crashes, strayed>>

Fail(e) ==
  /\ faults < MaxFaults
  /\ NextDue(e)
  /\ RecordFailure(e)
  /\ faults' = faults + 1
  /\ strayed' = (strayed \/ e.type \in Progress)
  /\ UNCHANGED <<job, fixing, pull, probes, attaches, misses, crashes, closed>>

-----------------------------------------------------------------------------
(* The fix effect                                                          *)

Follows(phase) ==
  CASE phase = "preparing" -> "start" [] phase = "running_agent" -> "preparing"
    [] phase = "submitting" -> "running_agent"

(* Processes have run since the effect last spoke, so its events have      *)
(* different timestamps.                                                   *)
TimeHasPassed ==
  \A p \in Progress : ~ (Pending(JobProgress(p)) /\ queue[JobProgress(p)].wait = 0)

(* It says what it is about to do, then waits for the plugin or the agent. *)
FixProgresses(phase) ==
  /\ fixing = Follows(phase) /\ TimeHasPassed
  /\ EffectEmits(FixEffect, JobProgress(phase))
  /\ fixing' = phase
  /\ UNCHANGED <<job, pull, counters, closed, strayed>>

FixReturns(e) ==
  /\ TimeHasPassed
  /\ EffectReturns(FixEffect, e)
  /\ fixing' = "start"
  /\ UNCHANGED <<job, counters, closed, strayed>>

(* The plugin has submitted: the pull request is open, or there is nothing *)
(* to change, or it is to open later.                                      *)
FixSucceeds == fixing = "submitting" /\ FixReturns(Closes(TRUE, 0)) /\ UNCHANGED pull
FixWaits == fixing = "submitting" /\ FixReturns(Waits(0)) /\ UNCHANGED pull

FixFailsSilently ==  \* mutant: the catch reports nothing
  /\ fixing # "start"
  /\ EffectSettles(FixEffect)
  /\ fixing' = "start"
  /\ UNCHANGED <<job, pull, counters, closed, strayed>>

(* Preparation, the agent or the submission fails or throws.               *)
FixFails == fixing # "start" /\ FixReturns(Closes(FALSE, 0)) /\ UNCHANGED pull

(* What no-mistakes or a reviewer does in their own time.                  *)
PullRequestAppears ==
  /\ Waits(0) \in log /\ ~ pull
  /\ pull' = TRUE
  /\ UNCHANGED <<log, queue, pendingEffects, inFlight, pc, job, fixing, counters, closed, strayed>>

-----------------------------------------------------------------------------
(* Probes                                                                  *)

(* launchEffect: the probe joins the backlog, which is pumped at once.     *)
LaunchEffect(n) == Pump(Append(pendingEffects, n), inFlight)

ScheduleOnce ==  \* mutant: the claim clears the clock and null is not due
  /\ pc = "idle" /\ Waiting /\ job.next = 0
  /\ probes < MaxProbes
  /\ job' = [job EXCEPT !.next = -1]
  /\ LaunchEffect(probes + 1)
  /\ probes' = probes + 1
  /\ UNCHANGED <<log, queue, pc, fixing, pull, attaches, misses, faults, crashes, closed, strayed>>

(* schedulePrChecks, from every tick: selectJobsDueForPrCheck, the claim,  *)
(* the launch.                                                             *)
Schedule ==
  /\ pc = "idle" /\ Waiting /\ job.next <= 0
  /\ probes < MaxProbes
  /\ job' = [job EXCEPT !.next = PutOff]
  /\ LaunchEffect(probes + 1)
  /\ probes' = probes + 1
  /\ UNCHANGED <<log, queue, pc, fixing, pull, attaches, misses, faults, crashes, closed, strayed>>

(* job attach: another process looks at the row, then asks.                *)
AttachCommand ==
  /\ job.phase = "waiting_for_pr"
  /\ attaches < MaxAttaches
  /\ attaches' = attaches + 1
  /\ Enqueue({Attaches(attaches')})
  /\ UNCHANGED <<pendingEffects, inFlight, pc, job, fixing, pull, probes, misses, faults, crashes, closed, strayed>>

(* fixDetect finds the pull request; the row is not looked at again.       *)
ProbeFinds(n) ==
  /\ pull
  /\ EffectReturns(n, Closes(TRUE, n))
  /\ UNCHANGED <<job, fixing, pull, counters, closed, strayed>>

(* ... or not, because it is not there or because gh fails, which counts   *)
(* as the same.                                                            *)
ProbeMisses(n) ==
  /\ EffectReturns(n, Waits(n))
  /\ pull => misses < MaxMisses
  /\ misses' = IF pull THEN misses + 1 ELSE misses
  /\ UNCHANGED <<job, fixing, pull, probes, attaches, faults, crashes, closed, strayed>>

(* The plugin fails: the effect throws and leaves nothing but the claim.   *)
ProbeThrows(n) ==
  /\ misses < MaxMisses
  /\ EffectSettles(n)
  /\ misses' = misses + 1
  /\ UNCHANGED <<job, fixing, pull, probes, attaches, faults, crashes, closed, strayed>>

-----------------------------------------------------------------------------
(* The daemon                                                              *)

rest == <<job, fixing, pull, counters, closed, strayed>>
Begin == BeginBatch /\ UNCHANGED rest
Finish == EndBatch /\ UNCHANGED rest
Recover == Restart /\ UNCHANGED rest

Pass ==
  /\ job.next > 0 \/ \E e \in JobEvent : Pending(e) /\ queue[e].wait > 0
  /\ queue' = [e \in JobEvent |->
       IF Pending(e) THEN [queue[e] EXCEPT !.wait = @ - 1] ELSE queue[e]]
  /\ job' = [job EXCEPT !.next = IF @ > 0 THEN @ - 1 ELSE @]
  /\ UNCHANGED <<log, pendingEffects, inFlight, pc, fixing, pull, counters, closed, strayed>>

Crash ==
  /\ crashes < MaxCrashes
  /\ Halt
  /\ fixing' = "start"
  /\ crashes' = crashes + 1
  /\ UNCHANGED <<log, queue, job, pull, probes, attaches, misses, faults, closed, strayed>>

(* fanOut has queued the job.                                              *)
Init ==
  /\ log = {JobCreated}
  /\ queue = [e \in JobEvent |-> IF e = JobCreated THEN FreshRow(e) ELSE NoRow]
  /\ pendingEffects = <<>> /\ inFlight = {} /\ pc = "idle"
  /\ job = [status |-> "none", phase |-> "none", next |-> -1]
  /\ fixing = "start" /\ pull = FALSE /\ closed = FALSE /\ strayed = FALSE
  /\ probes = 0 /\ attaches = 0 /\ misses = 0 /\ faults = 0 /\ crashes = 0

FixEnds == FixSucceeds \/ FixWaits \/ FixFails
ProbeEnds(n) == ProbeFinds(n) \/ ProbeMisses(n) \/ ProbeThrows(n)

Next ==
  \/ \E e \in JobEvent : Fold(e) \/ Fail(e)
  \/ \E phase \in Progress : FixProgresses(phase)
  \/ FixSucceeds \/ FixWaits \/ FixFails \/ PullRequestAppears
  \/ Schedule \/ AttachCommand
  \/ \E n \in Probe : ProbeFinds(n) \/ ProbeMisses(n) \/ ProbeThrows(n)
  \/ Begin \/ Finish \/ Pass \/ Crash \/ Recover

(* The loop turns and ticks, time passes, the daemon is started again.     *)
(* That agents and plugins end is assumed of them, for the host sets them  *)
(* no limit; nobody has to open a pull request or attach.                  *)
Fairness ==
  /\ WF_vars(Begin) /\ WF_vars(Finish) /\ WF_vars(Pass) /\ WF_vars(Recover)
  /\ WF_vars(\E e \in JobEvent : Fold(e)) /\ WF_vars(Schedule)
  /\ WF_vars(FixEnds \/ \E phase \in Progress : FixProgresses(phase))
  /\ \A n \in Probe : WF_vars(ProbeEnds(n))

Spec == Init /\ [][Next]_vars

FairSpec == Spec /\ Fairness

-----------------------------------------------------------------------------
(* Properties                                                              *)

(* While the daemon lives, an open job that does not wait for its pull     *)
(* request has somebody to finish it: the fix effect, asked for or under   *)
(* way, or an event of it on the queue (fix reports in every path), if     *)
(* only as the dead letter that `status' shows.                            *)
OpenJobHasACarrier ==
  job.status \in {"queued", "running"} /\ job.phase # "waiting_for_pr" /\ crashes = 0 /\ ~ strayed =>
    \/ FixEffect \in inFlight
    \/ \E i \in 1..Len(pendingEffects) : pendingEffects[i] = FixEffect
    \/ \E e \in {Waits(0), Closes(TRUE, 0), Closes(FALSE, 0)} : Pending(e) \/ Dead(e)

(* A closed job that a late answer of a probe sets running again is back   *)
(* in the rotation, where it will be closed again.  Retried progress       *)
(* events are excepted: they leave the rotation with the job.              *)
ReopenedOnlyIntoRotation ==
  closed /\ job.status = "running" /\ ~ strayed => Waiting /\ job.next >= 0

(* A waiting job is probed again and again, over failing probes and dead   *)
(* daemons, until it is closed ("there is no give-up"; MaxProbes bounds    *)
(* the model).                                                             *)
KeepsProbing ==
  \A n \in 0..(MaxProbes - 1) : (Waiting /\ probes = n) ~> (~ Waiting \/ probes > n)

(* A pull request that is there closes the job and settles the item.       *)
FoundInTheEnd ==
  (Waiting /\ pull) ~> (Settled(TRUE) \in log \/ probes = MaxProbes \/ strayed)
=============================================================================
