---------------------------- MODULE GithubSource ----------------------------
(***************************************************************************)
(* The GitHub plugin's sync (plugins/github/m87-src-github.js): which of   *)
(* the user's issues and pull requests it lists, the fingerprint each gets *)
(* with or without the activity probe, the attention it asks for, and the  *)
(* diff against the baseline that core hands back.  What it keeps between  *)
(* two calls rides in that baseline (@probe_meta).                         *)
(*                                                                         *)
(* A call is atomic here; how calls overlap, fail to be recorded and meet  *)
(* the permanent keys is Sync's matter.  Timestamps are counted, 0 being   *)
(* null.                                                                   *)
(***************************************************************************)
EXTENDS Integers, FiniteSets

CONSTANTS
  Item,        \* issues and pull requests
  Via,         \* [Item -> {"explicit", "owned", "authored"}], how it is found
  Own,         \* items the user opened
  Pulls,       \* items that are pull requests
  Unlisted,    \* no fingerprint: not listed, or filtered out
  ProbeEvery,  \* activity_probe_interval
  MaxClock,    \* bound on what happens to the items
  MaxFaults    \* bound on failing calls of gh

FingerprintSet == [open : BOOLEAN, stale : BOOLEAN, changes : BOOLEAN,
                   by : {"foreign", "updated"}, at : Nat]

ASSUME SourceAssumption ==
  /\ IsFiniteSet(Item)
  /\ Via \in [Item -> {"explicit", "owned", "authored"}]
  /\ Own \subseteq Item /\ Pulls \subseteq Item
  /\ \A i \in Item : Via[i] = "authored" => i \in Own
  /\ Unlisted \notin FingerprintSet
  /\ ProbeEvery \in Nat /\ MaxClock \in Nat /\ MaxFaults \in Nat

VARIABLES
  config,        \* activity_probe and exclude_drafts
  world,         \* [Item -> what GitHub says of it]
  clock,         \* the latest timestamp
  fingerprints,  \* the baseline, [Item -> fingerprint or Unlisted]
  activity,      \* @probe_meta: what the last probe found
  sinceProbe,    \* @probe_meta: now - last_probe_at, ProbeEvery if there is none
  told,          \* [Item -> the last event about it]: print and attention
  news,          \* history: somebody else did something no probe has looked for
  doubt,         \* history: activity comes from a call that failed
  failedCalls    \* history

kept == <<fingerprints, activity, sinceProbe, told>>
sourceVars == <<config, world, clock, kept, news, doubt, failedCalls>>

Maintained(i) == Via[i] # "authored"

-----------------------------------------------------------------------------
(* GitHub                                                                  *)

Happens(i, record) ==
  /\ clock < MaxClock
  /\ clock' = clock + 1
  /\ world' = [world EXCEPT ![i] = record]
  /\ UNCHANGED <<config, kept, doubt, failedCalls>>

Tells(i) == news' = [news EXCEPT ![i] = TRUE]

(* The user comments.  That wakes a stale item.                            *)
UserComments(i) ==
  /\ world[i].open
  /\ Happens(i, [world[i] EXCEPT !.own = clock', !.updated = clock', !.stale = FALSE])
  /\ news' = [news EXCEPT ![i] = @ \/ world[i].stale]

(* Somebody else comments, or reviews.                                     *)
OtherEngages(i, changes) ==
  /\ world[i].open /\ (changes => i \in Pulls)
  /\ Happens(i, [world[i] EXCEPT !.foreign = clock', !.updated = clock', !.stale = FALSE,
                                 !.changes = @ \/ changes])
  /\ Tells(i)

ClosesOrReopens(i) ==
  /\ Happens(i, [world[i] EXCEPT !.open = ~ @, !.updated = clock', !.stale = FALSE])
  /\ Tells(i)

MarksDraftOrReady(i) ==
  /\ i \in Pulls
  /\ Happens(i, [world[i] EXCEPT !.draft = ~ @, !.updated = clock', !.stale = FALSE])
  /\ Tells(i)

(* Idle for longer than stale_threshold.                                   *)
GoesStale(i) ==
  /\ world[i].open /\ ~ world[i].stale
  /\ Happens(i, [world[i] EXCEPT !.stale = TRUE])
  /\ Tells(i)

(* Others are updated after it: it leaves the first sync_limit_per_repo,   *)
(* or the lookback of the search.                                          *)
FallsOut(i) ==
  /\ world[i].window
  /\ Happens(i, [world[i] EXCEPT !.window = FALSE])
  /\ Tells(i)

-----------------------------------------------------------------------------
(* What a call sees.  noUser: gh api user failed; noStars: the discovery   *)
(* of repositories failed quietly; badProbe: items whose view failed.      *)

ListedIfDiscoveredOnly(i, noUser, noStars) ==  \* mutant: no list without a name
  world[i].window /\ ~ noUser /\ (Via[i] = "owned" => ~ noStars)

(* listLiveRepositoryObjects of explicit and discovered repositories, and  *)
(* listAuthoredObjects for the rest; the latter two need the user's name.  *)
Listed(i, noUser, noStars) ==
  /\ world[i].window
  /\ Via[i] = "owned" => ~ noUser /\ ~ noStars
  /\ Via[i] = "authored" => ~ noUser

(* probeItemActivity and latestForeignActivityAt: the latest comment or    *)
(* review that is not the user's; without a name everybody is somebody     *)
(* else; a failure counts as no activity.                                  *)
ProbedActivity(i, noUser, badProbe) ==
  CASE i \in badProbe -> 0
    [] i \notin badProbe /\ noUser /\ world[i].own > world[i].foreign -> world[i].own
    [] OTHER -> world[i].foreign

doProbe == config.probe /\ sinceProbe >= ProbeEvery

Resolves(i) == config.probe /\ Maintained(i) /\ world[i].open

ResolveUncached(i, noUser, badProbe) ==  \* mutant: nothing is carried over
  IF doProbe THEN ProbedActivity(i, noUser, badProbe) ELSE 0

ResolveOnce(i, noUser, badProbe) ==  \* mutant: what was found once is never looked up again
  IF doProbe /\ activity[i] = 0 THEN ProbedActivity(i, noUser, badProbe) ELSE activity[i]

(* resolveActivity: probed afresh, or as the last probe left it.           *)
Resolve(i, noUser, badProbe) ==
  IF doProbe THEN ProbedActivity(i, noUser, badProbe) ELSE activity[i]

(* computeContentFingerprint: with the probe, foreign activity stands in   *)
(* for updatedAt and the comments.                                         *)
ContentFingerprint(i, act) ==
  [open |-> world[i].open, stale |-> world[i].stale, changes |-> world[i].changes,
   by |-> IF Resolves(i) THEN "foreign" ELSE "updated",
   at |-> IF Resolves(i) THEN act ELSE world[i].updated]

(* mapGhAttention: should_surface.                                         *)
SurfacesOwn(i, act, noUser) ==  \* mutant: the user's own items count as others'
  world[i].open

Surfaces(i, act, noUser) ==
  /\ world[i].open
  /\ \/ i \in Pulls /\ i \in Own /\ ~ noUser /\ world[i].changes
     \/ ~ Maintained(i)
     \/ i \in Own /\ ~ noUser => Resolves(i) /\ act > 0

(* The filters on drafts, titles and age come after the listing.           *)
Visible(i, noUser, noStars) ==
  Listed(i, noUser, noStars) /\ ~ (config.excludeDrafts /\ world[i].draft)

-----------------------------------------------------------------------------

Event(print, surface) == [print |-> print, surface |-> surface]

ClosedEvent == Event(Unlisted, FALSE)

(* diff: what the last event about an item is after the call.              *)
Tell(i, print, surface) ==
  IF fingerprints[i] = print THEN told[i]
  ELSE IF print = Unlisted THEN ClosedEvent
  ELSE Event(print, surface)

(* syncGithubSource, when it completes.                                    *)
Complete(noUser, noStars, badProbe) ==
  LET act == [i \in Item |-> Resolve(i, noUser, badProbe)]
      print == [i \in Item |-> IF Visible(i, noUser, noStars)
                                 THEN ContentFingerprint(i, act[i]) ELSE Unlisted]
      listed == {i \in Item : Resolves(i) /\ Listed(i, noUser, noStars)}
      surface == [i \in Item |-> Surfaces(i, act[i], noUser)] IN
  /\ fingerprints' = print
  /\ told' = [i \in Item |-> Tell(i, print[i], surface[i])]
  /\ activity' = [i \in Item |-> IF i \in listed THEN act[i] ELSE 0]
  /\ sinceProbe' = IF doProbe THEN 0 ELSE sinceProbe
  /\ news' = [i \in Item |-> news[i] /\ ~ (doProbe /\ i \in listed)]
  /\ doubt' = [i \in Item |-> noUser \/ noStars \/ i \in badProbe \/ (~ doProbe /\ doubt[i])]
  /\ UNCHANGED <<config, world, clock>>

Sync(noUser, noStars, badProbe) ==
  LET n == Cardinality(badProbe) + (IF noUser THEN 1 ELSE 0) + (IF noStars THEN 1 ELSE 0) IN
  /\ badProbe # {} => doProbe
  /\ failedCalls + n <= MaxFaults
  /\ failedCalls' = failedCalls + n
  /\ Complete(noUser, noStars, badProbe)

(* auth status, or a listing, fails: no events, and the baseline as it was.*)
GiveUp ==
  /\ failedCalls < MaxFaults
  /\ failedCalls' = failedCalls + 1
  /\ UNCHANGED <<config, world, clock, kept, news, doubt>>

TimePasses ==
  /\ sinceProbe < ProbeEvery
  /\ sinceProbe' = sinceProbe + 1
  /\ UNCHANGED <<config, world, clock, fingerprints, activity, told, news, doubt, failedCalls>>

SourceInit ==
  /\ config \in [probe : BOOLEAN, excludeDrafts : BOOLEAN]
  /\ world = [i \in Item |-> [open |-> TRUE, own |-> 0, foreign |-> 0, updated |-> 0,
                draft |-> FALSE, stale |-> FALSE, changes |-> FALSE, window |-> TRUE]]
  /\ clock = 0
  /\ fingerprints = [i \in Item |-> Unlisted]
  /\ activity = [i \in Item |-> 0]
  /\ sinceProbe = ProbeEvery
  /\ told = [i \in Item |-> ClosedEvent]
  /\ news = [i \in Item |-> TRUE]
  /\ doubt = [i \in Item |-> FALSE]
  /\ failedCalls = 0

SourceNext ==
  \/ \E i \in Item :
       \/ UserComments(i) \/ ClosesOrReopens(i) \/ MarksDraftOrReady(i)
       \/ GoesStale(i) \/ FallsOut(i)
       \/ \E changes \in BOOLEAN : OtherEngages(i, changes)
  \/ \E noUser, noStars \in BOOLEAN, badProbe \in SUBSET Item : Sync(noUser, noStars, badProbe)
  \/ GiveUp
  \/ TimePasses

(* Core asks again and again, and time passes.                             *)
SourceFairness == WF_sourceVars(Sync(FALSE, FALSE, {})) /\ WF_sourceVars(TimePasses)

SourceSpec == SourceInit /\ [][SourceNext]_sourceVars

FairSourceSpec == SourceSpec /\ SourceFairness

-----------------------------------------------------------------------------
(* Properties                                                              *)

(* "So self-activity never re-triages" (the plugin, of the probe): while   *)
(* it is on, an open item in a repository of the user's moves only if      *)
(* somebody else has done something since the last probe, or a call has    *)
(* failed in this round or in the one before.                              *)
SelfActivityIsQuiet ==
  [][\A i \in Item :
       (config.probe /\ Maintained(i) /\ world[i].open /\ told'[i] # told[i])
         => (news[i] \/ doubt[i] \/ doubt'[i] \/ failedCalls' > failedCalls)]_sourceVars

(* The user's own maintained item is put before the user only if somebody  *)
(* else has engaged with it, or the user's name was not to be had.         *)
OwnItemsWaitForOthers ==
  \A i \in Own : Maintained(i) /\ told[i].surface => world[i].foreign > 0 \/ failedCalls > 0

(* Whatever calls of gh fail, an item of an explicitly configured          *)
(* repository is reported closed only if the listing or a filter has lost  *)
(* it.                                                                     *)
ExplicitItemsAreNotLost ==
  [][\A i \in Item :
       (Via[i] = "explicit" /\ told[i].print # Unlisted /\ told'[i].print = Unlisted)
         => (~ world[i].window \/ (config.excludeDrafts /\ world[i].draft))]_sourceVars

(* What somebody else says is told, unless the item leaves the listing.    *)
OthersAreHeard ==
  \A i \in Item, t \in 1..MaxClock :
    (world[i].open /\ world[i].foreign = t) ~>
      \/ ~ world[i].open \/ ~ world[i].window \/ (config.excludeDrafts /\ world[i].draft)
      \/ told[i].print # Unlisted /\ told[i].print.at >= t
=============================================================================
