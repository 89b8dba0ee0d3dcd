------------------------------ MODULE DiffEngine ------------------------------
(***************************************************************************)
(* One exchange's polling cycle around the diff engine, one poll at a      *)
(* time: ingester.Runner.RunAdapter (internal/ingester/runner.go) loads    *)
(* the stored rails, lets diff.Engine decide, writes rows and events in    *)
(* one transaction, and commits or rolls back.  The engine's tallies live  *)
(* in memory: they are changed before the transaction commits, survive its *)
(* rollback, and are lost by a restart of the process.                     *)
(***************************************************************************)
EXTENDS RailDiff

CONSTANTS
  Keys,        (* the (coin, chain) pairs of the exchange                  *)
  Unlisted,    (* the exchange does not list the key now                   *)
  MaxTime,     (* bound: the clock's last value                            *)
  MaxMissing,  (* bound: complete polls that count one absence after another *)
  MaxFailures, (* bound: polls whose transaction does not commit           *)
  MaxRestarts  (* bound: restarts of the ingester                          *)

ASSUME BoundsAreNumbers ==
  /\ MaxTime \in Nat /\ MaxMissing \in Nat
  /\ MaxFailures \in Nat /\ MaxRestarts \in Nat
ASSUME UnlistedIsNoObservation == Unlisted \notin Observation

VARIABLES
  source,   (* what the exchange's API says of each key                    *)
  now,      (* the clock that stamps observations and events               *)
  rails,    (* table rails                                                 *)
  baseline, (* Engine.baseline                                             *)
  pending,  (* Engine.status                                               *)
  last,     (* what the last step was: kind of poll, keys seen, events     *)
  failures, (* polls rolled back so far                                    *)
  restarts, (* restarts so far                                             *)
  told,     (* history: the row as the last event or the baseline told it  *)
  streak,   (* history: equal observations in a row, by this process       *)
  gone      (* history: complete polls in a row without the key            *)

table   == <<rails, told>>
memory  == <<baseline, pending>>
history == <<streak, gone>>
vars    == <<source, now, rails, baseline, pending, last, failures, restarts,
             told, streak, gone>>

Streak   == [target : Status, n : 0..Confirmations, since : Nat]
NoStreak == [target |-> AllOff, n |-> 0, since |-> 0]

NoEvents == [k \in Keys |-> {}]
Quiet    == [kind |-> "none", seen |-> {}, events |-> NoEvents]

TypeOK ==
  /\ source \in [Keys -> Observation \cup {Unlisted}]
  /\ now \in Nat
  /\ rails \in [Keys -> Rail \cup {NoRail}]
  /\ baseline \in [Keys -> PendingBaseline]
  /\ pending \in [Keys -> PendingStatus]
  /\ \A k \in Keys : pending[k].count < Confirmations
  /\ last.kind \in {"none", "partial", "complete", "failed"}
  /\ last.seen \subseteq Keys
  /\ \A k \in Keys : last.events[k] \subseteq Event
  /\ failures \in Nat /\ restarts \in Nat
  /\ told \in [Keys -> Rail \cup {NoRail}]
  /\ streak \in [Keys -> Streak]
  /\ gone \in [Keys -> 0..DelistThreshold]

Init ==
  /\ source \in [Keys -> Observation \cup {Unlisted}]
  /\ now = 0
  /\ rails = [k \in Keys |-> NoRail]
  /\ baseline = [k \in Keys |-> NoBaseline]
  /\ pending = [k \in Keys |-> NoPending]
  /\ last = Quiet
  /\ failures = 0 /\ restarts = 0
  /\ told = [k \in Keys |-> NoRail]
  /\ streak = [k \in Keys |-> NoStreak]
  /\ gone = [k \in Keys |-> 0]

(* The exchange closes, opens, reprices, drops or lists a rail. *)
SourceChanges(k) ==
  /\ source' \in {[source EXCEPT ![k] = s] : s \in Observation \cup {Unlisted}}
  /\ last' = Quiet
  /\ UNCHANGED <<now, table, memory, failures, restarts, history>>

-----------------------------------------------------------------------------
(* A poll *)

Listed == {k \in Keys : source[k] # Unlisted}

(* A complete fetch sees every listed rail, a partial one some of them. *)
Fetched(seen, complete) == IF complete THEN seen = Listed ELSE seen \subseteq Listed

(* Time does not run backwards; two polls may carry the same stamp. *)
Tick == now' \in {now, now + 1} /\ now' <= MaxTime

Within(k, seen, complete) ==
  complete /\ k \notin seen /\ rails[k] # NoRail => rails[k].missingCount < MaxMissing

Decided(k, seen, complete, t) ==
  Diff(rails[k], baseline[k], pending[k], k \in seen, source[k], complete, t)

(* Engine.Diff changes its maps as it goes, whatever becomes of its result. *)
Remember(seen, complete) ==
  /\ baseline' = [k \in Keys |-> Decided(k, seen, complete, now').baseline]
  /\ pending'  = [k \in Keys |-> Decided(k, seen, complete, now').pending]

AtMost(n, cap) == IF n < cap THEN n ELSE cap

(* The run of equal observations a key is in, as this process sees it. *)
StreakAfter(run, listed, obs, complete, t) ==
  IF listed
  THEN IF run.n > 0 /\ run.target = obs.status
       THEN [run EXCEPT !.n = AtMost(@ + 1, Confirmations)]
       ELSE [target |-> obs.status, n |-> 1, since |-> t]
  ELSE IF complete THEN NoStreak ELSE run

Observe(seen, complete) ==
  /\ streak' = [k \in Keys |->
       StreakAfter(streak[k], k \in seen, source[k], complete, now')]
  /\ gone' = [k \in Keys |->
       IF k \in seen THEN 0
       ELSE IF complete THEN AtMost(gone[k] + 1, DelistThreshold) ELSE gone[k]]

(* What a reader of the feed knows: an event's after-state replaces what was *)
(* known; a rail becomes known, through REST, when its baseline commits.     *)
Learnt(known, before, after, events) ==
  IF events # {} THEN (CHOOSE e \in events : TRUE).after
  ELSE IF before # NoRail /\ before.initial /\ ~after.initial THEN after ELSE known

(* Rows and events are written by one transaction (diff.Apply). *)
PollCommits(seen, complete) ==
  /\ Fetched(seen, complete)
  /\ \A k \in Keys : Within(k, seen, complete)
  /\ Tick
  /\ rails' = [k \in Keys |-> Decided(k, seen, complete, now').rail]
  /\ last' = [kind |-> IF complete THEN "complete" ELSE "partial", seen |-> seen,
              events |-> [k \in Keys |-> Decided(k, seen, complete, now').events]]
  /\ told' = [k \in Keys |->
       Learnt(told[k], rails[k], rails'[k], last'.events[k])]
  /\ Remember(seen, complete)
  /\ Observe(seen, complete)
  /\ UNCHANGED <<source, failures, restarts>>

(* The transaction fails after the diff: the tables keep their contents, the *)
(* engine does not.                                                          *)
PollRollsBack(seen, complete) ==
  /\ failures < MaxFailures
  /\ Fetched(seen, complete)
  /\ Tick
  /\ failures' = failures + 1
  /\ last' = [kind |-> "failed", seen |-> seen, events |-> NoEvents]
  /\ Remember(seen, complete)
  /\ Observe(seen, complete)
  /\ UNCHANGED <<source, table, restarts>>

(* A new process starts with an empty engine (diff.NewEngine). *)
Restart ==
  /\ restarts < MaxRestarts
  /\ restarts' = restarts + 1
  /\ baseline' = [k \in Keys |-> NoBaseline]
  /\ pending' = [k \in Keys |-> NoPending]
  /\ streak' = [k \in Keys |-> NoStreak]
  /\ last' = Quiet
  /\ UNCHANGED <<source, now, table, failures, gone>>

Next ==
  \/ \E k \in Keys : SourceChanges(k)
  \/ \E seen \in SUBSET Keys, complete \in BOOLEAN :
       PollCommits(seen, complete) \/ PollRollsBack(seen, complete)
  \/ Restart

Spec == Init /\ [][Next]_vars

-----------------------------------------------------------------------------
(* Properties *)

Tracked(k) == rails[k] # NoRail /\ ~rails[k].initial

(* An outage has a start exactly while the direction is stored as off: the   *)
(* "off since" that readers see can be neither missing nor left over.        *)
OffSinceIffOff ==
  \A k \in Keys : rails[k] # NoRail =>
    \A d \in Directions : rails[k].offSince[d] = NoTime <=> rails[k].status[d]

(* Whoever starts from the baseline and applies every event in turn knows    *)
(* the stored state of every tracked rail: whether it is listed, and for a   *)
(* listed one its status, terms and outage starts.  No column the alerts are *)
(* about changes without an event, across rollbacks and restarts.            *)
FeedAgrees ==
  \A k \in Keys : Tracked(k) =>
    /\ told[k] # NoRail
    /\ told[k].active = rails[k].active
    /\ rails[k].active => /\ told[k].status = rails[k].status
                          /\ told[k].terms = rails[k].terms
                          /\ told[k].offSince = rails[k].offSince

(* A tally never runs ahead of what was observed: the pending status is the  *)
(* one this process observed last, counted no more often than it was seen,   *)
(* dated inside that run; the same for the tally of a baseline.  It is what  *)
(* makes the confirmations below count, whichever polls failed to commit.    *)
TalliesMatchStreaks ==
  \A k \in Keys :
    /\ pending[k].count > 0 =>
         /\ Tracked(k) /\ rails[k].active
         /\ pending[k].target = streak[k].target
         /\ pending[k].count <= streak[k].n
         /\ pending[k].firstObservedAt \in streak[k].since..now
    /\ rails[k] # NoRail /\ rails[k].initial /\ baseline[k].count > 0 =>
         /\ baseline[k].target = streak[k].target
         /\ baseline[k].count <= streak[k].n

(* A status is stored only if this process has observed it Confirmations     *)
(* times in a row, with no complete poll without the rail in between: the    *)
(* baseline that ends the silent initial phase, and every later change of a  *)
(* listed rail, whatever transactions were rolled back meanwhile.            *)
StatusIsStored(k) ==
  /\ Tracked(k)'
  /\ \/ rails[k] # NoRail /\ rails[k].initial
     \/ /\ Tracked(k) /\ rails[k].active /\ rails'[k].active
        /\ rails'[k].status # rails[k].status

StoredStatusIsConfirmed ==
  [][\A k \in Keys : StatusIsStored(k) =>
       streak'[k].n = Confirmations /\ streak'[k].target = rails'[k].status]_vars

(* An outage that is confirmed is dated inside the run of observations that  *)
(* confirmed it, never before the run began and never in the future; without *)
(* a rollback by the first of them, so that the delay of the confirmation is *)
(* not cut from the outage.                                                  *)
WentOff(k, d) ==
  /\ Tracked(k) /\ rails[k].active /\ rails'[k].active
  /\ rails[k].status[d] /\ ~rails'[k].status[d]

OutagesDatedInStreak ==
  [][\A k \in Keys : \A d \in Directions : WentOff(k, d) =>
       /\ rails'[k].offSince[d] \in streak'[k].since..now'
       /\ failures = 0 => rails'[k].offSince[d] = streak'[k].since]_vars

(* Without a rollback a rail is delisted only by the DelistThreshold-th      *)
(* complete poll in a row that does not have it, and partial polls neither   *)
(* count nor delist.                                                         *)
DelistingsConfirmed ==
  [][failures = 0 => \A k \in Keys :
       rails[k] # NoRail /\ rails[k].active /\ ~rails'[k].active
       => gone'[k] = DelistThreshold /\ last'.kind = "complete"]_vars

(* Once the exchange leaves a rail alone the table has it in the end as the  *)
(* exchange has it: active, out of its initial phase, with that status and   *)
(* those terms, or, if it is no longer listed, without a row that is active. *)
StoredAsListed(k) ==
  IF source[k] = Unlisted THEN rails[k] # NoRail => ~rails[k].active
  ELSE /\ Tracked(k) /\ rails[k].active
       /\ rails[k].status = source[k].status /\ rails[k].terms = source[k].terms

TableConverges ==
  \A k \in Keys :
    <>[][source'[k] = source[k]]_source => <>[]StoredAsListed(k)

-----------------------------------------------------------------------------
(* What the component promises to readers of its feed: see RailFeed. *)

Shown == [k \in Keys |->
  IF ~Tracked(k) THEN "untracked"
  ELSE IF ~rails[k].active THEN "delisted"
  ELSE "listed"]

Known == [k \in Keys |->
  IF Shown[k] = "listed" THEN [status |-> rails[k].status, terms |-> rails[k].terms]
                         ELSE NoRail]

News == [k \in Keys |-> {e.type : e \in last.events[k]}]

Feed == INSTANCE RailFeed WITH phase <- Shown, state <- Known, news <- News,
                              Unknown <- NoRail

FeedSpec == Feed!Spec

===============================================================================
