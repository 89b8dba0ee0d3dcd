------------------------------- MODULE RailDiff -------------------------------
(***************************************************************************)
(* The diff engine's decision about ONE rail: internal/diff/engine.go as a *)
(* pure function.  A rail is one (exchange, coin, chain) route.  Given the *)
(* row stored for it, the engine's in-memory tallies and what one poll     *)
(* says of it, the operators below give the next row, the next tallies     *)
(* and the change events.                                                  *)
(*                                                                         *)
(* The two directions of a rail (deposit, withdraw) and its two quoted     *)
(* terms (fee, minimum) are handled by duplicated code in the source and   *)
(* by functions over Directions and TermNames here.  Columns that are      *)
(* overwritten by every observation and never compared for a decision      *)
(* (confirmations, contract address, last_seen_at) are left out.           *)
(***************************************************************************)
EXTENDS Integers

CONSTANTS
  Confirmations,   (* Options.ConfirmationsRequired, 3 by default          *)
  DelistThreshold, (* Options.DelistThreshold, 6 by default                *)
  Values,          (* the amounts a fee or a minimum can take              *)
  NoTime,          (* a NULL timestamp                                     *)
  NoRail           (* no row for this key                                  *)

Directions == {"deposit", "withdraw"}
TermNames  == {"fee", "min"}

Status == [Directions -> BOOLEAN]
Quote  == [TermNames -> Values]

Observation == [status : Status, terms : Quote]

Rail == [status       : Status,
         offSince     : [Directions -> Nat \cup {NoTime}],
         terms        : Quote,
         active       : BOOLEAN,
         missingCount : Nat,
         missingSince : Nat \cup {NoTime},
         initial      : BOOLEAN]

(* withDefaults replaces a threshold that is not positive by its default.  *)
ASSUME ThresholdsArePositive ==
  Confirmations \in Nat \ {0} /\ DelistThreshold \in Nat \ {0}
ASSUME NullsAreNoValues == NoTime \notin Nat /\ NoRail \notin Rail

EventTypes == {"deposit_off", "deposit_on", "withdraw_off", "withdraw_on",
               "fee_changed", "min_changed", "rail_delisted", "rail_relisted"}

Event == [type : EventTypes, before : Rail, after : Rail, occurredAt : Nat]

(* The engine's two maps.  Reading a missing `baseline' entry yields Go's  *)
(* zero value, whose target is "both directions off"; a missing `status'   *)
(* entry is recognised by the map lookup (here: its count is 0).           *)
PendingBaseline == [target : Status, count : Nat]
PendingStatus   == [target : Status, count : Nat, firstObservedAt : Nat]

AllOff     == [d \in Directions |-> FALSE]
NoBaseline == [target |-> AllOff, count |-> 0]
NoPending  == [target |-> AllOff, count |-> 0, firstObservedAt |-> 0]

-----------------------------------------------------------------------------
(* Writing an observation into a row *)

ApplyStatus(rail, target, changedAt) ==
  [rail EXCEPT
     !.status   = target,
     !.offSince = [d \in Directions |->
        IF target[d] # rail.status[d]
        THEN IF target[d] THEN NoTime ELSE changedAt
        ELSE IF ~target[d] /\ rail.offSince[d] = NoTime
             THEN changedAt
             ELSE rail.offSince[d]]]

(* Slip: the status is stored with the terms, confirmed or not. *)
SlipApplyTerms(rail, obs) == [rail EXCEPT !.terms = obs.terms, !.status = obs.status]

(* applyObservation with includeStatus = FALSE: only the terms. *)
ApplyTerms(rail, obs) == [rail EXCEPT !.terms = obs.terms]

(* applyObservation with includeStatus = TRUE. *)
ApplyObservation(rail, obs, t) == ApplyStatus(ApplyTerms(rail, obs), obs.status, t)

RailFromObservation(obs, t) ==
  [status       |-> obs.status,
   offSince     |-> [d \in Directions |-> IF obs.status[d] THEN NoTime ELSE t],
   terms        |-> obs.terms,
   active       |-> TRUE,
   missingCount |-> 0,
   missingSince |-> NoTime,
   initial      |-> TRUE]

(* Slip: an observation does not end the count of absences. *)
SlipPresent(rail) == [rail EXCEPT !.missingSince = NoTime]

Present(rail) == [rail EXCEPT !.missingCount = 0, !.missingSince = NoTime]

-----------------------------------------------------------------------------
(* Events *)

StatusEvent(d, on) ==
  IF d = "deposit" THEN IF on THEN "deposit_on" ELSE "deposit_off"
                   ELSE IF on THEN "withdraw_on" ELSE "withdraw_off"

TermEvent(x) == IF x = "fee" THEN "fee_changed" ELSE "min_changed"

(* Slip: of two directions that change together only the deposit is told. *)
SlipStatusChangeEvents(before, after) ==
  IF before.status["deposit"] # after.status["deposit"]
  THEN {StatusEvent("deposit", after.status["deposit"])}
  ELSE {StatusEvent(d, after.status[d]) :
          d \in {e \in Directions : before.status[e] # after.status[e]}}

StatusChangeEvents(before, after) ==
  {StatusEvent(d, after.status[d]) :
     d \in {e \in Directions : before.status[e] # after.status[e]}}

TermChangeEvents(before, obs) ==
  {TermEvent(x) : x \in {y \in TermNames : before.terms[y] # obs.terms[y]}}

NewEvents(types, before, after, t) ==
  {[type |-> ty, before |-> before, after |-> after, occurredAt |-> t] : ty \in types}

-----------------------------------------------------------------------------
(* What becomes of one key: its row, the two tallies, the events *)

Outcome(rail, baseline, pending, events) ==
  [rail |-> rail, baseline |-> baseline, pending |-> pending, events |-> events]

(* Slip: one observation too few. *)
SlipConfirmed(count) == count + 1 >= Confirmations

Confirmed(count) == count >= Confirmations

InsertInitial(obs, t) ==
  Outcome(RailFromObservation(obs, t),
          [target |-> obs.status, count |-> 1], NoPending, {})

CountedBaseline(base, target) ==
  [target |-> target, count |-> IF base.target = target THEN base.count + 1 ELSE 1]

(* A rail whose baseline is not committed yet: its row follows the source  *)
(* at once and silently; IsActive keeps its value.                         *)
HandleInitial(prev, base, obs, t) ==
  LET counted == CountedBaseline(base, obs.status)
      done    == Confirmed(counted.count)
  IN  Outcome([Present(ApplyObservation(prev, obs, t)) EXCEPT !.initial = ~done],
              IF done THEN NoBaseline ELSE counted,
              NoPending, {})

(* Slip: a tally that restarts keeps the time of the status seen before it. *)
SlipCountedPending(pend, target, t) ==
  [target          |-> target,
   count           |-> IF pend.target = target THEN pend.count + 1 ELSE 1,
   firstObservedAt |-> IF pend.count = 0 THEN t ELSE pend.firstObservedAt]

(* The tally of a status that differs from the row's. *)
CountedPending(pend, target, t) ==
  IF pend.count = 0 \/ pend.target # target
  THEN [target |-> target, count |-> 1, firstObservedAt |-> t]
  ELSE [pend EXCEPT !.count = @ + 1]

(* An active rail with a baseline: terms change at once, the status only   *)
(* after enough observations in a row of the same new status.              *)
HandleActive(prev, base, pend, obs, t) ==
  LET seen    == [Present(ApplyTerms(prev, obs)) EXCEPT !.active = TRUE, !.initial = FALSE]
      counted == CountedPending(pend, obs.status, t)
      settled == obs.status = prev.status
      due     == ~settled /\ Confirmed(counted.count)
      after   == IF due THEN ApplyStatus(seen, obs.status, counted.firstObservedAt) ELSE seen
      told    == (IF due THEN StatusChangeEvents(prev, after) ELSE {})
                   \cup TermChangeEvents(prev, obs)
  IN  Outcome(after, base,
              IF settled \/ due THEN NoPending ELSE counted,
              NewEvents(told, prev, after, t))

(* A rail that is stored inactive, in a poll that is not complete: the row *)
(* follows the source silently and stays inactive.                         *)
HandleInactive(prev, base, pend, obs, t) ==
  Outcome(ApplyObservation(prev, obs, t), base, pend, {})

HandleRelisted(prev, obs, t) ==
  LET after == [Present(ApplyObservation(prev, obs, t)) EXCEPT !.active = TRUE,
                                                              !.initial = FALSE]
  IN  Outcome(after, NoBaseline, NoPending,
              NewEvents({"rail_relisted"}, prev, after, t))

(* Slip: a rail is listed again by a partial poll, or by none. *)
SlipHandlePresent(prev, base, pend, obs, complete, t) ==
  IF prev.initial THEN HandleInitial(prev, base, obs, t)
  ELSE IF prev.active THEN HandleActive(prev, base, pend, obs, t)
  ELSE HandleInactive(prev, base, pend, obs, t)

HandlePresent(prev, base, pend, obs, complete, t) ==
  IF prev.initial THEN HandleInitial(prev, base, obs, t)
  ELSE IF prev.active THEN HandleActive(prev, base, pend, obs, t)
  ELSE IF complete THEN HandleRelisted(prev, obs, t)
  ELSE HandleInactive(prev, base, pend, obs, t)

(* Slip: the tallies survive a poll the rail is absent from. *)
SlipHandleAbsent(prev, base, pend, t) ==
  LET missing  == prev.missingCount + 1
      delisted == prev.active /\ missing >= DelistThreshold
      after    == [prev EXCEPT !.missingCount = missing,
                               !.active       = @ /\ ~delisted,
                               !.missingSince = IF delisted THEN t ELSE @]
  IN  Outcome(after, base, pend,
              IF delisted /\ ~prev.initial
              THEN NewEvents({"rail_delisted"}, prev, after, t)
              ELSE {})

HandleAbsent(prev, base, pend, t) ==
  LET missing  == prev.missingCount + 1
      delisted == prev.active /\ missing >= DelistThreshold
      after    == [prev EXCEPT !.missingCount = missing,
                               !.active       = @ /\ ~delisted,
                               !.missingSince = IF delisted THEN t ELSE @]
  IN  Outcome(after, NoBaseline, NoPending,
              IF delisted /\ ~prev.initial
              THEN NewEvents({"rail_delisted"}, prev, after, t)
              ELSE {})

CountsAsAbsent(prev, complete) == complete /\ prev # NoRail

(* Engine.Diff restricted to one key.  `listed' says whether the poll has an *)
(* observation for the key; a poll has at most one, since the ingester       *)
(* merges duplicates first (the error for a duplicate cannot occur).         *)
Diff(prev, base, pend, listed, obs, complete, t) ==
  IF listed
  THEN IF prev = NoRail THEN InsertInitial(obs, t)
                        ELSE HandlePresent(prev, base, pend, obs, complete, t)
  ELSE IF CountsAsAbsent(prev, complete)
       THEN HandleAbsent(prev, base, pend, t)
       ELSE Outcome(prev, base, pend, {})

===============================================================================
