--------------------------- MODULE DiffEngineProofs ---------------------------
(***************************************************************************)
(* Theorems about DiffEngine, for every set of keys, every pair of         *)
(* thresholds and every bound.  The lemmas of the first part are about the *)
(* engine's decision for one rail (RailDiff); parts 2 and 3 lift them to   *)
(* polls, rollbacks and restarts.  Parts 4 to 7 are about what a step      *)
(* requires before it stores something: a status its confirmations, an     *)
(* outage its date, a delisting its absences.  The first holds whatever is *)
(* rolled back and follows from the invariant of part 3; dates and         *)
(* absences are exact only as long as no transaction failed, which needs   *)
(* an invariant of its own.  Parts 8 to 10 show that the engine implements *)
(* the change feed: every behaviour of DiffEngine, seen through Shown,     *)
(* Known and News, is one of RailFeed.                                     *)
(***************************************************************************)
EXTENDS DiffEngine, TLAPS

(* The outcome of a decision has the types of the state it goes into. *)
OutcomeType ==
  [rail : Rail \cup {NoRail}, baseline : PendingBaseline,
   pending : PendingStatus, events : SUBSET Event]

-----------------------------------------------------------------------------
(* Part 1: one rail *)

(* An observation written into a row gives a row. *)
LEMMA ApplyStatusType ==
  ASSUME NEW rail \in Rail, NEW target \in Status, NEW t \in Nat
  PROVE  /\ ApplyStatus(rail, target, t) \in Rail
         /\ ApplyStatus(rail, target, t).status = target
         /\ ApplyStatus(rail, target, t).active = rail.active
         /\ ApplyStatus(rail, target, t).initial = rail.initial
         /\ ApplyStatus(rail, target, t).terms = rail.terms
         /\ ApplyStatus(rail, target, t).missingCount = rail.missingCount
         /\ ApplyStatus(rail, target, t).missingSince = rail.missingSince
  BY DEF ApplyStatus, Rail, Status

(* Writing a status keeps outage starts exactly on the directions that are off. *)
OffStartsFit(rail) ==
  \A d \in Directions : rail.offSince[d] = NoTime <=> rail.status[d]

LEMMA ApplyStatusOff ==
  ASSUME NEW rail \in Rail, OffStartsFit(rail), NEW target \in Status, NEW t \in Nat
  PROVE  OffStartsFit(ApplyStatus(rail, target, t))
  BY NullsAreNoValues DEF ApplyStatus, Rail, Status, OffStartsFit

(* The same for the whole observation. *)
LEMMA ApplyObservationType ==
  ASSUME NEW rail \in Rail, NEW obs \in Observation, NEW t \in Nat
  PROVE  /\ ApplyObservation(rail, obs, t) \in Rail
         /\ ApplyObservation(rail, obs, t).status = obs.status
         /\ ApplyObservation(rail, obs, t).active = rail.active
         /\ ApplyObservation(rail, obs, t).initial = rail.initial
         /\ OffStartsFit(rail) => OffStartsFit(ApplyObservation(rail, obs, t))
<1> DEFINE r == ApplyTerms(rail, obs)
<1>1. /\ r \in Rail /\ r.active = rail.active /\ r.initial = rail.initial
      /\ r.status = rail.status /\ r.offSince = rail.offSince
  BY DEF ApplyTerms, Rail, Observation
<1>2. obs.status \in Status
  BY DEF Observation
<1>3. ApplyObservation(rail, obs, t) = ApplyStatus(r, obs.status, t)
  BY DEF ApplyObservation
<1>4. OffStartsFit(rail) => OffStartsFit(r)
  BY <1>1 DEF OffStartsFit
<1> HIDE DEF r
<1>5. OffStartsFit(rail) => OffStartsFit(ApplyStatus(r, obs.status, t))
  BY <1>1, <1>2, <1>4, ApplyStatusOff
<1> QED
  BY <1>1, <1>2, <1>3, <1>5, ApplyStatusType

(* Constants of the module that are used as values. *)
LEMMA EmptyTallies ==
  /\ NoBaseline \in PendingBaseline /\ NoBaseline.count = 0
  /\ NoPending \in PendingStatus /\ NoPending.count = 0
  BY DEF NoBaseline, NoPending, AllOff, PendingBaseline, PendingStatus, Status

LEMMA PresentType ==
  ASSUME NEW rail \in Rail
  PROVE  /\ Present(rail) \in Rail
         /\ Present(rail).status = rail.status
         /\ Present(rail).terms = rail.terms
         /\ Present(rail).offSince = rail.offSince
         /\ Present(rail).active = rail.active
         /\ Present(rail).initial = rail.initial
  BY DEF Present, Rail

(* Events are well formed when their names and rows are. *)
LEMMA NewEventsType ==
  ASSUME NEW types \in SUBSET EventTypes, NEW before \in Rail, NEW after \in Rail,
         NEW t \in Nat
  PROVE  /\ NewEvents(types, before, after, t) \in SUBSET Event
         /\ \A e \in NewEvents(types, before, after, t) : e.after = after
         /\ NewEvents(types, before, after, t) = {} => types = {}
<1>1. NewEvents(types, before, after, t) \in SUBSET Event
  BY DEF NewEvents, Event
<1>2. \A e \in NewEvents(types, before, after, t) : e.after = after
  BY DEF NewEvents
<1>3. NewEvents(types, before, after, t) = {} => types = {}
  BY DEF NewEvents
<1> QED
  BY <1>1, <1>2, <1>3

LEMMA ChangeEventNames ==
  ASSUME NEW before, NEW after, NEW obs
  PROVE  /\ StatusChangeEvents(before, after) \subseteq EventTypes
         /\ TermChangeEvents(before, obs) \subseteq EventTypes
  BY DEF StatusChangeEvents, TermChangeEvents, StatusEvent, TermEvent, EventTypes,
         Directions, TermNames

(* No term event means no term changed. *)
LEMMA NoTermEvents ==
  ASSUME NEW before \in Rail, NEW obs \in Observation,
         TermChangeEvents(before, obs) = {}
  PROVE  before.terms = obs.terms
<1>1. before.terms \in [TermNames -> Values] /\ obs.terms \in [TermNames -> Values]
  BY DEF Rail, Observation, Quote
<1>2. \A x \in TermNames : before.terms[x] = obs.terms[x]
  BY DEF TermChangeEvents
<1> QED
  BY <1>1, <1>2

(* No status event means no direction changed. *)
LEMMA NoStatusEvents ==
  ASSUME NEW before \in Rail, NEW after \in Rail,
         StatusChangeEvents(before, after) = {}
  PROVE  before.status = after.status
<1>1. before.status \in [Directions -> BOOLEAN] /\ after.status \in [Directions -> BOOLEAN]
  BY DEF Rail, Status
<1>2. \A d \in Directions : before.status[d] = after.status[d]
  BY DEF StatusChangeEvents
<1> QED
  BY <1>1, <1>2

LEMMA CountedType ==
  ASSUME NEW base \in PendingBaseline, NEW pend \in PendingStatus,
         NEW target \in Status, NEW t \in Nat
  PROVE  /\ CountedBaseline(base, target) \in PendingBaseline
         /\ CountedBaseline(base, target).target = target
         /\ CountedPending(pend, target, t) \in PendingStatus
         /\ CountedPending(pend, target, t).target = target
         /\ CountedPending(pend, target, t).count \in Nat \ {0}
  BY DEF CountedBaseline, CountedPending, PendingBaseline, PendingStatus

-----------------------------------------------------------------------------
(* What every handler guarantees of its outcome, given the row before it:    *)
(* types, outage starts, and that its events carry the row it leaves behind. *)
Sound(o, prev) ==
  /\ o \in OutcomeType
  /\ o.rail \in Rail
  /\ (prev \in Rail => OffStartsFit(prev)) => OffStartsFit(o.rail)
  /\ \A e \in o.events : e.after = o.rail

LEMMA InsertInitialSound ==
  ASSUME NEW prev, NEW obs \in Observation, NEW t \in Nat
  PROVE  /\ Sound(InsertInitial(obs, t), prev)
         /\ InsertInitial(obs, t).rail.initial
         /\ InsertInitial(obs, t).events = {}
         /\ InsertInitial(obs, t).pending = NoPending
         /\ InsertInitial(obs, t).baseline = [target |-> obs.status, count |-> 1]
<1> DEFINE r == RailFromObservation(obs, t)
           b == [target |-> obs.status, count |-> 1]
<1>1. r \in Rail /\ r.initial /\ OffStartsFit(r)
  BY NullsAreNoValues DEF RailFromObservation, Rail, Observation, Status, OffStartsFit
<1>2. b \in PendingBaseline
  BY DEF PendingBaseline, Observation
<1>3. InsertInitial(obs, t) = Outcome(r, b, NoPending, {})
  BY DEF InsertInitial
<1> HIDE DEF r, b
<1>4. Sound(Outcome(r, b, NoPending, {}), prev)
  BY <1>1, <1>2, EmptyTallies DEF Sound, Outcome, OutcomeType
<1> QED
  BY <1>1, <1>3, <1>4 DEF Outcome, b

LEMMA HandleInitialSound ==
  ASSUME NEW prev \in Rail, NEW base \in PendingBaseline,
         NEW obs \in Observation, NEW t \in Nat
  PROVE  LET o == HandleInitial(prev, base, obs, t)
             c == CountedBaseline(base, obs.status)
         IN  /\ Sound(o, prev)
             /\ o.rail.status = obs.status
             /\ o.rail.initial <=> ~Confirmed(c.count)
             /\ o.events = {}
             /\ o.pending = NoPending
             /\ o.baseline = IF Confirmed(c.count) THEN NoBaseline ELSE c
<1> DEFINE p == Present(ApplyObservation(prev, obs, t))
           c == CountedBaseline(base, obs.status)
           r == [p EXCEPT !.initial = ~Confirmed(c.count)]
           b == IF Confirmed(c.count) THEN NoBaseline ELSE c
<1>1. p \in Rail /\ p.status = obs.status /\ (OffStartsFit(prev) => OffStartsFit(p))
  BY ApplyObservationType, PresentType DEF OffStartsFit
<1>2. Confirmed(c.count) \in BOOLEAN
  BY DEF Confirmed
<1>3. b \in PendingBaseline
  BY CountedType, EmptyTallies DEF Observation
<1>4. HandleInitial(prev, base, obs, t) = Outcome(r, b, NoPending, {})
  BY DEF HandleInitial
<1> HIDE DEF p, c, b
<1>5. /\ r \in Rail /\ r.status = obs.status /\ (r.initial <=> ~Confirmed(c.count))
      /\ OffStartsFit(prev) => OffStartsFit(r)
  BY <1>1, <1>2 DEF Rail, OffStartsFit
<1> HIDE DEF r
<1>6. Sound(Outcome(r, b, NoPending, {}), prev)
  BY <1>5, <1>3, EmptyTallies DEF Sound, Outcome, OutcomeType
<1> QED
  BY <1>4, <1>5, <1>6 DEF Outcome, b, c

(* The active rail: its status moves only when a confirmed tally is due, and *)
(* no event means that nothing a reader sees has moved.                      *)
LEMMA HandleActiveSound ==
  ASSUME NEW prev \in Rail, prev.active, ~prev.initial,
         NEW base \in PendingBaseline, NEW pend \in PendingStatus,
         NEW obs \in Observation, NEW t \in Nat
  PROVE  LET o == HandleActive(prev, base, pend, obs, t)
             c == CountedPending(pend, obs.status, t)
             due == obs.status # prev.status /\ Confirmed(c.count)
         IN  /\ Sound(o, prev)
             /\ o.rail.active /\ ~o.rail.initial
             /\ o.baseline = base
             /\ o.pending = IF obs.status = prev.status \/ due THEN NoPending ELSE c
             /\ ~due => o.rail.status = prev.status /\ o.rail.offSince = prev.offSince
             /\ due => /\ o.rail.status = obs.status
                       /\ o.rail.offSince =
                            ApplyStatus(prev, obs.status, c.firstObservedAt).offSince
             /\ o.events = {} => /\ o.rail.status = prev.status
                                 /\ o.rail.terms = prev.terms
                                 /\ o.rail.offSince = prev.offSince
<1> DEFINE seen == [Present(ApplyTerms(prev, obs)) EXCEPT !.active = TRUE, !.initial = FALSE]
           c == CountedPending(pend, obs.status, t)
           settled == obs.status = prev.status
           due == ~settled /\ Confirmed(c.count)
           after == IF due THEN ApplyStatus(seen, obs.status, c.firstObservedAt) ELSE seen
           types == (IF due THEN StatusChangeEvents(prev, after) ELSE {})
                      \cup TermChangeEvents(prev, obs)
           p == IF settled \/ due THEN NoPending ELSE c
           ev == NewEvents(types, prev, after, t)
<1>1. /\ seen \in Rail /\ seen.active /\ ~seen.initial
      /\ seen.status = prev.status /\ seen.offSince = prev.offSince
      /\ seen.terms = obs.terms
  BY DEF ApplyTerms, Present, Rail, Observation
<1>2. c \in PendingStatus /\ c.firstObservedAt \in Nat /\ obs.status \in Status
  BY CountedType DEF Observation, PendingStatus
<1>3. p \in PendingStatus
  BY <1>2, EmptyTallies
<1>4. HandleActive(prev, base, pend, obs, t) = Outcome(after, base, p, ev)
  BY DEF HandleActive
<1> HIDE DEF seen, c
<1>6. /\ after \in Rail /\ after.active /\ ~after.initial /\ after.terms = obs.terms
      /\ due => after.status = obs.status
      /\ ~due => after.status = prev.status /\ after.offSince = prev.offSince
  BY <1>1, <1>2, ApplyStatusType
<1>7. due => after.offSince = ApplyStatus(prev, obs.status, c.firstObservedAt).offSince
  BY <1>1, <1>2 DEF ApplyStatus, Rail, Status
<1>8. OffStartsFit(prev) => OffStartsFit(after)
  <2>1. OffStartsFit(prev) => OffStartsFit(seen)
    BY <1>1 DEF OffStartsFit
  <2>2. OffStartsFit(seen) => OffStartsFit(ApplyStatus(seen, obs.status, c.firstObservedAt))
    BY <1>1, <1>2, ApplyStatusOff
  <2> QED
    BY <2>1, <2>2
<1> HIDE DEF after
<1>9. types \subseteq EventTypes
  BY ChangeEventNames
<1> HIDE DEF types
<1>10. ev \in SUBSET Event /\ (\A e \in ev : e.after = after) /\ (ev = {} => types = {})
  BY <1>6, <1>9, NewEventsType
<1>11. types = {} => ~due /\ prev.terms = obs.terms
  <2> SUFFICES ASSUME types = {} PROVE ~due /\ prev.terms = obs.terms
    OBVIOUS
  <2>1. prev.terms = obs.terms
    BY NoTermEvents DEF types
  <2>2. due => prev.status = after.status
    BY <1>6, NoStatusEvents DEF types
  <2> QED
    BY <2>1, <2>2, <1>6
<1> HIDE DEF ev, p
<1>12. Sound(Outcome(after, base, p, ev), prev)
  BY <1>3, <1>6, <1>8, <1>10 DEF Sound, Outcome, OutcomeType
<1> QED
  BY <1>4, <1>6, <1>7, <1>10, <1>11, <1>12 DEF Outcome, p, c

LEMMA HandleInactiveSound ==
  ASSUME NEW prev \in Rail, ~prev.active, ~prev.initial,
         NEW base \in PendingBaseline, NEW pend \in PendingStatus,
         NEW obs \in Observation, NEW t \in Nat
  PROVE  LET o == HandleInactive(prev, base, pend, obs, t)
         IN  /\ Sound(o, prev)
             /\ ~o.rail.active /\ ~o.rail.initial
             /\ o.events = {} /\ o.pending = pend /\ o.baseline = base
<1> DEFINE r == ApplyObservation(prev, obs, t)
<1>1. /\ r \in Rail /\ ~r.active /\ ~r.initial
      /\ OffStartsFit(prev) => OffStartsFit(r)
  BY ApplyObservationType
<1>2. HandleInactive(prev, base, pend, obs, t) = Outcome(r, base, pend, {})
  BY DEF HandleInactive
<1> HIDE DEF r
<1>3. Sound(Outcome(r, base, pend, {}), prev)
  BY <1>1 DEF Sound, Outcome, OutcomeType
<1> QED
  BY <1>1, <1>2, <1>3 DEF Outcome

LEMMA HandleRelistedSound ==
  ASSUME NEW prev \in Rail, NEW obs \in Observation, NEW t \in Nat
  PROVE  LET o == HandleRelisted(prev, obs, t)
         IN  /\ Sound(o, prev)
             /\ o.rail.active /\ ~o.rail.initial
             /\ o.events # {} /\ o.pending = NoPending /\ o.baseline = NoBaseline
<1> DEFINE p == Present(ApplyObservation(prev, obs, t))
           r == [p EXCEPT !.active = TRUE, !.initial = FALSE]
           ev == NewEvents({"rail_relisted"}, prev, r, t)
<1>1. p \in Rail /\ (OffStartsFit(prev) => OffStartsFit(p))
  BY ApplyObservationType, PresentType DEF OffStartsFit
<1>2. HandleRelisted(prev, obs, t) = Outcome(r, NoBaseline, NoPending, ev)
  BY DEF HandleRelisted
<1> HIDE DEF p
<1>3. /\ r \in Rail /\ r.active /\ ~r.initial
      /\ OffStartsFit(prev) => OffStartsFit(r)
  BY <1>1 DEF Rail, OffStartsFit
<1> HIDE DEF r
<1>4. {"rail_relisted"} \in SUBSET EventTypes
  BY DEF EventTypes
<1>5. ev \in SUBSET Event /\ (\A e \in ev : e.after = r) /\ ev # {}
  BY <1>3, <1>4, NewEventsType
<1> HIDE DEF ev
<1>6. Sound(Outcome(r, NoBaseline, NoPending, ev), prev)
  BY <1>3, <1>5, EmptyTallies DEF Sound, Outcome, OutcomeType
<1> QED
  BY <1>2, <1>3, <1>5, <1>6 DEF Outcome

(* An absence changes only the count, or delists. *)
LEMMA HandleAbsentSound ==
  ASSUME NEW prev \in Rail, NEW base, NEW pend, NEW t \in Nat
  PROVE  LET o == HandleAbsent(prev, base, pend, t)
         IN  /\ Sound(o, prev)
             /\ o.rail.initial = prev.initial
             /\ o.rail.status = prev.status /\ o.rail.terms = prev.terms
             /\ o.rail.offSince = prev.offSince
             /\ o.rail.active => prev.active
             /\ prev.active /\ ~o.rail.active =>
                  prev.missingCount + 1 >= DelistThreshold
             /\ ~prev.initial /\ o.events = {} => o.rail.active = prev.active
             /\ prev.initial => o.events = {}
             /\ o.pending = NoPending /\ o.baseline = NoBaseline
<1> DEFINE m == prev.missingCount + 1
           gone1 == prev.active /\ m >= DelistThreshold
           r == [prev EXCEPT !.missingCount = m, !.active = @ /\ ~gone1,
                             !.missingSince = IF gone1 THEN t ELSE @]
           ev == IF gone1 /\ ~prev.initial
                 THEN NewEvents({"rail_delisted"}, prev, r, t) ELSE {}
<1>1. HandleAbsent(prev, base, pend, t) = Outcome(r, NoBaseline, NoPending, ev)
  BY DEF HandleAbsent
<1>2. m \in Nat /\ prev.active \in BOOLEAN /\ prev.initial \in BOOLEAN
      /\ (gone1 <=> prev.active /\ m >= DelistThreshold)
  BY DEF Rail
<1> HIDE DEF m, gone1
<1>3. /\ r \in Rail /\ r.initial = prev.initial /\ r.status = prev.status
      /\ r.terms = prev.terms /\ r.offSince = prev.offSince
      /\ r.active <=> prev.active /\ ~gone1
  BY <1>2 DEF Rail
<1> HIDE DEF r
<1>4. {"rail_delisted"} \in SUBSET EventTypes
  BY DEF EventTypes
<1>5. /\ ev \in SUBSET Event /\ (\A e \in ev : e.after = r)
      /\ ev = {} <=> ~(gone1 /\ ~prev.initial)
  BY <1>3, <1>4, NewEventsType
<1> HIDE DEF ev
<1>6. Sound(Outcome(r, NoBaseline, NoPending, ev), prev)
  BY <1>3, <1>5, EmptyTallies DEF Sound, Outcome, OutcomeType, OffStartsFit
<1>7. r.active \in BOOLEAN
  BY <1>3 DEF Rail
<1> QED
  BY <1>1, <1>2, <1>3, <1>5, <1>6, <1>7 DEF Outcome, m

-----------------------------------------------------------------------------
(* Part 2: one key in one poll *)

(* The arguments of a decision, as a poll passes them. *)
DiffArgs(prev, base, pend, listed, obs, complete, t) ==
  /\ prev \in Rail \cup {NoRail}
  /\ base \in PendingBaseline /\ pend \in PendingStatus
  /\ listed \in BOOLEAN /\ complete \in BOOLEAN
  /\ listed => obs \in Observation
  /\ t \in Nat

(* The seven ways a key fares in a poll. *)
LEMMA DiffCases ==
  ASSUME NEW prev, NEW base, NEW pend, NEW listed, NEW obs, NEW complete, NEW t,
         DiffArgs(prev, base, pend, listed, obs, complete, t)
  PROVE  LET o == Diff(prev, base, pend, listed, obs, complete, t)
         IN  \/ listed /\ prev = NoRail /\ o = InsertInitial(obs, t)
             \/ /\ listed /\ prev \in Rail /\ prev.initial
                /\ o = HandleInitial(prev, base, obs, t)
             \/ /\ listed /\ prev \in Rail /\ ~prev.initial /\ prev.active
                /\ o = HandleActive(prev, base, pend, obs, t)
             \/ /\ listed /\ prev \in Rail /\ ~prev.initial /\ ~prev.active /\ complete
                /\ o = HandleRelisted(prev, obs, t)
             \/ /\ listed /\ prev \in Rail /\ ~prev.initial /\ ~prev.active /\ ~complete
                /\ o = HandleInactive(prev, base, pend, obs, t)
             \/ /\ ~listed /\ prev \in Rail /\ complete
                /\ o = HandleAbsent(prev, base, pend, t)
             \/ /\ ~listed /\ (prev = NoRail \/ ~complete)
                /\ o = Outcome(prev, base, pend, {})
  BY NullsAreNoValues DEF Diff, DiffArgs, HandlePresent, CountsAsAbsent

RailOff(rail) == rail # NoRail => OffStartsFit(rail)

LEMMA SoundSuffices ==
  ASSUME NEW o, NEW prev \in Rail \cup {NoRail}, Sound(o, prev)
  PROVE  /\ o \in OutcomeType
         /\ RailOff(prev) => RailOff(o.rail)
         /\ \A e \in o.events : e.after = o.rail
  BY NullsAreNoValues DEF Sound, RailOff

(* Every decision is well typed, keeps outage starts right, and its events   *)
(* carry the row it stores.                                                  *)
LEMMA DiffSound ==
  ASSUME NEW prev, NEW base, NEW pend, NEW listed, NEW obs, NEW complete, NEW t,
         DiffArgs(prev, base, pend, listed, obs, complete, t)
  PROVE  LET o == Diff(prev, base, pend, listed, obs, complete, t)
         IN  /\ o \in OutcomeType
             /\ RailOff(prev) => RailOff(o.rail)
             /\ \A e \in o.events : e.after = o.rail
<1> DEFINE o == Diff(prev, base, pend, listed, obs, complete, t)
           same == Outcome(prev, base, pend, {})
<1> USE DEF DiffArgs
<1>1. CASE listed /\ o = InsertInitial(obs, t)
  <2>1. Sound(o, prev)
    BY <1>1, InsertInitialSound
  <2> QED
    BY <2>1, SoundSuffices
<1>2. CASE listed /\ prev \in Rail /\ o = HandleInitial(prev, base, obs, t)
  <2>1. Sound(o, prev)
    BY <1>2, HandleInitialSound
  <2> QED
    BY <2>1, SoundSuffices
<1>3. CASE /\ listed /\ prev \in Rail /\ prev.active /\ ~prev.initial
           /\ o = HandleActive(prev, base, pend, obs, t)
  <2>1. prev.active = TRUE /\ prev.initial = FALSE
    BY <1>3 DEF Rail
  <2>2. Sound(HandleActive(prev, base, pend, obs, t), prev)
    BY <1>3, <2>1, HandleActiveSound
  <2>3. Sound(o, prev)
    BY <1>3, <2>2
  <2> QED
    BY <2>3, SoundSuffices
<1>4. CASE listed /\ prev \in Rail /\ o = HandleRelisted(prev, obs, t)
  <2>1. Sound(o, prev)
    BY <1>4, HandleRelistedSound
  <2> QED
    BY <2>1, SoundSuffices
<1>5. CASE /\ listed /\ prev \in Rail /\ ~prev.active /\ ~prev.initial
           /\ o = HandleInactive(prev, base, pend, obs, t)
  <2>1. prev.active = FALSE /\ prev.initial = FALSE
    BY <1>5 DEF Rail
  <2>2. Sound(HandleInactive(prev, base, pend, obs, t), prev)
    BY <1>5, <2>1, HandleInactiveSound
  <2>3. Sound(o, prev)
    BY <1>5, <2>2
  <2> QED
    BY <2>3, SoundSuffices
<1>6. CASE prev \in Rail /\ o = HandleAbsent(prev, base, pend, t)
  <2>1. Sound(o, prev)
    BY <1>6, HandleAbsentSound
  <2> QED
    BY <2>1, SoundSuffices
<1>7. CASE o = same
  BY <1>7 DEF Outcome, OutcomeType
<1> QED
  BY <1>1, <1>2, <1>3, <1>4, <1>5, <1>6, <1>7, DiffCases

(* What a reader of the feed knows of one rail fits its row: FeedAgrees for  *)
(* one key.                                                                  *)
FeedFits(rail, known) ==
  rail # NoRail /\ ~rail.initial =>
    /\ known # NoRail
    /\ known.active = rail.active
    /\ rail.active => /\ known.status = rail.status
                      /\ known.terms = rail.terms
                      /\ known.offSince = rail.offSince

(* An event makes the reader know the row it was emitted with. *)
LEMMA LearntFromEvent ==
  ASSUME NEW known, NEW before, NEW after, NEW events,
         events # {}, \A e \in events : e.after = after
  PROVE  Learnt(known, before, after, events) = after
  BY DEF Learnt

LEMMA LearntQuietly ==
  ASSUME NEW known, NEW before, NEW after
  PROVE  Learnt(known, before, after, {}) =
           IF before # NoRail /\ before.initial /\ ~after.initial THEN after ELSE known
  BY DEF Learnt

(* A reader who knew the row before the poll knows the row after it. *)
LEMMA DiffFeed ==
  ASSUME NEW prev, NEW base, NEW pend, NEW listed, NEW obs, NEW complete, NEW t,
         DiffArgs(prev, base, pend, listed, obs, complete, t),
         NEW known \in Rail \cup {NoRail}, FeedFits(prev, known)
  PROVE  LET o == Diff(prev, base, pend, listed, obs, complete, t)
         IN  /\ Learnt(known, prev, o.rail, o.events) \in Rail \cup {NoRail}
             /\ FeedFits(o.rail, Learnt(known, prev, o.rail, o.events))
<1> DEFINE o == Diff(prev, base, pend, listed, obs, complete, t)
           l == Learnt(known, prev, o.rail, o.events)
<1> USE DEF DiffArgs
<1>0. /\ o.rail \in Rail \cup {NoRail}
      /\ \A e \in o.events : e.after = o.rail
  BY DiffSound DEF OutcomeType
<1>1. l \in Rail \cup {NoRail}
  <2>1. CASE o.events # {}
    BY <1>0, <2>1, LearntFromEvent
  <2>2. CASE o.events = {}
    <3>1. Learnt(known, prev, o.rail, {}) \in Rail \cup {NoRail}
      BY <1>0, LearntQuietly
    <3> QED
      BY <2>2, <3>1
  <2> QED
    BY <2>1, <2>2
<1>2. CASE o.events # {}
  <2>1. l = o.rail
    BY <1>0, <1>2, LearntFromEvent
  <2> QED
    BY <1>1, <2>1 DEF FeedFits
<1>3. CASE o.events = {}
  <2>0. l = IF prev # NoRail /\ prev.initial /\ ~o.rail.initial THEN o.rail ELSE known
    BY <1>3, LearntQuietly
  <2> HIDE DEF l
  <2>1. CASE listed /\ prev = NoRail /\ o = InsertInitial(obs, t)
    <3>1. o.rail.initial
      BY <2>1, InsertInitialSound
    <3> QED
      BY <1>1, <3>1 DEF FeedFits, l
  <2>2. CASE listed /\ prev \in Rail /\ prev.initial /\ o = HandleInitial(prev, base, obs, t)
    BY <1>1, <2>0, <2>2, NullsAreNoValues DEF FeedFits, l
  <2>3. CASE /\ listed /\ prev \in Rail /\ ~prev.initial /\ prev.active
             /\ o = HandleActive(prev, base, pend, obs, t)
    <3>1. prev.active = TRUE /\ prev.initial = FALSE
      BY <2>3 DEF Rail
    <3> DEFINE h == HandleActive(prev, base, pend, obs, t)
    <3>0. /\ h.rail.active /\ ~h.rail.initial /\ h.rail \in Rail
          /\ h.events = {} => /\ h.rail.status = prev.status
                              /\ h.rail.terms = prev.terms
                              /\ h.rail.offSince = prev.offSince
      BY <2>3, <3>1, HandleActiveSound DEF Sound
    <3>2. /\ o.rail.active /\ ~o.rail.initial
          /\ o.rail.status = prev.status /\ o.rail.terms = prev.terms
          /\ o.rail.offSince = prev.offSince
          /\ o.rail \in Rail
      BY <2>3, <1>3, <3>0
    <3>3. o.rail.active = prev.active
      BY <3>1, <3>2 DEF Rail
    <3> QED
      BY <1>1, <2>0, <2>3, <3>1, <3>2, <3>3, NullsAreNoValues DEF FeedFits, l
  <2>4. CASE listed /\ prev \in Rail /\ o = HandleRelisted(prev, obs, t)
    BY <2>4, <1>3, HandleRelistedSound
  <2>5. CASE /\ listed /\ prev \in Rail /\ ~prev.initial /\ ~prev.active
             /\ o = HandleInactive(prev, base, pend, obs, t)
    <3>1. prev.active = FALSE /\ prev.initial = FALSE
      BY <2>5 DEF Rail
    <3> DEFINE h == HandleInactive(prev, base, pend, obs, t)
    <3>0. ~h.rail.active /\ ~h.rail.initial /\ h.rail \in Rail
      BY <2>5, <3>1, HandleInactiveSound DEF Sound
    <3>2. ~o.rail.active /\ ~o.rail.initial /\ o.rail \in Rail
      BY <2>5, <3>0
    <3>3. o.rail.active = FALSE
      BY <3>2 DEF Rail
    <3> QED
      BY <1>1, <2>0, <2>5, <3>1, <3>2, <3>3, NullsAreNoValues DEF FeedFits, l
  <2>6. CASE prev \in Rail /\ o = HandleAbsent(prev, base, pend, t)
    <3>1. /\ o.rail.initial = prev.initial
          /\ o.rail.status = prev.status /\ o.rail.terms = prev.terms
          /\ o.rail.offSince = prev.offSince
          /\ ~prev.initial => o.rail.active = prev.active
      BY <2>6, <1>3, HandleAbsentSound
    <3> QED
      BY <1>1, <2>0, <2>6, <3>1, NullsAreNoValues DEF FeedFits, l
  <2>7. CASE o = Outcome(prev, base, pend, {})
    BY <1>1, <2>0, <2>7 DEF FeedFits, Outcome, l
  <2> QED
    BY <2>1, <2>2, <2>3, <2>4, <2>5, <2>6, <2>7, DiffCases
<1> QED
  BY <1>2, <1>3, <1>1

(* The engine's tallies fit what the process has observed: for one key,      *)
(* TalliesMatchStreaks and the bound of the type invariant.                  *)
TallyFits(rail, base, pend, run, t) ==
  /\ run.since <= t
  /\ pend.count < Confirmations
  /\ pend.count > 0 =>
       /\ rail # NoRail /\ ~rail.initial /\ rail.active
       /\ pend.target = run.target
       /\ pend.count <= run.n
       /\ pend.firstObservedAt \in run.since..t
  /\ rail # NoRail /\ rail.initial /\ base.count > 0 =>
       /\ base.target = run.target
       /\ base.count <= run.n

LEMMA StreakAfterType ==
  ASSUME NEW run \in Streak, NEW listed \in BOOLEAN, NEW obs, NEW complete \in BOOLEAN,
         NEW t0 \in Nat, NEW t \in Nat, t0 <= t, run.since <= t0,
         listed => obs \in Observation
  PROVE  LET r == StreakAfter(run, listed, obs, complete, t)
         IN  /\ r \in Streak /\ r.since <= t
             /\ listed => r.n > 0 /\ r.target = obs.status
  BY ThresholdsArePositive
  DEF StreakAfter, Streak, NoStreak, AllOff, Status, Observation, AtMost

(* A pending status that counts one more observation still fits the run that *)
(* this observation extends.                                                 *)
PendingFits(pend, run, t) ==
  pend.count > 0 => /\ pend.target = run.target /\ pend.count <= run.n
                    /\ pend.firstObservedAt \in run.since..t

LEMMA CountedPendingFits ==
  ASSUME NEW run \in Streak, NEW obs \in Observation, NEW complete \in BOOLEAN,
         NEW t0 \in Nat, NEW t \in Nat, t0 <= t, run.since <= t0,
         NEW pend \in PendingStatus, PendingFits(pend, run, t0)
  PROVE  LET c == CountedPending(pend, obs.status, t)
             r == StreakAfter(run, TRUE, obs, complete, t)
         IN  /\ c.target = r.target
             /\ c.firstObservedAt \in r.since..t
             /\ c.count < Confirmations => c.count <= r.n
             /\ c.count >= Confirmations => r.n = Confirmations
<1>1. CASE pend.count = 0 \/ pend.target # obs.status
  BY <1>1, ThresholdsArePositive
  DEF PendingFits, CountedPending, StreakAfter, Streak, Observation, PendingStatus, AtMost
<1>2. CASE pend.count # 0 /\ pend.target = obs.status
  BY <1>2, ThresholdsArePositive
  DEF PendingFits, CountedPending, StreakAfter, Streak, Observation, PendingStatus, AtMost
<1> QED
  BY <1>1, <1>2

(* The same for the tally of a baseline. *)
LEMMA CountedBaselineFits ==
  ASSUME NEW run \in Streak, NEW obs \in Observation, NEW complete \in BOOLEAN, NEW t \in Nat,
         NEW base \in PendingBaseline,
         base.count > 0 => base.target = run.target /\ base.count <= run.n
  PROVE  LET c == CountedBaseline(base, obs.status)
             r == StreakAfter(run, TRUE, obs, complete, t)
         IN  /\ c.target = r.target
             /\ c.count < Confirmations => c.count <= r.n
             /\ c.count >= Confirmations => r.n = Confirmations
  BY ThresholdsArePositive
  DEF CountedBaseline, StreakAfter, Streak, Observation, PendingBaseline, AtMost

(* Whether the poll commits (the row becomes o.rail) or is rolled back (it   *)
(* stays prev), the engine's tallies still fit what was observed.            *)
LEMMA DiffTally ==
  ASSUME NEW prev, NEW base, NEW pend, NEW listed, NEW obs, NEW complete, NEW t,
         DiffArgs(prev, base, pend, listed, obs, complete, t),
         NEW run \in Streak, NEW t0 \in Nat, t0 <= t,
         TallyFits(prev, base, pend, run, t0)
  PROVE  LET o == Diff(prev, base, pend, listed, obs, complete, t)
             r == StreakAfter(run, listed, obs, complete, t)
         IN  /\ TallyFits(o.rail, o.baseline, o.pending, r, t)
             /\ TallyFits(prev, o.baseline, o.pending, r, t)
<1> DEFINE o == Diff(prev, base, pend, listed, obs, complete, t)
           r == StreakAfter(run, listed, obs, complete, t)
           Goal == /\ TallyFits(o.rail, o.baseline, o.pending, r, t)
                   /\ TallyFits(prev, o.baseline, o.pending, r, t)
<1> SUFFICES Goal
  OBVIOUS
<1> USE DEF DiffArgs
<1>0. /\ r \in Streak /\ r.since <= t
      /\ listed => r.n > 0 /\ r.target = obs.status
  BY StreakAfterType DEF TallyFits
<1>8. NoPending.count = 0 /\ NoBaseline.count = 0 /\ 0 < Confirmations
  BY EmptyTallies, ThresholdsArePositive
<1> HIDE DEF r, o
<1>1. CASE listed /\ prev = NoRail /\ o = InsertInitial(obs, t)
  <2>1. o.pending = NoPending /\ o.baseline = [target |-> obs.status, count |-> 1]
    BY <1>1, InsertInitialSound
  <2> QED
    BY <1>0, <1>1, <1>8, <2>1 DEF TallyFits, Streak
<1>2. CASE listed /\ prev \in Rail /\ prev.initial /\ o = HandleInitial(prev, base, obs, t)
  <2> DEFINE c == CountedBaseline(base, obs.status)
  <2>1. /\ o.pending = NoPending
        /\ o.baseline = IF Confirmed(c.count) THEN NoBaseline ELSE c
    BY <1>2, HandleInitialSound
  <2>2. base.count > 0 => base.target = run.target /\ base.count <= run.n
    BY <1>2, NullsAreNoValues DEF TallyFits
  <2>3. c.target = r.target /\ (c.count < Confirmations => c.count <= r.n)
    <3>1. listed = TRUE
      BY <1>2
    <3>2. r = StreakAfter(run, TRUE, obs, complete, t)
      BY <3>1 DEF r
    <3>3. obs \in Observation /\ base \in PendingBaseline
      BY <3>1
    <3>4. /\ c.target = StreakAfter(run, TRUE, obs, complete, t).target
          /\ c.count < Confirmations =>
               c.count <= StreakAfter(run, TRUE, obs, complete, t).n
      BY <2>2, <3>3, CountedBaselineFits
    <3> QED
      BY <3>2, <3>4
  <2>4. c.count \in Nat
    BY <1>2, CountedType DEF PendingBaseline, Observation, PendingStatus
  <2> HIDE DEF c
  <2>5. ~Confirmed(c.count) => c.count < Confirmations
    BY <2>4, ThresholdsArePositive DEF Confirmed
  <2> QED
    BY <1>0, <1>8, <2>1, <2>3, <2>5 DEF TallyFits
<1>3. CASE /\ listed /\ prev \in Rail /\ ~prev.initial /\ prev.active
           /\ o = HandleActive(prev, base, pend, obs, t)
  <2> DEFINE c == CountedPending(pend, obs.status, t)
             due == obs.status # prev.status /\ Confirmed(c.count)
             h == HandleActive(prev, base, pend, obs, t)
  <2>1. prev.active = TRUE /\ prev.initial = FALSE
    BY <1>3 DEF Rail
  <2>2. /\ h.rail.active /\ ~h.rail.initial /\ h.rail \in Rail
        /\ h.pending = IF obs.status = prev.status \/ due THEN NoPending ELSE c
    BY <1>3, <2>1, HandleActiveSound DEF Sound
  <2>3. /\ o.rail.active /\ ~o.rail.initial /\ o.rail \in Rail
        /\ o.pending = NoPending \/ (o.pending = c /\ ~Confirmed(c.count))
    BY <1>3, <2>2
  <2>4. PendingFits(pend, run, t0)
    BY DEF TallyFits, PendingFits
  <2>5. /\ c.target = r.target /\ c.firstObservedAt \in r.since..t
        /\ c.count < Confirmations => c.count <= r.n
    BY <1>3, <2>4, CountedPendingFits DEF r, TallyFits
  <2>6. c.count \in Nat
    BY <1>3, CountedType DEF Observation
  <2> HIDE DEF c
  <2>7. ~Confirmed(c.count) => c.count < Confirmations
    BY <2>6, ThresholdsArePositive DEF Confirmed
  <2> QED
    BY <1>0, <1>8, <1>3, <2>3, <2>5, <2>7, NullsAreNoValues DEF TallyFits
<1>4. CASE /\ listed /\ prev \in Rail /\ ~prev.initial
           /\ o = HandleRelisted(prev, obs, t)
  <2>1. o.pending = NoPending /\ o.baseline = NoBaseline
    BY <1>4, HandleRelistedSound
  <2> QED
    BY <1>0, <1>8, <2>1 DEF TallyFits
<1>5. CASE /\ listed /\ prev \in Rail /\ ~prev.initial /\ ~prev.active
           /\ o = HandleInactive(prev, base, pend, obs, t)
  <2> DEFINE h == HandleInactive(prev, base, pend, obs, t)
  <2>1. prev.active = FALSE /\ prev.initial = FALSE
    BY <1>5 DEF Rail
  <2>2. h.pending = pend /\ ~h.rail.initial
    BY <1>5, <2>1, HandleInactiveSound
  <2>3. o.pending = pend /\ ~o.rail.initial
    BY <1>5, <2>2
  <2>4. pend.count = 0
    BY <1>5 DEF TallyFits, PendingStatus
  <2> QED
    BY <1>0, <1>8, <1>5, <2>3, <2>4 DEF TallyFits
<1>6. CASE prev \in Rail /\ complete /\ o = HandleAbsent(prev, base, pend, t)
  <2>1. o.pending = NoPending /\ o.baseline = NoBaseline
    BY <1>6, HandleAbsentSound
  <2> QED
    BY <1>0, <1>8, <2>1 DEF TallyFits
<1>7. CASE /\ ~listed /\ (prev = NoRail \/ ~complete)
           /\ o = Outcome(prev, base, pend, {})
  <2>1. o.rail = prev /\ o.pending = pend /\ o.baseline = base
    BY <1>7 DEF Outcome
  <2>2. CASE prev = NoRail
    <3>1. pend.count = 0
      BY <2>2 DEF TallyFits, PendingStatus
    <3> QED
      BY <1>0, <1>8, <2>1, <2>2, <3>1 DEF TallyFits
  <2>3. CASE ~complete
    <3>1. r = run
      BY <1>7, <2>3 DEF r, StreakAfter
    <3> QED
      BY <2>1, <3>1, <1>0 DEF TallyFits, Streak, PendingStatus
  <2> QED
    BY <1>7, <2>2, <2>3
<1> QED
  BY <1>1, <1>2, <1>3, <1>4, <1>5, <1>6, <1>7, DiffCases DEF o

-----------------------------------------------------------------------------
(* Part 3: the inductive invariant *)

(* The three invariants lean on one another: the outage starts and the feed  *)
(* need typed rows, the feed's agreement needs nothing of the tallies, and   *)
(* the tallies need that a streak lies in the past.                          *)
KeyInv(k) ==
  /\ RailOff(rails[k])
  /\ FeedFits(rails[k], told[k])
  /\ TallyFits(rails[k], baseline[k], pending[k], streak[k], now)

IInv == TypeOK /\ \A k \in Keys : KeyInv(k)

LEMMA IInvSuffices == IInv => OffSinceIffOff /\ FeedAgrees /\ TalliesMatchStreaks
  BY DEF IInv, KeyInv, RailOff, OffStartsFit, FeedFits, TallyFits, OffSinceIffOff,
         FeedAgrees, TalliesMatchStreaks, Tracked

LEMMA InitIInv == Init => IInv
<1> SUFFICES ASSUME Init PROVE IInv
  OBVIOUS
<1> USE DEF Init
<1>1. NoStreak \in Streak /\ NoStreak.since = 0
  BY ThresholdsArePositive DEF NoStreak, Streak, AllOff, Status
<1>2. TypeOK
  BY <1>1, EmptyTallies, ThresholdsArePositive DEF TypeOK, Quiet, NoEvents
<1>3. ASSUME NEW k \in Keys PROVE KeyInv(k)
  BY <1>1, EmptyTallies, ThresholdsArePositive
  DEF KeyInv, RailOff, FeedFits, TallyFits
<1> QED
  BY <1>2, <1>3 DEF IInv

(* A poll decides about every key from typed arguments. *)
LEMMA PollArgs ==
  ASSUME IInv, NEW seen \in SUBSET Keys, NEW complete \in BOOLEAN,
         Fetched(seen, complete), Tick, NEW k \in Keys
  PROVE  /\ DiffArgs(rails[k], baseline[k], pending[k], k \in seen, source[k],
                     complete, now')
         /\ now \in Nat /\ now' \in Nat /\ now <= now'
         /\ streak[k] \in Streak
         /\ told[k] \in Rail \cup {NoRail}
<1>1. now \in Nat /\ now' \in {now, now + 1}
  BY DEF IInv, TypeOK, Tick
<1>2. k \in seen => source[k] # Unlisted
  BY DEF Fetched, Listed
<1> QED
  BY <1>1, <1>2 DEF IInv, TypeOK, DiffArgs

(* What a poll leaves in memory and in the histories, committed or not. *)
LEMMA PollMemory ==
  ASSUME IInv, NEW seen \in SUBSET Keys, NEW complete \in BOOLEAN,
         Fetched(seen, complete), Tick, Remember(seen, complete), Observe(seen, complete)
  PROVE  /\ now' \in Nat
         /\ baseline' \in [Keys -> PendingBaseline]
         /\ pending' \in [Keys -> PendingStatus]
         /\ \A k \in Keys : pending'[k].count < Confirmations
         /\ streak' \in [Keys -> Streak]
         /\ gone' \in [Keys -> 0..DelistThreshold]
         /\ \A k \in Keys :
              LET o == Decided(k, seen, complete, now')
              IN  /\ TallyFits(o.rail, baseline'[k], pending'[k], streak'[k], now')
                  /\ TallyFits(rails[k], baseline'[k], pending'[k], streak'[k], now')
<1>1. ASSUME NEW k \in Keys
      PROVE  LET o == Decided(k, seen, complete, now')
                 r == StreakAfter(streak[k], k \in seen, source[k], complete, now')
             IN  /\ o.baseline \in PendingBaseline
                 /\ o.pending \in PendingStatus
                 /\ r \in Streak
                 /\ TallyFits(o.rail, o.baseline, o.pending, r, now')
                 /\ TallyFits(rails[k], o.baseline, o.pending, r, now')
  <2>1. /\ DiffArgs(rails[k], baseline[k], pending[k], k \in seen, source[k],
                    complete, now')
        /\ now \in Nat /\ now' \in Nat /\ now <= now'
        /\ streak[k] \in Streak
    BY PollArgs
  <2>2. TallyFits(rails[k], baseline[k], pending[k], streak[k], now)
    BY DEF IInv, KeyInv
  <2>3. Decided(k, seen, complete, now') \in OutcomeType
    BY <2>1, DiffSound DEF Decided
  <2>4. StreakAfter(streak[k], k \in seen, source[k], complete, now') \in Streak
    BY <2>1, <2>2, StreakAfterType DEF TallyFits, DiffArgs
  <2> QED
    BY <2>1, <2>2, <2>3, <2>4, DiffTally DEF Decided, OutcomeType
<1>2. /\ baseline' = [k \in Keys |-> Decided(k, seen, complete, now').baseline]
      /\ pending' = [k \in Keys |-> Decided(k, seen, complete, now').pending]
  BY DEF Remember
<1>3. streak' = [k \in Keys |->
                  StreakAfter(streak[k], k \in seen, source[k], complete, now')]
  BY DEF Observe
<1>4. now' \in Nat
  BY DEF IInv, TypeOK, Tick
<1>5. gone' \in [Keys -> 0..DelistThreshold]
  BY ThresholdsArePositive DEF Observe, IInv, TypeOK, AtMost
<1>6. \A k \in Keys :
        LET o == Decided(k, seen, complete, now')
        IN  /\ TallyFits(o.rail, baseline'[k], pending'[k], streak'[k], now')
            /\ TallyFits(rails[k], baseline'[k], pending'[k], streak'[k], now')
  BY <1>1, <1>2, <1>3
<1>7. \A k \in Keys : pending'[k].count < Confirmations
  BY <1>6 DEF TallyFits
<1> QED
  BY <1>1, <1>2, <1>3, <1>4, <1>5, <1>6, <1>7

LEMMA CommitKeepsIInv ==
  ASSUME IInv, NEW seen \in SUBSET Keys, NEW complete \in BOOLEAN,
         PollCommits(seen, complete)
  PROVE  IInv'
<1> USE DEF PollCommits
<1>1. ASSUME NEW k \in Keys
      PROVE  LET o == Decided(k, seen, complete, now')
                 l == Learnt(told[k], rails[k], o.rail, o.events)
             IN  /\ o.rail \in Rail \cup {NoRail} /\ o.events \subseteq Event
                 /\ l \in Rail \cup {NoRail}
                 /\ RailOff(o.rail) /\ FeedFits(o.rail, l)
  <2>1. /\ DiffArgs(rails[k], baseline[k], pending[k], k \in seen, source[k],
                    complete, now')
        /\ told[k] \in Rail \cup {NoRail}
    BY PollArgs
  <2>2. RailOff(rails[k]) /\ FeedFits(rails[k], told[k])
    BY DEF IInv, KeyInv
  <2>3. /\ Decided(k, seen, complete, now') \in OutcomeType
        /\ RailOff(Decided(k, seen, complete, now').rail)
    BY <2>1, <2>2, DiffSound DEF Decided
  <2>4. LET o == Decided(k, seen, complete, now')
            l == Learnt(told[k], rails[k], o.rail, o.events)
        IN  l \in Rail \cup {NoRail} /\ FeedFits(o.rail, l)
    BY <2>1, <2>2, DiffFeed DEF Decided
  <2> QED
    BY <2>3, <2>4 DEF OutcomeType
<1>2. ASSUME NEW k \in Keys
      PROVE  LET o == Decided(k, seen, complete, now')
             IN  /\ rails'[k] = o.rail
                 /\ last'.events[k] = o.events
                 /\ told'[k] = Learnt(told[k], rails[k], o.rail, o.events)
  OBVIOUS
<1>3. /\ now' \in Nat
      /\ baseline' \in [Keys -> PendingBaseline]
      /\ pending' \in [Keys -> PendingStatus]
      /\ \A k \in Keys : pending'[k].count < Confirmations
      /\ streak' \in [Keys -> Streak]
      /\ gone' \in [Keys -> 0..DelistThreshold]
      /\ \A k \in Keys :
            TallyFits(Decided(k, seen, complete, now').rail,
                      baseline'[k], pending'[k], streak'[k], now')
  BY PollMemory
<1>4. /\ rails' \in [Keys -> Rail \cup {NoRail}]
      /\ told' \in [Keys -> Rail \cup {NoRail}]
  BY <1>1, <1>2
<1>5. /\ last'.kind \in {"none", "partial", "complete", "failed"}
      /\ last'.seen \subseteq Keys
      /\ \A k \in Keys : last'.events[k] \subseteq Event
  BY <1>1, <1>2
<1>6. TypeOK'
  BY <1>3, <1>4, <1>5 DEF TypeOK, IInv
<1>7. ASSUME NEW k \in Keys PROVE KeyInv(k)'
  BY <1>1, <1>2, <1>3 DEF KeyInv
<1> QED
  BY <1>6, <1>7 DEF IInv

LEMMA RollbackKeepsIInv ==
  ASSUME IInv, NEW seen \in SUBSET Keys, NEW complete \in BOOLEAN,
         PollRollsBack(seen, complete)
  PROVE  IInv'
<1> USE DEF PollRollsBack, table
<1>1. /\ now' \in Nat
      /\ baseline' \in [Keys -> PendingBaseline]
      /\ pending' \in [Keys -> PendingStatus]
      /\ \A k \in Keys : pending'[k].count < Confirmations
      /\ streak' \in [Keys -> Streak]
      /\ gone' \in [Keys -> 0..DelistThreshold]
      /\ \A k \in Keys :
            TallyFits(rails[k], baseline'[k], pending'[k], streak'[k], now')
  BY PollMemory
<1>2. TypeOK'
  BY <1>1 DEF TypeOK, IInv, NoEvents
<1>3. ASSUME NEW k \in Keys PROVE KeyInv(k)'
  BY <1>1 DEF KeyInv, IInv
<1> QED
  BY <1>2, <1>3 DEF IInv

LEMMA RestartKeepsIInv == IInv /\ Restart => IInv'
<1> SUFFICES ASSUME IInv, Restart PROVE IInv'
  OBVIOUS
<1> USE DEF Restart, table
<1>1. NoStreak \in Streak /\ NoStreak.since = 0
  BY ThresholdsArePositive DEF NoStreak, Streak, AllOff, Status
<1>2. TypeOK'
  BY <1>1, EmptyTallies, ThresholdsArePositive DEF TypeOK, IInv, Quiet, NoEvents
<1>3. ASSUME NEW k \in Keys PROVE KeyInv(k)'
  <2>1. RailOff(rails[k])' /\ FeedFits(rails[k], told[k])'
    BY DEF KeyInv, IInv
  <2>2. now' \in Nat
    BY DEF IInv, TypeOK
  <2>3. TallyFits(rails[k], baseline[k], pending[k], streak[k], now)'
    BY <1>1, <2>2, EmptyTallies, ThresholdsArePositive DEF TallyFits
  <2> QED
    BY <2>1, <2>3 DEF KeyInv
<1> QED
  BY <1>2, <1>3 DEF IInv

(* The environment and stuttering touch nothing the invariant reads, except  *)
(* the source and the record of the last step.                               *)
LEMMA QuietStepKeepsIInv ==
  ASSUME IInv, (\E k \in Keys : SourceChanges(k)) \/ UNCHANGED vars
  PROVE  IInv'
<1>1. UNCHANGED <<now, rails, told, baseline, pending, failures, restarts, streak, gone>>
  BY DEF SourceChanges, vars, table, memory, history
<1>2. /\ source' \in [Keys -> Observation \cup {Unlisted}]
      /\ last'.kind \in {"none", "partial", "complete", "failed"}
      /\ last'.seen \subseteq Keys
      /\ \A k \in Keys : last'.events[k] \subseteq Event
  BY DEF SourceChanges, vars, IInv, TypeOK, Quiet, NoEvents
<1> QED
  BY <1>1, <1>2 DEF IInv, TypeOK, KeyInv

LEMMA NextKeepsIInv == IInv /\ [Next]_vars => IInv'
<1> SUFFICES ASSUME IInv, [Next]_vars PROVE IInv'
  OBVIOUS
<1>1. CASE (\E k \in Keys : SourceChanges(k)) \/ UNCHANGED vars
  BY <1>1, QuietStepKeepsIInv
<1>2. ASSUME NEW seen \in SUBSET Keys, NEW complete \in BOOLEAN,
             PollCommits(seen, complete)
      PROVE  IInv'
  BY <1>2, CommitKeepsIInv
<1>3. ASSUME NEW seen \in SUBSET Keys, NEW complete \in BOOLEAN,
             PollRollsBack(seen, complete)
      PROVE  IInv'
  BY <1>3, RollbackKeepsIInv
<1>4. CASE Restart
  BY <1>4, RestartKeepsIInv
<1> QED
  BY <1>1, <1>2, <1>3, <1>4 DEF Next

(* The strengthened invariant holds of every behaviour. *)
THEOREM Invariance == Spec => []IInv
  BY InitIInv, NextKeepsIInv, PTL DEF Spec

(* Type correctness, for every set of keys and every threshold. *)
THEOREM TypeCorrect == Spec => []TypeOK
<1>1. IInv => TypeOK
  BY DEF IInv
<1> QED
  BY <1>1, Invariance, PTL

(* An "off since" exists exactly for the directions stored as off. *)
THEOREM OffSinceCorrect == Spec => []OffSinceIffOff
  BY IInvSuffices, Invariance, PTL

(* Nothing a reader of the feed cares about changes without an event, across *)
(* any number of rollbacks and restarts.                                     *)
THEOREM FeedComplete == Spec => []FeedAgrees
  BY IInvSuffices, Invariance, PTL

(* The tallies never run ahead of what the process observed. *)
THEOREM TalliesFaithful == Spec => []TalliesMatchStreaks
  BY IInvSuffices, Invariance, PTL

-----------------------------------------------------------------------------
(* Part 4: what a poll requires before it stores something *)

(* The row that a poll stores instead of prev, and the run of observations   *)
(* that the poll ends.                                                       *)
Confirms(prev, rail, run, t) ==
  /\ prev.initial /\ ~rail.initial => run.n = Confirmations /\ run.target = rail.status
  /\ ~prev.initial /\ prev.active /\ rail.active /\ rail.status # prev.status =>
       /\ run.n = Confirmations /\ run.target = rail.status
       /\ \A d \in Directions : prev.status[d] /\ ~rail.status[d] =>
            rail.offSince[d] \in run.since..t

LEMMA InitialConfirms ==
  ASSUME NEW prev \in Rail, prev.initial, NEW base \in PendingBaseline,
         NEW obs \in Observation, NEW complete \in BOOLEAN, NEW t \in Nat,
         NEW run \in Streak,
         base.count > 0 => base.target = run.target /\ base.count <= run.n
  PROVE  Confirms(prev, HandleInitial(prev, base, obs, t).rail,
                  StreakAfter(run, TRUE, obs, complete, t), t)
<1> DEFINE o == HandleInitial(prev, base, obs, t)
           c == CountedBaseline(base, obs.status)
           r == StreakAfter(run, TRUE, obs, complete, t)
<1>1. o.rail.status = obs.status /\ (o.rail.initial <=> ~Confirmed(c.count))
  BY HandleInitialSound
<1>2. c.target = obs.status
  BY CountedType, EmptyTallies DEF Observation
<1>3. c.target = r.target /\ (c.count >= Confirmations => r.n = Confirmations)
  BY CountedBaselineFits
<1> HIDE DEF o, c, r
<1>4. prev.initial = TRUE
  BY DEF Rail
<1> QED
  BY <1>1, <1>2, <1>3, <1>4 DEF Confirms, Confirmed, o, r

LEMMA ActiveConfirms ==
  ASSUME NEW prev \in Rail, prev.active, ~prev.initial,
         NEW base \in PendingBaseline, NEW pend \in PendingStatus,
         NEW obs \in Observation, NEW complete \in BOOLEAN,
         NEW t0 \in Nat, NEW t \in Nat, t0 <= t,
         NEW run \in Streak, run.since <= t0, PendingFits(pend, run, t0)
  PROVE  Confirms(prev, HandleActive(prev, base, pend, obs, t).rail,
                  StreakAfter(run, TRUE, obs, complete, t), t)
<1> DEFINE o == HandleActive(prev, base, pend, obs, t)
           c == CountedPending(pend, obs.status, t)
           due == obs.status # prev.status /\ Confirmed(c.count)
           r == StreakAfter(run, TRUE, obs, complete, t)
<1>1. /\ ~due => o.rail.status = prev.status
      /\ due => /\ o.rail.status = obs.status
                /\ o.rail.offSince =
                     ApplyStatus(prev, obs.status, c.firstObservedAt).offSince
  BY HandleActiveSound
<1>2. c.target = obs.status
  BY CountedType DEF Observation
<1>3. /\ c.target = r.target /\ c.firstObservedAt \in r.since..t
      /\ c.count >= Confirmations => r.n = Confirmations
  BY CountedPendingFits
<1>4. obs.status \in Status
  BY DEF Observation
<1>5. \A d \in Directions : prev.status[d] /\ ~obs.status[d] =>
        ApplyStatus(prev, obs.status, c.firstObservedAt).offSince[d] = c.firstObservedAt
  BY <1>4 DEF ApplyStatus, Rail, Status
<1> HIDE DEF o, c, r
<1>6. prev.initial = FALSE
  BY DEF Rail
<1> QED
  BY <1>1, <1>2, <1>3, <1>5, <1>6 DEF Confirms, Confirmed, o, r

(* The other ways a key fares change no status of a listed rail and end no   *)
(* initial phase.                                                            *)
LEMMA DiffConfirms ==
  ASSUME NEW prev \in Rail, NEW base, NEW pend, NEW listed, NEW obs, NEW complete, NEW t,
         DiffArgs(prev, base, pend, listed, obs, complete, t),
         NEW run \in Streak, NEW t0 \in Nat, t0 <= t,
         TallyFits(prev, base, pend, run, t0)
  PROVE  Confirms(prev, Diff(prev, base, pend, listed, obs, complete, t).rail,
                  StreakAfter(run, listed, obs, complete, t), t)
<1> DEFINE o == Diff(prev, base, pend, listed, obs, complete, t)
           r == StreakAfter(run, listed, obs, complete, t)
<1> SUFFICES Confirms(prev, o.rail, r, t)
  OBVIOUS
<1> USE DEF DiffArgs
<1>0. prev # NoRail /\ prev.initial \in BOOLEAN /\ prev.active \in BOOLEAN
  BY NullsAreNoValues DEF Rail
<1>2. CASE listed /\ prev.initial /\ o = HandleInitial(prev, base, obs, t)
  <2>1. base.count > 0 => base.target = run.target /\ base.count <= run.n
    BY <1>0, <1>2 DEF TallyFits
  <2>2. listed = TRUE
    BY <1>2
  <2> QED
    BY <1>2, <2>1, <2>2, InitialConfirms
<1>3. CASE /\ listed /\ ~prev.initial /\ prev.active
           /\ o = HandleActive(prev, base, pend, obs, t)
  <2>1. run.since <= t0 /\ PendingFits(pend, run, t0)
    BY DEF TallyFits, PendingFits
  <2>2. listed = TRUE
    BY <1>3
  <2> QED
    BY <1>3, <2>1, <2>2, ActiveConfirms
<1>4. CASE ~prev.initial /\ ~prev.active
  BY <1>4 DEF Confirms
<1>6. CASE o = HandleAbsent(prev, base, pend, t)
  <2>1. o.rail.initial = prev.initial /\ o.rail.status = prev.status
    BY <1>6, HandleAbsentSound
  <2> QED
    BY <1>0, <2>1 DEF Confirms
<1>7. CASE o = Outcome(prev, base, pend, {})
  <2>1. o.rail = prev
    BY <1>7 DEF Outcome
  <2> QED
    BY <1>0, <2>1 DEF Confirms
<1> QED
  BY <1>0, <1>2, <1>3, <1>4, <1>6, <1>7, DiffCases

-----------------------------------------------------------------------------
(* Part 5: confirmations, whatever is rolled back *)

(* In one step of the system: a commit confirms what it stores, and no other *)
(* step stores anything.                                                     *)
LEMMA StepConfirms ==
  ASSUME IInv, [Next]_vars, NEW k \in Keys, rails[k] # NoRail
  PROVE  \/ rails'[k] = rails[k]
         \/ Confirms(rails[k], rails'[k], streak'[k], now')
<1>1. CASE \/ (\E j \in Keys : SourceChanges(j)) \/ UNCHANGED vars \/ Restart
           \/ \E seen \in SUBSET Keys, complete \in BOOLEAN : PollRollsBack(seen, complete)
  BY <1>1 DEF SourceChanges, Restart, PollRollsBack, vars, table
<1>2. ASSUME NEW seen \in SUBSET Keys, NEW complete \in BOOLEAN,
             PollCommits(seen, complete)
      PROVE  Confirms(rails[k], rails'[k], streak'[k], now')
  <2>1. Fetched(seen, complete) /\ Tick
    BY <1>2 DEF PollCommits
  <2>2. /\ DiffArgs(rails[k], baseline[k], pending[k], k \in seen, source[k],
                    complete, now')
        /\ now \in Nat /\ now' \in Nat /\ now <= now'
        /\ streak[k] \in Streak
    BY <2>1, PollArgs
  <2>3. TallyFits(rails[k], baseline[k], pending[k], streak[k], now)
    BY DEF IInv, KeyInv
  <2>4. rails[k] \in Rail
    BY DEF IInv, TypeOK
  <2>5. /\ rails'[k] = Decided(k, seen, complete, now').rail
        /\ streak'[k] = StreakAfter(streak[k], k \in seen, source[k], complete, now')
    BY <1>2 DEF PollCommits, Observe
  <2> QED
    BY <2>2, <2>3, <2>4, <2>5, DiffConfirms DEF Decided
<1> QED
  BY <1>1, <1>2 DEF Next

(* The status of a rail, the first one and every later one, is stored only   *)
(* when this process has observed it Confirmations times in a row, whatever  *)
(* transactions failed meanwhile.                                            *)
THEOREM StatusConfirmed == Spec => StoredStatusIsConfirmed
<1>1. ASSUME IInv, [Next]_vars, NEW k \in Keys, StatusIsStored(k)
      PROVE  streak'[k].n = Confirmations /\ streak'[k].target = rails'[k].status
  <2>1. rails[k] # NoRail /\ rails'[k] # rails[k]
    BY <1>1 DEF StatusIsStored, Tracked
  <2>2. Confirms(rails[k], rails'[k], streak'[k], now')
    BY <1>1, <2>1, StepConfirms
  <2> QED
    BY <1>1, <2>2 DEF StatusIsStored, Tracked, Confirms
<1>2. IInv /\ [Next]_vars =>
        [\A k \in Keys : StatusIsStored(k) =>
           streak'[k].n = Confirmations /\ streak'[k].target = rails'[k].status]_vars
  BY <1>1
<1> QED
  BY <1>2, Invariance, PTL DEF Spec, StoredStatusIsConfirmed

-----------------------------------------------------------------------------
(* Part 6: dates and absences, as long as no transaction failed *)

(* Absences counts the complete polls in a row without the key.              *)
AbsencesAfter(absences, listed, complete) ==
  IF listed THEN 0
  ELSE IF complete THEN AtMost(absences + 1, DelistThreshold) ELSE absences

(* What no rollback has disturbed: the status observed last is the stored    *)
(* one or the pending one, a pending status is dated by the beginning of its *)
(* run, and the row has counted every absence.                               *)
CleanFits(rail, pend, run, absences) ==
  /\ run.n > 0 => rail # NoRail
  /\ run.n > 0 /\ pend.count = 0 => run.target = rail.status
  /\ pend.count > 0 => pend.firstObservedAt = run.since
  /\ rail # NoRail /\ rail.active => /\ rail.missingCount = absences
                                    /\ absences < DelistThreshold

(* An observation ends the absences of a row that it makes or leaves active. *)
LEMMA ObservationCounts ==
  ASSUME NEW prev \in Rail, NEW base \in PendingBaseline, NEW pend \in PendingStatus,
         NEW obs \in Observation, NEW t \in Nat
  PROVE  /\ InsertInitial(obs, t).rail.missingCount = 0
         /\ InsertInitial(obs, t).rail.status = obs.status
         /\ HandleInitial(prev, base, obs, t).rail.missingCount = 0
         /\ HandleRelisted(prev, obs, t).rail.missingCount = 0
         /\ HandleRelisted(prev, obs, t).rail.status = obs.status
         /\ HandleInactive(prev, base, pend, obs, t).rail.status = obs.status
<1> DEFINE p == Present(ApplyObservation(prev, obs, t))
           c == CountedBaseline(base, obs.status)
<1>1. /\ InsertInitial(obs, t).rail.missingCount = 0
      /\ InsertInitial(obs, t).rail.status = obs.status
  BY DEF InsertInitial, Outcome, RailFromObservation
<1>2. /\ ApplyObservation(prev, obs, t) \in Rail
      /\ ApplyObservation(prev, obs, t).status = obs.status
  BY ApplyObservationType
<1>3. p \in Rail /\ p.missingCount = 0 /\ p.status = obs.status
  BY <1>2, PresentType DEF Present, Rail
<1>4. /\ HandleInitial(prev, base, obs, t).rail
           = [p EXCEPT !.initial = ~Confirmed(c.count)]
      /\ HandleRelisted(prev, obs, t).rail
           = [p EXCEPT !.active = TRUE, !.initial = FALSE]
  BY DEF HandleInitial, HandleRelisted, Outcome
<1>5. HandleInactive(prev, base, pend, obs, t).rail = ApplyObservation(prev, obs, t)
  BY DEF HandleInactive, Outcome
<1> HIDE DEF p, c
<1>6. HandleInitial(prev, base, obs, t).rail.missingCount = 0
  BY <1>3, <1>4 DEF Rail
<1>7. /\ HandleRelisted(prev, obs, t).rail.missingCount = 0
      /\ HandleRelisted(prev, obs, t).rail.status = obs.status
  BY <1>3, <1>4 DEF Rail
<1> QED
  BY <1>1, <1>2, <1>5, <1>6, <1>7

LEMMA ActiveCounts ==
  ASSUME NEW prev \in Rail, NEW base \in PendingBaseline, NEW pend \in PendingStatus,
         NEW obs \in Observation, NEW t \in Nat
  PROVE  HandleActive(prev, base, pend, obs, t).rail.missingCount = 0
<1> DEFINE seen == [Present(ApplyTerms(prev, obs)) EXCEPT !.active = TRUE, !.initial = FALSE]
           c == CountedPending(pend, obs.status, t)
           due == ~(obs.status = prev.status) /\ Confirmed(c.count)
           after == IF due THEN ApplyStatus(seen, obs.status, c.firstObservedAt) ELSE seen
<1>1. seen \in Rail /\ seen.missingCount = 0
  BY DEF ApplyTerms, Present, Rail, Observation
<1>2. c.firstObservedAt \in Nat /\ obs.status \in Status
  BY CountedType DEF Observation, PendingStatus
<1>3. HandleActive(prev, base, pend, obs, t).rail = after
  BY DEF HandleActive, Outcome
<1> HIDE DEF seen, c, due
<1>4. ApplyStatus(seen, obs.status, c.firstObservedAt).missingCount = seen.missingCount
  BY <1>1, <1>2, ApplyStatusType
<1> QED
  BY <1>1, <1>3, <1>4

LEMMA AbsenceCounts ==
  ASSUME NEW prev \in Rail, NEW base, NEW pend, NEW t \in Nat
  PROVE  LET rail == HandleAbsent(prev, base, pend, t).rail
         IN  /\ rail.missingCount = prev.missingCount + 1
             /\ rail.active => prev.active /\ prev.missingCount + 1 < DelistThreshold
<1> DEFINE m == prev.missingCount + 1
           d == prev.active /\ m >= DelistThreshold
           r == [prev EXCEPT !.missingCount = m, !.active = @ /\ ~d,
                             !.missingSince = IF d THEN t ELSE @]
<1>1. HandleAbsent(prev, base, pend, t).rail = r
  BY DEF HandleAbsent, Outcome
<1>2. m \in Nat /\ (d <=> prev.active /\ ~(m < DelistThreshold))
  BY ThresholdsArePositive DEF Rail
<1> HIDE DEF d
<1>3. r.missingCount = m /\ (r.active <=> prev.active /\ ~d)
  BY DEF Rail
<1> QED
  BY <1>1, <1>2, <1>3

(* A new status is dated by the run of observations it begins.               *)
LEMMA PendingDatesItsRun ==
  ASSUME NEW pend \in PendingStatus, NEW run \in Streak, NEW stored \in Status,
         NEW obs \in Observation, obs.status # stored,
         NEW complete \in BOOLEAN, NEW t0 \in Nat, NEW t \in Nat,
         PendingFits(pend, run, t0),
         run.n > 0 /\ pend.count = 0 => run.target = stored,
         pend.count > 0 => pend.firstObservedAt = run.since
  PROVE  CountedPending(pend, obs.status, t).firstObservedAt
           = StreakAfter(run, TRUE, obs, complete, t).since
<1> DEFINE c == CountedPending(pend, obs.status, t)
           r == StreakAfter(run, TRUE, obs, complete, t)
<1>1. CASE pend.count = 0
  <2>1. c.firstObservedAt = t
    BY <1>1 DEF CountedPending
  <2>2. ~(run.n > 0 /\ run.target = obs.status)
    BY <1>1
  <2>3. r.since = t
    BY <2>2 DEF StreakAfter
  <2> QED
    BY <2>1, <2>3
<1>2. CASE pend.count > 0
  BY <1>2 DEF PendingFits, CountedPending, StreakAfter, Streak, PendingStatus
<1>3. pend.count = 0 \/ pend.count > 0
  BY DEF PendingStatus
<1> QED
  BY <1>1, <1>2, <1>3

(* What one poll that commits does to a key, if none has failed before.      *)
DatedAndCounted(prev, rail, run, absences, complete) ==
  /\ prev.active /\ ~rail.active => absences = DelistThreshold /\ complete
  /\ ~prev.initial /\ prev.active /\ rail.active =>
       \A d \in Directions : prev.status[d] /\ ~rail.status[d] =>
         rail.offSince[d] = run.since

LEMMA ActiveClean ==
  ASSUME NEW prev \in Rail, prev.active, ~prev.initial,
         NEW base \in PendingBaseline, NEW pend \in PendingStatus,
         NEW obs \in Observation, NEW complete \in BOOLEAN,
         NEW t0 \in Nat, NEW t \in Nat, t0 <= t,
         NEW run \in Streak, run.since <= t0, PendingFits(pend, run, t0),
         NEW absences, CleanFits(prev, pend, run, absences)
  PROVE  LET o == HandleActive(prev, base, pend, obs, t)
             r == StreakAfter(run, TRUE, obs, complete, t)
         IN  /\ CleanFits(o.rail, o.pending, r, 0)
             /\ DatedAndCounted(prev, o.rail, r, 0, complete)
<1> DEFINE o == HandleActive(prev, base, pend, obs, t)
           c == CountedPending(pend, obs.status, t)
           due == obs.status # prev.status /\ Confirmed(c.count)
           r == StreakAfter(run, TRUE, obs, complete, t)
<1>0. prev # NoRail /\ prev.active = TRUE /\ prev.status \in Status /\ obs.status \in Status
  BY NullsAreNoValues DEF Rail, Observation
<1>1. /\ o.rail \in Rail /\ o.rail.active
      /\ o.pending = IF obs.status = prev.status \/ due THEN NoPending ELSE c
      /\ ~due => o.rail.status = prev.status
      /\ due => /\ o.rail.status = obs.status
                /\ o.rail.offSince =
                     ApplyStatus(prev, obs.status, c.firstObservedAt).offSince
  BY HandleActiveSound DEF Sound
<1>2. o.rail.missingCount = 0
  BY ActiveCounts
<1>3. r.target = obs.status /\ c.count > 0 /\ c.count \in Nat
  <2> HIDE DEF o, due
  <2>1. StreakAfter(run, TRUE, obs, complete, t).target = obs.status
    BY DEF StreakAfter, Streak
  <2>2. CountedPending(pend, obs.status, t).count \in Nat \ {0}
    BY <1>0, CountedType
  <2>3. c.count \in Nat \ {0}
    BY <2>2
  <2>4. r.target = obs.status
    BY <2>1
  <2> HIDE DEF c, r
  <2> QED
    BY <2>3, <2>4
<1>4. obs.status # prev.status => c.firstObservedAt = r.since
  BY <1>0, PendingDatesItsRun DEF CleanFits
<1>5. \A d \in Directions : prev.status[d] /\ ~obs.status[d] =>
        ApplyStatus(prev, obs.status, c.firstObservedAt).offSince[d] = c.firstObservedAt
  BY <1>0 DEF ApplyStatus, Rail, Status
<1>6. o.rail # NoRail
  BY <1>1, NullsAreNoValues
<1> HIDE DEF o, c, r
<1>7. CleanFits(o.rail, o.pending, r, 0)
  BY <1>1, <1>2, <1>3, <1>4, <1>6, EmptyTallies, ThresholdsArePositive DEF CleanFits
<1>8. DatedAndCounted(prev, o.rail, r, 0, complete)
  BY <1>1, <1>4, <1>5 DEF DatedAndCounted
<1> QED
  BY <1>7, <1>8 DEF o, r

LEMMA DiffClean ==
  ASSUME NEW prev, NEW base, NEW pend, NEW listed, NEW obs, NEW complete, NEW t,
         DiffArgs(prev, base, pend, listed, obs, complete, t),
         NEW run \in Streak, NEW t0 \in Nat, t0 <= t,
         TallyFits(prev, base, pend, run, t0),
         NEW absences \in 0..DelistThreshold, CleanFits(prev, pend, run, absences)
  PROVE  LET o == Diff(prev, base, pend, listed, obs, complete, t)
             r == StreakAfter(run, listed, obs, complete, t)
             a == AbsencesAfter(absences, listed, complete)
         IN  /\ CleanFits(o.rail, o.pending, r, a)
             /\ prev # NoRail => DatedAndCounted(prev, o.rail, r, a, complete)
<1> DEFINE o == Diff(prev, base, pend, listed, obs, complete, t)
           r == StreakAfter(run, listed, obs, complete, t)
           a == AbsencesAfter(absences, listed, complete)
           Goal == /\ CleanFits(o.rail, o.pending, r, a)
                   /\ prev # NoRail => DatedAndCounted(prev, o.rail, r, a, complete)
<1> SUFFICES Goal
  OBVIOUS
<1> USE DEF DiffArgs
<1>0. listed => a = 0 /\ r.target = obs.status
  BY DEF AbsencesAfter, StreakAfter, Streak
<1>9. NoPending.count = 0 /\ 0 < DelistThreshold /\ NoRail \notin Rail
  BY EmptyTallies, ThresholdsArePositive, NullsAreNoValues
<1> HIDE DEF o, r, a
<1>1. CASE listed /\ prev = NoRail /\ o = InsertInitial(obs, t)
  <2>1. o.pending = NoPending /\ o.rail \in Rail
    BY <1>1, InsertInitialSound DEF Sound
  <2>2. o.rail.status = obs.status /\ o.rail.missingCount = 0
    BY <1>1 DEF InsertInitial, Outcome, RailFromObservation
  <2> QED
    BY <1>0, <1>1, <1>9, <2>1, <2>2 DEF CleanFits
<1>2. CASE listed /\ prev \in Rail /\ prev.initial /\ o = HandleInitial(prev, base, obs, t)
  <2>1. o.pending = NoPending /\ o.rail \in Rail /\ o.rail.status = obs.status
    BY <1>2, HandleInitialSound DEF Sound
  <2>2. o.rail.missingCount = 0 /\ o.rail.active = prev.active
    <3>1. o.rail.missingCount = 0
      BY <1>2, ObservationCounts
    <3>2. ApplyObservation(prev, obs, t) \in Rail
          /\ ApplyObservation(prev, obs, t).active = prev.active
      BY <1>2, ApplyObservationType
    <3>3. Present(ApplyObservation(prev, obs, t)) \in Rail
          /\ Present(ApplyObservation(prev, obs, t)).active = prev.active
      BY <3>2, PresentType
    <3>4. o.rail = [Present(ApplyObservation(prev, obs, t)) EXCEPT
                      !.initial = ~Confirmed(CountedBaseline(base, obs.status).count)]
      BY <1>2 DEF HandleInitial, Outcome
    <3> QED
      BY <3>1, <3>3, <3>4 DEF Rail
  <2>3. prev.initial = TRUE
    BY <1>2 DEF Rail
  <2> QED
    BY <1>0, <1>2, <1>9, <2>1, <2>2, <2>3 DEF CleanFits, DatedAndCounted
<1>3. CASE /\ listed /\ prev \in Rail /\ ~prev.initial /\ prev.active
           /\ o = HandleActive(prev, base, pend, obs, t)
  <2>1. run.since <= t0 /\ PendingFits(pend, run, t0)
    BY DEF TallyFits, PendingFits
  <2>2. listed = TRUE /\ obs \in Observation
    BY <1>3
  <2>3. r = StreakAfter(run, TRUE, obs, complete, t)
    BY <2>2 DEF r
  <2>4. /\ CleanFits(HandleActive(prev, base, pend, obs, t).rail,
                     HandleActive(prev, base, pend, obs, t).pending,
                     StreakAfter(run, TRUE, obs, complete, t), 0)
        /\ DatedAndCounted(prev, HandleActive(prev, base, pend, obs, t).rail,
                           StreakAfter(run, TRUE, obs, complete, t), 0, complete)
    BY <1>3, <2>1, <2>2, ActiveClean
  <2> QED
    BY <1>0, <1>3, <2>3, <2>4
<1>4. CASE /\ listed /\ prev \in Rail /\ ~prev.initial /\ ~prev.active
           /\ o = HandleRelisted(prev, obs, t)
  <2>1. o.pending = NoPending /\ o.rail \in Rail
    BY <1>4, HandleRelistedSound DEF Sound
  <2>2. o.rail.missingCount = 0 /\ o.rail.status = obs.status
    BY <1>4, ObservationCounts
  <2> QED
    BY <1>0, <1>4, <1>9, <2>1, <2>2 DEF CleanFits, DatedAndCounted
<1>5. CASE /\ listed /\ prev \in Rail /\ ~prev.initial /\ ~prev.active
           /\ o = HandleInactive(prev, base, pend, obs, t)
  <2> DEFINE h == HandleInactive(prev, base, pend, obs, t)
  <2>1. prev.active = FALSE /\ prev.initial = FALSE
    BY <1>5 DEF Rail
  <2>2. h.rail \in Rail /\ ~h.rail.active /\ h.pending = pend
    BY <1>5, <2>1, HandleInactiveSound DEF Sound
  <2>3. h.rail.status = obs.status
    BY <1>5, ObservationCounts
  <2> HIDE DEF h
  <2>4. o.rail \in Rail /\ ~o.rail.active /\ o.pending = pend /\ o.rail.status = obs.status
    BY <1>5, <2>2, <2>3 DEF h
  <2>5. pend.count = 0
    BY <1>5 DEF TallyFits, PendingStatus
  <2> QED
    BY <1>0, <1>5, <1>9, <2>4, <2>5 DEF CleanFits, DatedAndCounted
<1>6. CASE ~listed /\ prev \in Rail /\ complete /\ o = HandleAbsent(prev, base, pend, t)
  <2>1. /\ o.pending = NoPending /\ o.rail \in Rail /\ o.rail.status = prev.status
        /\ o.rail.missingCount = prev.missingCount + 1
        /\ o.rail.active => prev.active /\ prev.missingCount + 1 < DelistThreshold
        /\ prev.active /\ ~o.rail.active => prev.missingCount + 1 >= DelistThreshold
    BY <1>6, HandleAbsentSound, AbsenceCounts DEF Sound
  <2>2. r.n = 0
    BY <1>6 DEF r, StreakAfter, NoStreak
  <2>3. a = AtMost(absences + 1, DelistThreshold)
    BY <1>6 DEF a, AbsencesAfter
  <2>4. prev.active => prev.missingCount = absences
    BY <1>6, <1>9 DEF CleanFits
  <2>5. prev.active /\ prev.missingCount + 1 < DelistThreshold => a = prev.missingCount + 1
    BY <2>3, <2>4, ThresholdsArePositive DEF AtMost
  <2>6. prev.active /\ prev.missingCount + 1 >= DelistThreshold => a = DelistThreshold
    BY <2>3, <2>4, ThresholdsArePositive DEF AtMost
  <2>7. CleanFits(o.rail, o.pending, r, a)
    BY <1>9, <2>1, <2>2, <2>5 DEF CleanFits
  <2>8. DatedAndCounted(prev, o.rail, r, a, complete)
    <3>1. prev.status \in Status
      BY <1>6 DEF Rail
    <3> QED
      BY <1>6, <2>1, <2>6, <3>1 DEF DatedAndCounted
  <2> QED
    BY <2>7, <2>8
<1>7. CASE /\ ~listed /\ (prev = NoRail \/ ~complete)
           /\ o = Outcome(prev, base, pend, {})
  <2>1. o.rail = prev /\ o.pending = pend
    BY <1>7 DEF Outcome
  <2>2. CASE prev = NoRail
    <3>1. pend.count = 0 /\ run.n = 0
      BY <2>2 DEF TallyFits, CleanFits, PendingStatus, Streak
    <3>2. r.n = 0
      BY <1>7, <3>1 DEF r, StreakAfter, NoStreak
    <3> QED
      BY <2>1, <2>2, <3>1, <3>2 DEF CleanFits
  <2>3. CASE ~complete
    <3>1. r = run /\ a = absences
      BY <1>7, <2>3 DEF r, a, StreakAfter, AbsencesAfter
    <3> QED
      BY <2>1, <3>1 DEF DatedAndCounted
  <2> QED
    BY <1>7, <2>2, <2>3
<1> QED
  BY <1>1, <1>2, <1>3, <1>4, <1>5, <1>6, <1>7, DiffCases DEF o

-----------------------------------------------------------------------------
(* Part 7: the invariant of a process that has lost no transaction *)

Clean == failures = 0 =>
  \A k \in Keys : CleanFits(rails[k], pending[k], streak[k], gone[k])

(* What a commit does to a key.                                              *)
LEMMA CommitClean ==
  ASSUME IInv, Clean, failures = 0, NEW seen \in SUBSET Keys, NEW complete \in BOOLEAN,
         PollCommits(seen, complete), NEW k \in Keys
  PROVE  /\ CleanFits(rails'[k], pending'[k], streak'[k], gone'[k])
         /\ rails[k] # NoRail =>
              DatedAndCounted(rails[k], rails'[k], streak'[k], gone'[k], complete)
<1>1. Fetched(seen, complete) /\ Tick
  BY DEF PollCommits
<1>2. /\ DiffArgs(rails[k], baseline[k], pending[k], k \in seen, source[k],
                  complete, now')
      /\ now \in Nat /\ now' \in Nat /\ now <= now'
      /\ streak[k] \in Streak
  BY <1>1, PollArgs
<1>3. TallyFits(rails[k], baseline[k], pending[k], streak[k], now)
  BY DEF IInv, KeyInv
<1>4. gone[k] \in 0..DelistThreshold
  BY DEF IInv, TypeOK
<1>5. CleanFits(rails[k], pending[k], streak[k], gone[k])
  BY DEF Clean
<1>6. /\ rails'[k] = Decided(k, seen, complete, now').rail
      /\ pending'[k] = Decided(k, seen, complete, now').pending
      /\ streak'[k] = StreakAfter(streak[k], k \in seen, source[k], complete, now')
      /\ gone'[k] = AbsencesAfter(gone[k], k \in seen, complete)
  BY DEF PollCommits, Remember, Observe, AbsencesAfter
<1> QED
  BY <1>2, <1>3, <1>4, <1>5, <1>6, DiffClean DEF Decided

LEMMA NextKeepsClean == IInv /\ Clean /\ [Next]_vars => Clean'
<1> SUFFICES ASSUME IInv, Clean, [Next]_vars, failures' = 0, NEW k \in Keys
             PROVE  CleanFits(rails'[k], pending'[k], streak'[k], gone'[k])
  BY DEF Clean
<1>1. CASE (\E j \in Keys : SourceChanges(j)) \/ UNCHANGED vars
  BY <1>1 DEF SourceChanges, vars, table, memory, history, Clean
<1>2. ASSUME NEW seen \in SUBSET Keys, NEW complete \in BOOLEAN,
             PollCommits(seen, complete)
      PROVE  CleanFits(rails'[k], pending'[k], streak'[k], gone'[k])
  <2>1. failures = 0
    BY <1>2 DEF PollCommits
  <2> QED
    BY <1>2, <2>1, CommitClean
<1>3. ASSUME NEW seen \in SUBSET Keys, NEW complete \in BOOLEAN,
             PollRollsBack(seen, complete)
      PROVE  FALSE
  BY <1>3 DEF PollRollsBack, IInv, TypeOK
<1>4. CASE Restart
  <2>1. /\ rails'[k] = rails[k] /\ gone'[k] = gone[k]
        /\ pending'[k] = NoPending /\ streak'[k] = NoStreak /\ failures = 0
    BY <1>4 DEF Restart, table
  <2>2. CleanFits(rails[k], pending[k], streak[k], gone[k])
    BY <2>1 DEF Clean
  <2>3. NoPending.count = 0 /\ NoStreak.n = 0
    BY EmptyTallies DEF NoStreak
  <2> QED
    BY <2>1, <2>2, <2>3 DEF CleanFits
<1> QED
  BY <1>1, <1>2, <1>3, <1>4 DEF Next

LEMMA InitClean == Init => Clean
<1>1. NoPending.count = 0 /\ NoStreak.n = 0
  BY EmptyTallies DEF NoStreak
<1> QED
  BY <1>1 DEF Init, Clean, CleanFits

LEMMA CleanInvariance == Spec => [](IInv /\ Clean)
  BY InitIInv, NextKeepsIInv, InitClean, NextKeepsClean, PTL DEF Spec

(* Only a commit changes a row. *)
LEMMA RowsChangeByCommits ==
  ASSUME [Next]_vars, NEW k \in Keys, rails'[k] # rails[k]
  PROVE  \E seen \in SUBSET Keys, complete \in BOOLEAN : PollCommits(seen, complete)
  BY DEF Next, SourceChanges, Restart, PollRollsBack, vars, table

(* An outage is dated inside the run of observations that confirmed it, and, *)
(* if no transaction has failed, by the first of them.                       *)
THEOREM OutagesDated == Spec => OutagesDatedInStreak
<1>1. ASSUME IInv, Clean, [Next]_vars, NEW k \in Keys, NEW d \in Directions,
             WentOff(k, d)
      PROVE  /\ rails'[k].offSince[d] \in streak'[k].since..now'
             /\ failures = 0 => rails'[k].offSince[d] = streak'[k].since
  <2>1. /\ rails[k] # NoRail /\ ~rails[k].initial /\ rails[k].active /\ rails'[k].active
        /\ rails[k].status[d] /\ ~rails'[k].status[d]
    BY <1>1 DEF WentOff, Tracked
  <2>2. rails'[k] # rails[k] /\ rails'[k].status # rails[k].status
    BY <2>1
  <2>3. Confirms(rails[k], rails'[k], streak'[k], now')
    BY <1>1, <2>1, <2>2, StepConfirms
  <2>4. rails'[k].offSince[d] \in streak'[k].since..now'
    BY <2>1, <2>2, <2>3 DEF Confirms
  <2>5. ASSUME failures = 0 PROVE rails'[k].offSince[d] = streak'[k].since
    <3>1. PICK seen \in SUBSET Keys, complete \in BOOLEAN : PollCommits(seen, complete)
      BY <1>1, <2>2, RowsChangeByCommits
    <3>2. DatedAndCounted(rails[k], rails'[k], streak'[k], gone'[k], complete)
      BY <1>1, <2>1, <2>5, <3>1, CommitClean
    <3> QED
      BY <2>1, <3>2 DEF DatedAndCounted
  <2> QED
    BY <2>4, <2>5
<1>2. IInv /\ Clean /\ [Next]_vars =>
        [\A k \in Keys : \A d \in Directions : WentOff(k, d) =>
           /\ rails'[k].offSince[d] \in streak'[k].since..now'
           /\ failures = 0 => rails'[k].offSince[d] = streak'[k].since]_vars
  BY <1>1
<1> QED
  BY <1>2, CleanInvariance, PTL DEF Spec, OutagesDatedInStreak

(* If no transaction has failed, a rail is delisted by the DelistThreshold-th *)
(* complete poll in a row without it and by nothing else.                    *)
THEOREM DelistingsCounted == Spec => DelistingsConfirmed
<1>1. ASSUME IInv, Clean, [Next]_vars, failures = 0, NEW k \in Keys,
             rails[k] # NoRail, rails[k].active, ~rails'[k].active
      PROVE  gone'[k] = DelistThreshold /\ last'.kind = "complete"
  <2>1. rails'[k] # rails[k]
    BY <1>1
  <2>2. PICK seen \in SUBSET Keys, complete \in BOOLEAN : PollCommits(seen, complete)
    BY <1>1, <2>1, RowsChangeByCommits
  <2>3. DatedAndCounted(rails[k], rails'[k], streak'[k], gone'[k], complete)
    BY <1>1, <2>2, CommitClean
  <2>4. gone'[k] = DelistThreshold /\ complete
    BY <1>1, <2>3 DEF DatedAndCounted
  <2>5. last'.kind = "complete"
    BY <2>2, <2>4 DEF PollCommits
  <2> QED
    BY <2>4, <2>5
<1>2. IInv /\ Clean /\ [Next]_vars =>
        [failures = 0 => \A k \in Keys :
           rails[k] # NoRail /\ rails[k].active /\ ~rails'[k].active
           => gone'[k] = DelistThreshold /\ last'.kind = "complete"]_vars
  BY <1>1
<1> QED
  BY <1>2, CleanInvariance, PTL DEF Spec, DelistingsConfirmed

-----------------------------------------------------------------------------
(* Part 8: the names of events *)

Names(events) == {e.type : e \in events}

LEMMA NamesOfNewEvents ==
  ASSUME NEW types, NEW before, NEW after, NEW t
  PROVE  Names(NewEvents(types, before, after, t)) = types
<1> DEFINE new(ty) == [type |-> ty, before |-> before, after |-> after, occurredAt |-> t]
<1>1. NewEvents(types, before, after, t) = {new(ty) : ty \in types}
  BY DEF NewEvents
<1>2. \A ty : new(ty).type = ty
  OBVIOUS
<1> HIDE DEF new
<1> QED
  BY <1>1, <1>2 DEF Names

(* What a reader sees of a listed row.                                       *)
Seen(rail) == [status |-> rail.status, terms |-> rail.terms]

(* The events about the two directions and the two terms are, by name, the   *)
(* changes that the feed promises to tell.                                   *)
LEMMA ChangesAreTold ==
  ASSUME NEW before \in Rail, NEW after \in Rail, NEW obs, after.terms = obs.terms
  PROVE  StatusChangeEvents(before, after) \cup TermChangeEvents(before, obs)
           = Feed!Told(Seen(before), Seen(after))
<1> DEFINE S == StatusChangeEvents(before, after)
           T == TermChangeEvents(before, obs)
           F == Feed!Told(Seen(before), Seen(after))
<1>1. \A d \in Directions : before.status[d] \in BOOLEAN /\ after.status[d] \in BOOLEAN
  BY DEF Rail, Status
<1>2. \A ty : ty \in S <=>
        \/ ty = "deposit_off"  /\ before.status["deposit"]   /\ ~after.status["deposit"]
        \/ ty = "deposit_on"   /\ ~before.status["deposit"]  /\ after.status["deposit"]
        \/ ty = "withdraw_off" /\ before.status["withdraw"]  /\ ~after.status["withdraw"]
        \/ ty = "withdraw_on"  /\ ~before.status["withdraw"] /\ after.status["withdraw"]
  BY <1>1 DEF StatusChangeEvents, StatusEvent, Directions
<1>3. \A ty : ty \in T <=>
        \/ ty = "fee_changed" /\ before.terms["fee"] # after.terms["fee"]
        \/ ty = "min_changed" /\ before.terms["min"] # after.terms["min"]
  BY DEF TermChangeEvents, TermEvent, TermNames
<1>4. \A ty : ty \in F <=>
        \/ ty = "deposit_off"  /\ before.status["deposit"]   /\ ~after.status["deposit"]
        \/ ty = "deposit_on"   /\ ~before.status["deposit"]  /\ after.status["deposit"]
        \/ ty = "withdraw_off" /\ before.status["withdraw"]  /\ ~after.status["withdraw"]
        \/ ty = "withdraw_on"  /\ ~before.status["withdraw"] /\ after.status["withdraw"]
        \/ ty = "fee_changed"  /\ before.terms["fee"] # after.terms["fee"]
        \/ ty = "min_changed"  /\ before.terms["min"] # after.terms["min"]
  <2>1. /\ Seen(before).status = before.status /\ Seen(before).terms = before.terms
        /\ Seen(after).status = after.status /\ Seen(after).terms = after.terms
    BY DEF Seen
  <2> QED
    BY <2>1, Zenon DEF Feed!Told
<1> HIDE DEF S, T, F
<1>5. \A ty : ty \in S \cup T <=> ty \in F
  BY <1>2, <1>3, <1>4, Zenon
<1>6. S \cup T = F
  BY <1>5
<1> QED
  BY <1>6 DEF S, T, F

-----------------------------------------------------------------------------
(* Part 9: the step of one row *)

PhaseOf(rail) ==
  IF ~(rail # NoRail /\ ~rail.initial) THEN "untracked"
  ELSE IF ~rail.active THEN "delisted"
  ELSE "listed"

KnownOf(rail) == IF PhaseOf(rail) = "listed" THEN Seen(rail) ELSE NoRail

(* The five ways of RailFeed, of a row before and after and of the names of  *)
(* the events between.                                                       *)
RowStep(prev, rail, names) ==
  \/ /\ PhaseOf(rail) = PhaseOf(prev) /\ KnownOf(rail) = KnownOf(prev) /\ names = {}
  \/ /\ PhaseOf(prev) = "untracked" /\ PhaseOf(rail) \in {"listed", "delisted"}
     /\ names = {}
  \/ /\ PhaseOf(prev) = "listed" /\ PhaseOf(rail) = "listed"
     /\ KnownOf(rail) # KnownOf(prev)
     /\ names = Feed!Told(KnownOf(prev), KnownOf(rail))
  \/ /\ PhaseOf(prev) = "listed" /\ PhaseOf(rail) = "delisted"
     /\ names = {"rail_delisted"}
  \/ /\ PhaseOf(prev) = "delisted" /\ PhaseOf(rail) = "listed"
     /\ names = {"rail_relisted"}

(* An active rail tells exactly what changes in it. *)
LEMMA ActiveTells ==
  ASSUME NEW prev \in Rail, NEW base \in PendingBaseline, NEW pend \in PendingStatus,
         NEW obs \in Observation, NEW t \in Nat
  PROVE  LET o == HandleActive(prev, base, pend, obs, t)
         IN  /\ o.rail.terms = obs.terms
             /\ Names(o.events)
                  = StatusChangeEvents(prev, o.rail) \cup TermChangeEvents(prev, obs)
<1> DEFINE o == HandleActive(prev, base, pend, obs, t)
           seen == [Present(ApplyTerms(prev, obs)) EXCEPT !.active = TRUE, !.initial = FALSE]
           c == CountedPending(pend, obs.status, t)
           due == ~(obs.status = prev.status) /\ Confirmed(c.count)
           after == IF due THEN ApplyStatus(seen, obs.status, c.firstObservedAt) ELSE seen
           types == (IF due THEN StatusChangeEvents(prev, after) ELSE {})
                      \cup TermChangeEvents(prev, obs)
<1>1. /\ seen \in Rail /\ seen.status = prev.status /\ seen.terms = obs.terms
  BY DEF ApplyTerms, Present, Rail, Observation
<1>2. c.firstObservedAt \in Nat /\ obs.status \in Status
  BY CountedType DEF Observation, PendingStatus
<1>3. o.rail = after /\ o.events = NewEvents(types, prev, after, t)
  BY DEF HandleActive, Outcome
<1> HIDE DEF seen, c, due, o
<1>4. after.terms = obs.terms /\ (~due => after.status = prev.status)
  BY <1>1, <1>2, ApplyStatusType
<1> HIDE DEF after
<1>5. ~due => StatusChangeEvents(prev, after) = {}
  BY <1>4 DEF StatusChangeEvents
<1>6. types = StatusChangeEvents(prev, after) \cup TermChangeEvents(prev, obs)
  BY <1>5
<1> HIDE DEF types
<1>7. Names(o.events) = types
  BY <1>3, NamesOfNewEvents
<1> QED
  BY <1>3, <1>4, <1>6, <1>7 DEF o

LEMMA ActiveStep ==
  ASSUME NEW prev \in Rail, prev.active, ~prev.initial,
         NEW base \in PendingBaseline, NEW pend \in PendingStatus,
         NEW obs \in Observation, NEW t \in Nat
  PROVE  LET o == HandleActive(prev, base, pend, obs, t)
         IN  RowStep(prev, o.rail, Names(o.events))
<1> DEFINE o == HandleActive(prev, base, pend, obs, t)
           S == StatusChangeEvents(prev, o.rail)
           T == TermChangeEvents(prev, obs)
<1>1. o.rail \in Rail /\ o.rail.active /\ ~o.rail.initial
  BY HandleActiveSound DEF Sound
<1>2. o.rail.terms = obs.terms /\ Names(o.events) = S \cup T
  BY ActiveTells
<1>3. prev # NoRail /\ o.rail # NoRail
  BY <1>1, NullsAreNoValues
<1> HIDE DEF o
<1>4. /\ PhaseOf(prev) = "listed" /\ PhaseOf(o.rail) = "listed"
      /\ KnownOf(prev) = Seen(prev) /\ KnownOf(o.rail) = Seen(o.rail)
  BY <1>1, <1>3 DEF PhaseOf, KnownOf
<1>5. S \cup T = Feed!Told(Seen(prev), Seen(o.rail))
  BY <1>1, <1>2, ChangesAreTold
<1>6. CASE Seen(prev) = Seen(o.rail)
  <2>1. prev.status = o.rail.status /\ prev.terms = obs.terms
    BY <1>2, <1>6 DEF Seen
  <2>2. S = {} /\ T = {}
    BY <2>1 DEF StatusChangeEvents, TermChangeEvents
  <2> QED
    BY <1>2, <1>4, <1>6, <2>2 DEF RowStep, o
<1>7. CASE Seen(prev) # Seen(o.rail)
  BY <1>2, <1>4, <1>5, <1>7 DEF RowStep, o
<1> QED
  BY <1>6, <1>7

LEMMA AbsentStep ==
  ASSUME NEW prev \in Rail, NEW base, NEW pend, NEW t \in Nat
  PROVE  LET o == HandleAbsent(prev, base, pend, t)
         IN  RowStep(prev, o.rail, Names(o.events))
<1> DEFINE o == HandleAbsent(prev, base, pend, t)
           m == prev.missingCount + 1
           d == prev.active /\ m >= DelistThreshold
           r == [prev EXCEPT !.missingCount = m, !.active = @ /\ ~d,
                             !.missingSince = IF d THEN t ELSE @]
<1>1. /\ o.rail = r
      /\ o.events = IF d /\ ~prev.initial
                    THEN NewEvents({"rail_delisted"}, prev, r, t) ELSE {}
  BY DEF HandleAbsent, Outcome
<1>2. o.rail \in Rail /\ o.rail.initial = prev.initial
      /\ o.rail.status = prev.status /\ o.rail.terms = prev.terms
  BY HandleAbsentSound DEF Sound
<1> HIDE DEF d, o
<1>3. r.active <=> prev.active /\ ~d
  BY DEF Rail
<1> HIDE DEF r
<1>4. d => prev.active
  BY DEF d
<1>5. Names(o.events) = IF d /\ ~prev.initial THEN {"rail_delisted"} ELSE {}
  <2>1. Names(NewEvents({"rail_delisted"}, prev, r, t)) = {"rail_delisted"}
    BY NamesOfNewEvents
  <2>2. Names({}) = {}
    BY DEF Names
  <2> QED
    BY <1>1, <2>1, <2>2
<1>6. prev # NoRail /\ o.rail # NoRail /\ Seen(prev) = Seen(o.rail)
  BY <1>2, NullsAreNoValues DEF Seen
<1>7. /\ prev.initial => PhaseOf(prev) = "untracked" /\ PhaseOf(o.rail) = "untracked"
      /\ ~prev.initial /\ ~d => PhaseOf(prev) = PhaseOf(o.rail)
      /\ ~prev.initial /\ d => PhaseOf(prev) = "listed" /\ PhaseOf(o.rail) = "delisted"
  BY <1>1, <1>2, <1>3, <1>4, <1>6 DEF PhaseOf
<1> QED
  BY <1>5, <1>6, <1>7 DEF RowStep, KnownOf, o

(* Every decision about a key is a step of the feed. *)
LEMMA DiffStep ==
  ASSUME NEW prev, NEW base, NEW pend, NEW listed, NEW obs, NEW complete, NEW t,
         DiffArgs(prev, base, pend, listed, obs, complete, t)
  PROVE  LET o == Diff(prev, base, pend, listed, obs, complete, t)
         IN  RowStep(prev, o.rail, Names(o.events))
<1> DEFINE o == Diff(prev, base, pend, listed, obs, complete, t)
<1> SUFFICES RowStep(prev, o.rail, Names(o.events))
  OBVIOUS
<1> USE DEF DiffArgs
<1>0. Names({}) = {} /\ NoRail \notin Rail
  BY NullsAreNoValues DEF Names
<1> HIDE DEF o
<1>1. CASE listed /\ prev = NoRail /\ o = InsertInitial(obs, t)
  <2>1. o.rail.initial /\ o.events = {}
    BY <1>1, InsertInitialSound
  <2> QED
    BY <1>0, <1>1, <2>1 DEF RowStep, PhaseOf, KnownOf
<1>2. CASE listed /\ prev \in Rail /\ prev.initial /\ o = HandleInitial(prev, base, obs, t)
  <2>1. o.events = {} /\ PhaseOf(prev) = "untracked"
    BY <1>2, HandleInitialSound DEF PhaseOf
  <2>2. PhaseOf(o.rail) \in {"untracked", "listed", "delisted"}
    BY DEF PhaseOf
  <2> QED
    BY <1>0, <2>1, <2>2 DEF RowStep, KnownOf
<1>3. CASE /\ listed /\ prev \in Rail /\ ~prev.initial /\ prev.active
           /\ o = HandleActive(prev, base, pend, obs, t)
  <2>1. RowStep(prev, HandleActive(prev, base, pend, obs, t).rail,
                Names(HandleActive(prev, base, pend, obs, t).events))
    BY <1>3, ActiveStep
  <2> QED
    BY <1>3, <2>1
<1>4. CASE /\ listed /\ prev \in Rail /\ ~prev.initial /\ ~prev.active
           /\ o = HandleRelisted(prev, obs, t)
  <2>1. o.rail \in Rail /\ o.rail.active /\ ~o.rail.initial
    BY <1>4, HandleRelistedSound DEF Sound
  <2>2. \E after : o.events = NewEvents({"rail_relisted"}, prev, after, t)
    BY <1>4 DEF HandleRelisted, Outcome
  <2>3. Names(o.events) = {"rail_relisted"}
    BY <2>2, NamesOfNewEvents
  <2>4. PhaseOf(prev) = "delisted" /\ PhaseOf(o.rail) = "listed"
    BY <1>0, <1>4, <2>1 DEF PhaseOf
  <2> QED
    BY <2>3, <2>4 DEF RowStep
<1>5. CASE /\ listed /\ prev \in Rail /\ ~prev.initial /\ ~prev.active
           /\ o = HandleInactive(prev, base, pend, obs, t)
  <2> DEFINE h == HandleInactive(prev, base, pend, obs, t)
  <2>1. prev.active = FALSE /\ prev.initial = FALSE
    BY <1>5 DEF Rail
  <2>2. h.rail \in Rail /\ ~h.rail.active /\ ~h.rail.initial /\ h.events = {}
    BY <1>5, <2>1, HandleInactiveSound DEF Sound
  <2> HIDE DEF h
  <2>3. o.rail \in Rail /\ ~o.rail.active /\ ~o.rail.initial /\ o.events = {}
    BY <1>5, <2>2 DEF h
  <2>4. PhaseOf(prev) = "delisted" /\ PhaseOf(o.rail) = "delisted"
    BY <1>0, <1>5, <2>3 DEF PhaseOf
  <2> QED
    BY <1>0, <2>3, <2>4 DEF RowStep, KnownOf
<1>6. CASE prev \in Rail /\ o = HandleAbsent(prev, base, pend, t)
  <2>1. RowStep(prev, HandleAbsent(prev, base, pend, t).rail,
                Names(HandleAbsent(prev, base, pend, t).events))
    BY <1>6, AbsentStep
  <2> QED
    BY <1>6, <2>1
<1>7. CASE o = Outcome(prev, base, pend, {})
  <2>1. o.rail = prev /\ o.events = {}
    BY <1>7 DEF Outcome
  <2> QED
    BY <1>0, <2>1 DEF RowStep
<1> QED
  BY <1>1, <1>2, <1>3, <1>4, <1>5, <1>6, <1>7, DiffCases DEF o

-----------------------------------------------------------------------------
(* Part 10: the steps of the system *)

(* The refinement mapping, key by key. *)
LEMMA Mapping ==
  /\ \A k \in Keys : /\ Shown[k] = PhaseOf(rails[k])
                     /\ Known[k] = KnownOf(rails[k])
                     /\ News[k] = Names(last.events[k])
<1>1. \A k \in Keys : Shown[k] = PhaseOf(rails[k])
  BY DEF Shown, PhaseOf, Tracked
<1>2. \A k \in Keys : Known[k] = KnownOf(rails[k])
  BY <1>1 DEF Known, KnownOf, Seen
<1>3. \A k \in Keys : News[k] = Names(last.events[k])
  BY DEF News, Names
<1> QED
  BY <1>1, <1>2, <1>3

LEMMA InitRefines == Init => Feed!Init
<1> SUFFICES ASSUME Init PROVE Feed!Init
  OBVIOUS
<1>1. \A k \in Keys : rails[k] = NoRail /\ last.events[k] = {}
  BY DEF Init, Quiet, NoEvents
<1>2. Shown = [k \in Keys |-> "untracked"]
  BY <1>1 DEF Shown, Tracked
<1>3. Known = [k \in Keys |-> NoRail]
  BY <1>2 DEF Known
<1>4. News = [k \in Keys |-> {}]
  BY <1>1 DEF News
<1> QED
  BY <1>2, <1>3, <1>4 DEF Feed!Init

(* A key whose row takes a step of RowStep takes one of the feed. *)
LEMMA RowStepRefines ==
  ASSUME NEW k \in Keys, RowStep(rails[k], rails'[k], Names(last'.events[k]))
  PROVE  Feed!Still(k) \/ Feed!Track(k) \/ Feed!Change(k) \/ Feed!Delist(k)
           \/ Feed!Relist(k)
<1>1. /\ Shown[k] = PhaseOf(rails[k])
      /\ Known[k] = KnownOf(rails[k])
  BY Mapping
<1>2. \A j \in Keys : /\ Shown'[j] = PhaseOf(rails'[j])
                     /\ Known'[j] = KnownOf(rails'[j])
                     /\ News'[j] = Names(last'.events[j])
  <2>1. \A j \in Keys : Shown'[j] = PhaseOf(rails'[j])
    BY DEF Shown, PhaseOf, Tracked
  <2>2. \A j \in Keys : Known'[j] = KnownOf(rails'[j])
    BY <2>1 DEF Known, KnownOf, Seen
  <2>3. \A j \in Keys : News'[j] = Names(last'.events[j])
    BY DEF News, Names
  <2> QED
    BY <2>1, <2>2, <2>3
<1> QED
  BY <1>1, <1>2
  DEF RowStep, Feed!Still, Feed!Track, Feed!Change, Feed!Delist, Feed!Relist

LEMMA NextRefines == IInv /\ [Next]_vars => [Feed!Next]_(Feed!feedVars)
<1> SUFFICES ASSUME IInv, [Next]_vars PROVE [Feed!Next]_(Feed!feedVars)
  OBVIOUS
<1>1. CASE UNCHANGED vars
  <2>1. UNCHANGED <<rails, last>>
    BY <1>1 DEF vars
  <2> QED
    BY <2>1 DEF Feed!feedVars, Shown, Known, News, Tracked
<1>2. ASSUME NEW k \in Keys, rails'[k] = rails[k], last'.events[k] = {}
      PROVE  RowStep(rails[k], rails'[k], Names(last'.events[k]))
  BY <1>2 DEF RowStep, Names
<1>3. CASE \/ (\E j \in Keys : SourceChanges(j)) \/ Restart
           \/ \E seen \in SUBSET Keys, complete \in BOOLEAN : PollRollsBack(seen, complete)
  <2>1. ASSUME NEW k \in Keys PROVE rails'[k] = rails[k] /\ last'.events[k] = {}
    BY <1>3 DEF SourceChanges, Restart, PollRollsBack, table, Quiet, NoEvents
  <2> QED
    BY <1>2, <2>1, RowStepRefines DEF Feed!Next
<1>4. ASSUME NEW seen \in SUBSET Keys, NEW complete \in BOOLEAN,
             PollCommits(seen, complete)
      PROVE  Feed!Next
  <2>1. ASSUME NEW k \in Keys
        PROVE  RowStep(rails[k], rails'[k], Names(last'.events[k]))
    <3>1. Fetched(seen, complete) /\ Tick
      BY <1>4 DEF PollCommits
    <3>2. DiffArgs(rails[k], baseline[k], pending[k], k \in seen, source[k],
                   complete, now')
      BY <3>1, PollArgs
    <3>3. /\ rails'[k] = Decided(k, seen, complete, now').rail
          /\ last'.events[k] = Decided(k, seen, complete, now').events
      BY <1>4 DEF PollCommits
    <3> QED
      BY <3>2, <3>3, DiffStep DEF Decided
  <2> QED
    BY <2>1, RowStepRefines DEF Feed!Next
<1> QED
  BY <1>1, <1>3, <1>4 DEF Next

(* The engine implements the feed: whatever a reader is shown of a rail      *)
(* changes only together with exactly the events that name the change.       *)
THEOREM EngineImplementsFeed == Spec => FeedSpec
  BY InitRefines, NextRefines, Invariance, PTL DEF Spec, FeedSpec, Feed!Spec
===============================================================================
