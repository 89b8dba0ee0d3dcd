--------------------------- MODULE RailWritersProofs ---------------------------
(***************************************************************************)
(* The diff engine's guarantees for a poll that is several statements, and *)
(* beside a tool that writes the same rows: for every set of keys, every   *)
(* threshold, and a failure or crash between any two statements.  A plan   *)
(* is made from rows that were read before; as long as the tool has not    *)
(* written since, those rows are the table's, and the decision about one   *)
(* rail (DiffEngineProofs, part 2) is a decision about the table's row.    *)
(***************************************************************************)
EXTENDS RailWriters, DiffEngineProofs

MaybeRail == Rail \cup {NoRail}

(* Events carry the row that is planned with them.                           *)
PlanType(p) ==
  /\ p.write \in BOOLEAN /\ p.rail \in MaybeRail
  /\ \A e \in p.events : e.after = p.rail

WriterTypes ==
  /\ source \in [Keys -> Observation \cup {Unlisted}] /\ now \in Nat
  /\ rails \in [Keys -> MaybeRail] /\ told \in [Keys -> MaybeRail]
  /\ baseline \in [Keys -> PendingBaseline] /\ pending \in [Keys -> PendingStatus]
  /\ fetch.complete \in BOOLEAN /\ fetch.seen \subseteq Keys
  /\ \A k \in fetch.seen : fetch.obs[k] \in Observation
  /\ loaded \in [Keys -> MaybeRail]
  /\ \A k \in Keys : PlanType(plan[k])
  /\ DOMAIN demo = {"at", "keys", "off", "overlapped"}

(* The start of the outage that the tool will put back is that of an open rail: none. *)
StartsFit ==
  /\ \A k \in Keys : RailOff(rails[k]) /\ RailOff(loaded[k]) /\ RailOff(plan[k].rail)
  /\ demo.at \in {"found", "down"} => demo.off = NoTime

(* What the commit would make of the row of k, and of what a reader knows of it. *)
RowAfter(k) == IF plan[k].write THEN plan[k].rail ELSE rails[k]

PlanFits(k) == FeedFits(RowAfter(k), Learnt(told[k], rails[k], RowAfter(k), plan[k].events))

FeedFitsAll == \A k \in Keys : FeedFits(rails[k], told[k])

NotOverlapped ==
  ~demo.overlapped =>
    /\ FeedFitsAll
    /\ at = "loaded" => loaded = rails
    /\ at = "decided" => \A k \in Keys : PlanFits(k)

WInv == WriterTypes /\ StartsFit /\ NotOverlapped

-----------------------------------------------------------------------------
(* What a commit lets a reader know *)

LEMMA LearntType ==
  ASSUME NEW known \in MaybeRail, NEW before, NEW after \in MaybeRail, NEW events,
         \A e \in events : e.after \in MaybeRail
  PROVE  Learnt(known, before, after, events) \in MaybeRail
<1>1. CASE events # {}
  BY <1>1 DEF Learnt
<1>2. CASE events = {}
  BY <1>2, LearntQuietly
<1> QED
  BY <1>1, <1>2

(* A plan made from rows that are still the table's fits. *)
LEMMA FreshPlanFits ==
  ASSUME NEW prev, NEW base, NEW pend, NEW listed, NEW obs, NEW complete, NEW t,
         DiffArgs(prev, base, pend, listed, obs, complete, t),
         NEW known \in MaybeRail, FeedFits(prev, known)
  PROVE  LET o == Diff(prev, base, pend, listed, obs, complete, t)
             row == IF listed \/ CountsAsAbsent(prev, complete) THEN o.rail ELSE prev
         IN  FeedFits(row, Learnt(known, prev, row, o.events))
<1> DEFINE o == Diff(prev, base, pend, listed, obs, complete, t)
<1>1. FeedFits(o.rail, Learnt(known, prev, o.rail, o.events))
  BY DiffFeed DEF MaybeRail
<1>2. ~(listed \/ CountsAsAbsent(prev, complete)) => o.rail = prev
  BY DEF Diff, Outcome
<1> HIDE DEF o
<1>3. CASE listed \/ CountsAsAbsent(prev, complete)
  BY <1>1, <1>3 DEF o
<1>4. CASE ~(listed \/ CountsAsAbsent(prev, complete))
  BY <1>1, <1>2, <1>4 DEF o
<1> QED
  BY <1>3, <1>4

(* The tool's write, into the row and into what a reader knows of it.        *)
LEMMA WithdrawalsFit ==
  ASSUME NEW row \in MaybeRail, NEW on \in BOOLEAN, NEW off \in Nat \cup {NoTime}
  PROVE  /\ Withdrawals(row, on, off) \in MaybeRail
         /\ RailOff(row) /\ (off = NoTime <=> on) => RailOff(Withdrawals(row, on, off))
         /\ \A known \in MaybeRail :
              FeedFits(row, known) =>
                FeedFits(Withdrawals(row, on, off), Withdrawals(known, on, off))
<1> DEFINE w(x) == [x EXCEPT !.status["withdraw"] = on, !.offSince["withdraw"] = off]
<1>1. ASSUME NEW x \in Rail
      PROVE  /\ w(x) \in Rail /\ Withdrawals(x, on, off) = w(x)
             /\ w(x).status = [x.status EXCEPT !["withdraw"] = on]
             /\ w(x).offSince = [x.offSince EXCEPT !["withdraw"] = off]
             /\ w(x).terms = x.terms /\ w(x).active = x.active /\ w(x).initial = x.initial
  <2>1. Withdrawals(x, on, off) = w(x)
    BY NullsAreNoValues DEF Withdrawals
  <2>2. /\ w(x).status = [x.status EXCEPT !["withdraw"] = on]
        /\ w(x).offSince = [x.offSince EXCEPT !["withdraw"] = off]
        /\ w(x).terms = x.terms /\ w(x).active = x.active /\ w(x).initial = x.initial
    BY DEF Rail
  <2>3. w(x) \in Rail
    BY DEF Rail, Status, Directions
  <2> QED
    BY <2>1, <2>2, <2>3
<1>2. Withdrawals(NoRail, on, off) = NoRail
  BY DEF Withdrawals
<1> HIDE DEF w
<1>3. Withdrawals(row, on, off) \in MaybeRail
  BY <1>1, <1>2 DEF MaybeRail
<1>4. ASSUME RailOff(row), off = NoTime <=> on PROVE RailOff(Withdrawals(row, on, off))
  <2>1. CASE row = NoRail
    BY <1>2, <2>1 DEF RailOff
  <2>2. CASE row \in Rail
    <3>1. row.status \in Status /\ DOMAIN row.offSince = Directions
      BY <2>2 DEF Rail
    <3>2. OffStartsFit(row)
      BY <1>4, <2>2, NullsAreNoValues DEF RailOff
    <3>3. OffStartsFit(w(row))
      <4>1. /\ w(row).status["withdraw"] = on /\ w(row).offSince["withdraw"] = off
            /\ w(row).status["deposit"] = row.status["deposit"]
            /\ w(row).offSince["deposit"] = row.offSince["deposit"]
        BY <1>1, <2>2, <3>1 DEF Status, Directions
      <4> QED
        BY <1>4, <3>2, <4>1 DEF OffStartsFit, Directions
    <3> QED
      BY <1>1, <2>2, <3>3 DEF RailOff
  <2> QED
    BY <2>1, <2>2 DEF MaybeRail
<1>5. ASSUME NEW known \in MaybeRail, FeedFits(row, known)
      PROVE  FeedFits(Withdrawals(row, on, off), Withdrawals(known, on, off))
  <2>1. CASE row = NoRail
    BY <1>2, <2>1 DEF FeedFits
  <2>2. CASE row \in Rail /\ row.initial
    <3>1. Withdrawals(row, on, off).initial
      BY <1>1, <2>2
    <3> QED
      BY <3>1 DEF FeedFits
  <2>3. CASE row \in Rail /\ ~row.initial
    <3>1. known \in Rail /\ row # NoRail
      BY <1>5, <2>3, NullsAreNoValues DEF FeedFits, MaybeRail
    <3>2. w(known) # NoRail
      BY <1>1, <3>1, NullsAreNoValues
    <3> DEFINE a == w(row)  b == w(known)
    <3>3. /\ a.active = row.active /\ a.terms = row.terms /\ b.active = known.active
          /\ b.terms = known.terms /\ Withdrawals(row, on, off) = a
          /\ Withdrawals(known, on, off) = b
          /\ a.status = [row.status EXCEPT !["withdraw"] = on]
          /\ b.status = [known.status EXCEPT !["withdraw"] = on]
          /\ a.offSince = [row.offSince EXCEPT !["withdraw"] = off]
          /\ b.offSince = [known.offSince EXCEPT !["withdraw"] = off]
      BY <1>1, <2>3, <3>1
    <3>4. known.active = row.active
      BY <1>5, <2>3, <3>1 DEF FeedFits
    <3>5. row.active => /\ known.status = row.status /\ known.terms = row.terms
                        /\ known.offSince = row.offSince
      BY <1>5, <2>3, <3>1 DEF FeedFits
    <3> HIDE DEF a, b
    <3>6. b.active = a.active /\ b # NoRail
      BY <3>2, <3>3, <3>4 DEF b
    <3>7. a.active => b.status = a.status /\ b.terms = a.terms /\ b.offSince = a.offSince
      BY <3>3, <3>5
    <3>8. FeedFits(a, b)
      BY <3>6, <3>7 DEF FeedFits
    <3> QED
      BY <3>3, <3>8
  <2> QED
    BY <2>1, <2>2, <2>3 DEF MaybeRail
<1> QED
  BY <1>3, <1>4, <1>5

-----------------------------------------------------------------------------
LEMMA NoRowsFit ==
  /\ NoFetch.complete \in BOOLEAN /\ NoFetch.seen = {}
  /\ NoRows \in [Keys -> MaybeRail]
  /\ \A k \in Keys : /\ PlanType(NoPlan[k]) /\ NoPlan[k].write = FALSE
                      /\ RailOff(NoRows[k]) /\ RailOff(NoPlan[k].rail)
  BY DEF NoFetch, NoRows, NoPlan, PlanType, RailOff, MaybeRail

LEMMA WriterInitInv == WriterInit => WInv
<1> SUFFICES ASSUME WriterInit PROVE WInv
  OBVIOUS
<1> USE DEF WriterInit, Init
<1>1. WriterTypes
  BY NoRowsFit, EmptyTallies DEF WriterTypes, MaybeRail
<1>2. StartsFit
  BY NoRowsFit DEF StartsFit, RailOff
<1>3. NotOverlapped
  BY DEF NotOverlapped, FeedFitsAll, FeedFits
<1> QED
  BY <1>1, <1>2, <1>3 DEF WInv

(* Whatever ends a poll leaves no rows behind; the table may keep what it holds. *)
LEMMA PollEndsFits ==
  ASSUME WInv, PollEnds, UNCHANGED demo,
         source' \in [Keys -> Observation \cup {Unlisted}], now' \in Nat,
         baseline' \in [Keys -> PendingBaseline], pending' \in [Keys -> PendingStatus],
         rails' \in [Keys -> MaybeRail], told' \in [Keys -> MaybeRail],
         \A k \in Keys : RailOff(rails'[k]),
         ~demo.overlapped => \A k \in Keys : FeedFits(rails'[k], told'[k])
  PROVE  WInv'
<1> USE DEF PollEnds
<1>1. WriterTypes'
  BY NoRowsFit DEF WInv, WriterTypes
<1>2. StartsFit'
  BY NoRowsFit DEF WInv, StartsFit
<1>3. NotOverlapped'
  BY DEF NotOverlapped, FeedFitsAll
<1> QED
  BY <1>1, <1>2, <1>3 DEF WInv

LEMMA CommitFits ==
  ASSUME WInv, Commit
  PROVE  WInv'
<1>1. /\ source' = source /\ now' = now /\ baseline' = baseline /\ pending' = pending
      /\ demo' = demo /\ PollEnds
  BY DEF Commit, memory
<1>2. /\ rails' = [k \in Keys |-> RowAfter(k)]
      /\ told' = [k \in Keys |-> Learnt(told[k], rails[k], RowAfter(k), plan[k].events)]
  <2>1. rails' = [k \in Keys |-> RowAfter(k)]
    BY DEF Commit, RowAfter
  <2> QED
    BY <2>1 DEF Commit
<1>3. ASSUME NEW k \in Keys
      PROVE  /\ RowAfter(k) \in MaybeRail /\ RailOff(RowAfter(k))
             /\ Learnt(told[k], rails[k], RowAfter(k), plan[k].events) \in MaybeRail
  <2>1. /\ RowAfter(k) \in MaybeRail /\ RailOff(RowAfter(k))
        /\ told[k] \in MaybeRail /\ \A e \in plan[k].events : e.after \in MaybeRail
    BY DEF RowAfter, WInv, WriterTypes, PlanType, StartsFit
  <2> QED
    BY <2>1, LearntType
<1>4. ~demo.overlapped => \A k \in Keys : FeedFits(rails'[k], told'[k])
  BY <1>2 DEF WInv, NotOverlapped, PlanFits, Commit
<1>5. /\ rails' \in [Keys -> MaybeRail] /\ told' \in [Keys -> MaybeRail]
      /\ \A k \in Keys : RailOff(rails'[k])
  BY <1>2, <1>3
<1> QED
  BY <1>1, <1>4, <1>5, PollEndsFits DEF WInv, WriterTypes

LEMMA EndWithoutCommitFits ==
  ASSUME WInv, PollFails \/ Crash
  PROVE  WInv'
<1>1. /\ source' = source /\ now' = now /\ rails' = rails /\ told' = told
      /\ demo' = demo /\ PollEnds
  BY DEF PollFails, Crash, Restart, table
<1>2. /\ baseline' \in [Keys -> PendingBaseline] /\ pending' \in [Keys -> PendingStatus]
  BY EmptyTallies DEF PollFails, Crash, Restart, memory, WInv, WriterTypes
<1> QED
  BY <1>1, <1>2, PollEndsFits DEF WInv, WriterTypes, StartsFit, NotOverlapped, FeedFitsAll

(* The tables, the plan and the tool stay; a poll may be before its read. *)
LEMMA BeforeReadFits ==
  ASSUME WInv, UNCHANGED <<now, rails, told, baseline, pending, loaded, plan, demo>>,
         source' \in [Keys -> Observation \cup {Unlisted}],
         fetch'.complete \in BOOLEAN, fetch'.seen \subseteq Keys,
         \A k \in fetch'.seen : fetch'.obs[k] \in Observation,
         at' = at \/ at' = "fetched"
  PROVE  WInv'
<1>1. WriterTypes'
  BY DEF WInv, WriterTypes
<1>2. StartsFit' /\ NotOverlapped'
  BY DEF WInv, StartsFit, NotOverlapped, FeedFitsAll, PlanFits, RowAfter
<1> QED
  BY <1>1, <1>2 DEF WInv

LEMMA SourceMovesFits ==
  ASSUME WInv, SourceMoves \/ UNCHANGED writerVars
  PROVE  WInv'
<1>1. /\ UNCHANGED <<now, rails, told, baseline, pending, loaded, plan, demo>>
      /\ fetch' = fetch /\ at' = at
  BY DEF SourceMoves, SourceChanges, writerVars, vars, pollVars, table, memory
<1>2. source' \in [Keys -> Observation \cup {Unlisted}]
  BY DEF SourceMoves, SourceChanges, writerVars, vars, WInv, WriterTypes
<1> QED
  BY <1>1, <1>2, BeforeReadFits DEF WInv, WriterTypes

LEMMA FetchFits ==
  ASSUME WInv, NEW seen \in SUBSET Keys, NEW complete \in BOOLEAN, Fetch(seen, complete)
  PROVE  WInv'
<1>1. /\ UNCHANGED <<now, rails, told, baseline, pending, loaded, plan, demo>>
      /\ source' = source /\ at' = "fetched"
      /\ fetch'.seen = seen /\ fetch'.complete = complete
      /\ \A k \in seen : fetch'.obs[k] = source[k]
  BY DEF Fetch, table, memory
<1>2. \A k \in seen : source[k] \in Observation
  BY DEF Fetch, Fetched, Listed, WInv, WriterTypes
<1> QED
  BY <1>1, <1>2, BeforeReadFits DEF WInv, WriterTypes

LEMMA LoadFits ==
  ASSUME WInv, Load
  PROVE  WInv'
<1> USE DEF Load, table, memory
<1>1. WriterTypes'
  BY DEF WInv, WriterTypes
<1>2. StartsFit' /\ NotOverlapped'
  BY DEF WInv, StartsFit, NotOverlapped, FeedFitsAll
<1> QED
  BY <1>1, <1>2 DEF WInv

LEMMA DecideFits ==
  ASSUME WInv, Decide
  PROVE  WInv'
<1> DEFINE o(k) == DecidedFor(k, now')
<1>1. /\ source' = source /\ rails' = rails /\ told' = told /\ demo' = demo
      /\ fetch' = NoFetch /\ loaded' = NoRows /\ at = "loaded" /\ at' = "decided"
      /\ baseline' = [k \in Keys |-> o(k).baseline] /\ pending' = [k \in Keys |-> o(k).pending]
      /\ plan' = [k \in Keys |-> Planned(k, o(k))]
  BY DEF Decide, table
<1>2. now' \in Nat
  BY DEF Decide, Tick, WInv, WriterTypes
<1>3. ASSUME NEW k \in Keys
      PROVE  /\ DiffArgs(loaded[k], baseline[k], pending[k], k \in fetch.seen, fetch.obs[k],
                          fetch.complete, now')
             /\ RailOff(loaded[k]) /\ told[k] \in MaybeRail
  BY <1>2 DEF DiffArgs, WInv, WriterTypes, StartsFit, MaybeRail
<1>4. ASSUME NEW k \in Keys
      PROVE  /\ o(k) \in OutcomeType /\ RailOff(o(k).rail)
             /\ \A e \in o(k).events : e.after = o(k).rail
  BY <1>3, DiffSound DEF DecidedFor
<1>5. ASSUME NEW k \in Keys, loaded[k] = rails[k], FeedFits(rails[k], told[k])
      PROVE  LET row == IF Mutated(k, o(k)) THEN o(k).rail ELSE rails[k]
             IN  FeedFits(row, Learnt(told[k], rails[k], row, o(k).events))
  BY <1>3, <1>5, FreshPlanFits DEF DecidedFor, Mutated
<1> HIDE DEF o
<1>6. ASSUME NEW k \in Keys
      PROVE  /\ plan'[k].write = Mutated(k, o(k)) /\ plan'[k].rail = o(k).rail
             /\ plan'[k].events = o(k).events
  BY <1>1 DEF Planned
<1>7. WriterTypes'
  <2>1. \A k \in Keys : Mutated(k, o(k)) \in BOOLEAN
    BY DEF Mutated, CountsAsAbsent, WInv, WriterTypes
  <2>2. \A k \in Keys : PlanType(plan'[k])
    BY <1>4, <1>6, <2>1 DEF PlanType, OutcomeType, MaybeRail
  <2>3. baseline' \in [Keys -> PendingBaseline] /\ pending' \in [Keys -> PendingStatus]
    BY <1>1, <1>4 DEF OutcomeType
  <2> QED
    BY <1>1, <1>2, <2>2, <2>3, NoRowsFit DEF WInv, WriterTypes
<1>8. StartsFit'
  BY <1>1, <1>4, <1>6, NoRowsFit DEF WInv, StartsFit
<1>9. NotOverlapped'
  <2> SUFFICES ASSUME ~demo.overlapped PROVE FeedFitsAll /\ \A k \in Keys : PlanFits(k)'
    BY <1>1 DEF NotOverlapped, FeedFitsAll
  <2>1. FeedFitsAll /\ loaded = rails
    BY <1>1 DEF WInv, NotOverlapped
  <2>2. ASSUME NEW k \in Keys PROVE PlanFits(k)'
    <3>1. LET row == IF Mutated(k, o(k)) THEN o(k).rail ELSE rails[k]
          IN  FeedFits(row, Learnt(told[k], rails[k], row, o(k).events))
      BY <1>5, <2>1 DEF FeedFitsAll
    <3> QED
      BY <1>1, <1>6, <3>1 DEF PlanFits, RowAfter
  <2> QED
    BY <2>1, <2>2
<1> QED
  BY <1>7, <1>8, <1>9 DEF WInv

-----------------------------------------------------------------------------
(* The tool *)

LEMMA FindTargetFits ==
  ASSUME WInv, NEW k \in Keys, FindTarget(k)
  PROVE  WInv'
<1>1. /\ UNCHANGED <<source, now, rails, told, baseline, pending, at, fetch, loaded, plan>>
      /\ demo' = [demo EXCEPT !.at = "found", !.keys = {k},
                              !.off = rails[k].offSince["withdraw"]]
  BY DEF FindTarget, table, memory, pollVars
<1>2. /\ demo'.off = rails[k].offSince["withdraw"] /\ demo'.overlapped = demo.overlapped
      /\ DOMAIN demo' = {"at", "keys", "off", "overlapped"}
  BY <1>1 DEF WInv, WriterTypes
<1>3. demo'.off = NoTime
  BY <1>2 DEF FindTarget, WInv, StartsFit, RailOff, OffStartsFit, Directions
<1>4. WriterTypes'
  BY <1>1, <1>2 DEF WInv, WriterTypes
<1>5. StartsFit' /\ NotOverlapped'
  BY <1>1, <1>2, <1>3 DEF WInv, StartsFit, NotOverlapped, FeedFitsAll, PlanFits, RowAfter
<1> QED
  BY <1>4, <1>5 DEF WInv

(* One statement of the tool: a row, and its event, with other withdrawals. *)
ToolWrites(on, off) ==
  /\ UNCHANGED <<source, now, baseline, pending, at, fetch, loaded, plan>>
  /\ demo'.off = demo.off /\ DOMAIN demo' = DOMAIN demo
  /\ demo'.overlapped = (demo.overlapped \/ at \in {"loaded", "decided"})
  /\ rails' = [k \in Keys |->
       IF k \in demo.keys THEN Withdrawals(rails[k], on, off) ELSE rails[k]]
  /\ told' = [k \in Keys |->
       IF k \in demo.keys THEN Withdrawals(told[k], on, off) ELSE told[k]]

LEMMA ToolWritesFits ==
  ASSUME WInv, NEW on \in BOOLEAN, NEW off \in Nat \cup {NoTime}, off = NoTime <=> on,
         ToolWrites(on, off), demo'.at \in {"found", "down"} => demo.at = "found"
  PROVE  WInv'
<1>1. ASSUME NEW k \in Keys
      PROVE  /\ rails'[k] \in MaybeRail /\ told'[k] \in MaybeRail /\ RailOff(rails'[k])
             /\ FeedFits(rails[k], told[k]) => FeedFits(rails'[k], told'[k])
  <2>1. rails[k] \in MaybeRail /\ told[k] \in MaybeRail /\ RailOff(rails[k])
    BY DEF WInv, WriterTypes, StartsFit
  <2>2. CASE k \notin demo.keys
    BY <2>1, <2>2 DEF ToolWrites
  <2>3. CASE k \in demo.keys
    <3>1. rails'[k] = Withdrawals(rails[k], on, off) /\ told'[k] = Withdrawals(told[k], on, off)
      BY <2>3 DEF ToolWrites
    <3> QED
      BY <2>1, <3>1, WithdrawalsFit
  <2> QED
    BY <2>2, <2>3
<1>2. WriterTypes'
  BY <1>1 DEF WInv, WriterTypes, ToolWrites
<1>3. StartsFit'
  BY <1>1 DEF WInv, StartsFit, ToolWrites
<1>4. NotOverlapped'
  BY <1>1 DEF WInv, NotOverlapped, FeedFitsAll, ToolWrites
<1> QED
  BY <1>2, <1>3, <1>4 DEF WInv

LEMMA CloseWithdrawFits ==
  ASSUME WInv, CloseWithdraw
  PROVE  WInv'
<1>1. ToolWrites(FALSE, now)
  BY DEF CloseWithdraw, MovesTo, ToolWrites, memory, pollVars, WInv, WriterTypes
<1>2. now \in Nat /\ now # NoTime
  BY NullsAreNoValues DEF WInv, WriterTypes
<1>3. demo.at = "found"
  BY DEF CloseWithdraw
<1> QED
  BY <1>1, <1>2, <1>3, ToolWritesFits

LEMMA RestoreWithdrawFits ==
  ASSUME WInv, RestoreWithdraw
  PROVE  WInv'
<1>1. demo.off = NoTime
  BY DEF RestoreWithdraw, WInv, StartsFit
<1>2. ToolWrites(TRUE, NoTime)
  BY <1>1 DEF RestoreWithdraw, RestoredOff, MovesTo, ToolWrites, memory, pollVars, WInv, WriterTypes
<1>3. demo'.at = "restored"
  BY DEF RestoreWithdraw, MovesTo, WInv, WriterTypes
<1> QED
  BY <1>2, <1>3, ToolWritesFits

-----------------------------------------------------------------------------
LEMMA WriterNextInv == WInv /\ [WriterNext]_writerVars => WInv'
<1> SUFFICES ASSUME WInv, [WriterNext]_writerVars PROVE WInv'
  OBVIOUS
<1>1. CASE SourceMoves \/ UNCHANGED writerVars
  BY <1>1, SourceMovesFits
<1>2. ASSUME NEW seen \in SUBSET Keys, NEW complete \in BOOLEAN, Fetch(seen, complete)
      PROVE  WInv'
  BY <1>2, FetchFits
<1>3. CASE Load
  BY <1>3, LoadFits
<1>4. CASE Decide
  BY <1>4, DecideFits
<1>5. CASE Commit
  BY <1>5, CommitFits
<1>6. CASE PollFails \/ Crash
  BY <1>6, EndWithoutCommitFits
<1>7. ASSUME NEW k \in Keys, FindTarget(k) PROVE WInv'
  BY <1>7, FindTargetFits
<1>8. CASE CloseWithdraw
  BY <1>8, CloseWithdrawFits
<1>9. CASE RestoreWithdraw
  BY <1>9, RestoreWithdrawFits
<1> QED
  BY <1>1, <1>2, <1>3, <1>4, <1>5, <1>6, <1>7, <1>8, <1>9 DEF WriterNext

(* Plans fit the table they were made from, and the tool puts back what it took. *)
THEOREM WriterInvariance == WriterSpec => []WInv
BY WriterInitInv, WriterNextInv, PTL DEF WriterSpec

(* FeedAgreesUnlessOverlapped: whoever follows the events of RunAdapter knows the table *)
(* between any two statements of a poll, through failures, crashes and the tool's writes, *)
(* unless the tool has written between a poll's read and its commit.           *)
THEOREM FeedAgreesBesideTool == WriterSpec => []FeedAgreesUnlessOverlapped
<1>1. WInv => FeedAgreesUnlessOverlapped
  BY DEF WInv, NotOverlapped, FeedFitsAll, FeedFits, FeedAgreesUnlessOverlapped, FeedAgrees, Tracked
<1> QED
  BY <1>1, WriterInvariance, PTL

(* OffSinceIffOff also holds beside the tool, whichever of its writes a poll overwrites. *)
THEOREM OffSinceBesideTool == WriterSpec => []OffSinceIffOff
<1>1. WInv => OffSinceIffOff
  BY DEF WInv, StartsFit, RailOff, OffStartsFit, OffSinceIffOff
<1> QED
  BY <1>1, WriterInvariance, PTL

-----------------------------------------------------------------------------
(* What a commit tells *)

(* What the commit would do to the row of k is a step of the feed.           *)
PlanTells(k) == RowStep(rails[k], RowAfter(k), Names(plan[k].events))

PlansTell == ~demo.overlapped /\ at = "decided" => \A k \in Keys : PlanTells(k)

(* Although a poll decides by rows it has read before, what its commit does   *)
(* to each row of the table is a step of RailFeed with exactly the events     *)
(* that it inserts: no change is silent and no event is about none            *)
(* (ingester/runner.go:120-234, diff/engine.go:51-94), unless the tool has     *)
(* written in between.                                                        *)
CommitsTellTheirChanges ==
  [][Commit /\ ~demo.overlapped =>
       \A k \in Keys : RowStep(rails[k], rails'[k], Names(plan[k].events))]_writerVars

LEMMA FreshPlanTells ==
  ASSUME NEW prev, NEW base, NEW pend, NEW listed, NEW obs, NEW complete, NEW t,
         DiffArgs(prev, base, pend, listed, obs, complete, t)
  PROVE  LET o == Diff(prev, base, pend, listed, obs, complete, t)
             row == IF listed \/ CountsAsAbsent(prev, complete) THEN o.rail ELSE prev
         IN  RowStep(prev, row, Names(o.events))
<1> DEFINE o == Diff(prev, base, pend, listed, obs, complete, t)
<1>1. RowStep(prev, o.rail, Names(o.events))
  BY DiffStep
<1>2. ~(listed \/ CountsAsAbsent(prev, complete)) => o.rail = prev
  BY DEF Diff, Outcome
<1> HIDE DEF o
<1>3. CASE listed \/ CountsAsAbsent(prev, complete)
  BY <1>1, <1>3 DEF o
<1>4. CASE ~(listed \/ CountsAsAbsent(prev, complete))
  BY <1>1, <1>2, <1>4 DEF o
<1> QED
  BY <1>3, <1>4

(* Engine.Diff plans steps of the feed, from rows that are still the table's. *)
LEMMA DecideTells ==
  ASSUME WInv, Decide, ~demo.overlapped, NEW k \in Keys
  PROVE  PlanTells(k)'
<1> DEFINE o == DecidedFor(k, now')
<1>1. /\ rails' = rails /\ at = "loaded"
      /\ plan'[k] = Planned(k, o)
  BY DEF Decide, table
<1>2. now' \in Nat
  BY DEF Decide, Tick, WInv, WriterTypes
<1>3. loaded[k] = rails[k]
  BY <1>1 DEF WInv, NotOverlapped
<1>4. DiffArgs(loaded[k], baseline[k], pending[k], k \in fetch.seen, fetch.obs[k],
               fetch.complete, now')
  BY <1>2 DEF DiffArgs, WInv, WriterTypes, MaybeRail
<1>5. LET row == IF Mutated(k, o) THEN o.rail ELSE rails[k]
      IN  RowStep(rails[k], row, Names(o.events))
  BY <1>3, <1>4, FreshPlanTells DEF DecidedFor, Mutated
<1> HIDE DEF o
<1>6. /\ plan'[k].write = Mutated(k, o) /\ plan'[k].rail = o.rail
      /\ plan'[k].events = o.events
  BY <1>1 DEF Planned
<1> QED
  BY <1>1, <1>5, <1>6 DEF PlanTells, RowAfter

LEMMA WriterNextTells == WInv /\ PlansTell /\ [WriterNext]_writerVars => PlansTell'
<1> SUFFICES ASSUME WInv, PlansTell, [WriterNext]_writerVars, ~demo'.overlapped, at' = "decided"
             PROVE  \A k \in Keys : PlanTells(k)'
  BY DEF PlansTell
<1>1. CASE UNCHANGED <<rails, plan, at, demo>>
  BY <1>1 DEF PlansTell, PlanTells, RowAfter
<1>2. CASE SourceMoves \/ UNCHANGED writerVars
  <2>1. UNCHANGED <<rails, plan, at, demo>>
    BY <1>2 DEF SourceMoves, SourceChanges, writerVars, vars, pollVars, table
  <2> QED
    BY <1>1, <2>1
<1>3. CASE Decide
  <2>1. ~demo.overlapped
    BY <1>3 DEF Decide
  <2> QED
    BY <1>3, <2>1, DecideTells
<1>4. ASSUME NEW k \in Keys, FindTarget(k) PROVE \A j \in Keys : PlanTells(j)'
  <2>1. UNCHANGED <<rails, plan, at>> /\ demo'.overlapped = demo.overlapped
    BY <1>4 DEF FindTarget, table, pollVars, WInv, WriterTypes
  <2> QED
    BY <2>1 DEF PlansTell, PlanTells, RowAfter
<1>5. ~(CloseWithdraw \/ RestoreWithdraw)
  <2>1. CloseWithdraw \/ RestoreWithdraw => at = "decided" /\ demo'.overlapped
    BY DEF CloseWithdraw, RestoreWithdraw, MovesTo, pollVars, WInv, WriterTypes
  <2> QED
    BY <2>1
<1>6. ~(\/ \E seen \in SUBSET Keys, complete \in BOOLEAN : Fetch(seen, complete)
        \/ Load \/ Commit \/ PollFails \/ Crash)
  BY DEF Fetch, Load, Commit, PollFails, Crash, PollEnds
<1> QED
  BY <1>2, <1>3, <1>4, <1>5, <1>6 DEF WriterNext

(* The poll as it is, statement by statement, still tells what it changes.   *)
THEOREM CommitsTell == WriterSpec => CommitsTellTheirChanges
<1>1. WriterInit => PlansTell
  BY DEF WriterInit, PlansTell
<1>2. WInv /\ PlansTell /\ [WriterNext]_writerVars =>
        [Commit /\ ~demo.overlapped =>
           \A k \in Keys : RowStep(rails[k], rails'[k], Names(plan[k].events))]_writerVars
  <2> SUFFICES ASSUME PlansTell, Commit, ~demo.overlapped, NEW k \in Keys
               PROVE  RowStep(rails[k], rails'[k], Names(plan[k].events))
    OBVIOUS
  <2>1. rails'[k] = RowAfter(k) /\ at = "decided"
    BY DEF Commit, RowAfter
  <2> QED
    BY <2>1 DEF PlansTell, PlanTells
<1> QED
  BY <1>1, <1>2, WriterNextTells, WriterInvariance, PTL DEF WriterSpec, CommitsTellTheirChanges

===============================================================================
