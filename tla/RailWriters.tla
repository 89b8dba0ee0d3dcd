------------------------------ MODULE RailWriters ------------------------------
(***************************************************************************)
(* The writers of table rails, statement by statement: the poll of one     *)
(* exchange (ingester.Runner.RunAdapter, internal/ingester/runner.go) and  *)
(* the demo outage tool (cmd/demo-outage).  A poll fetches, reads the rows *)
(* it will compare with, lets the engine decide and writes whole rows      *)
(* back; the exchange, the tool, a failure or a crash can come between any *)
(* two of these.  DiffEngine takes a poll for one step; its properties are *)
(* checked here for the poll as it is.                                     *)
(***************************************************************************)
EXTENDS DiffEngine

VARIABLES
  at,     (* where RunAdapter is                                           *)
  fetch,  (* what FetchRails returned                                      *)
  loaded, (* what loadPreviousRails returned                               *)
  plan,   (* the rows and events Engine.Diff returned                      *)
  demo    (* where the tool is, its target, what it remembers of it, and   *)
          (* history: has it written between a poll's read and its commit  *)

pollVars   == <<at, fetch, loaded, plan>>
unread     == <<last, gone, streak>>   (* histories that no property here needs *)
writerVars == <<vars, pollVars, demo>>

NoFetch == [seen |-> {}, obs |-> [k \in Keys |-> Unlisted], complete |-> FALSE]
NoRows  == [k \in Keys |-> NoRail]
NoPlan  == [k \in Keys |-> [write |-> FALSE, rail |-> NoRail, events |-> {}]]

WriterInit ==
  /\ Init
  /\ at = "idle" /\ fetch = NoFetch /\ loaded = NoRows /\ plan = NoPlan
  /\ demo = [at |-> "ready", keys |-> {}, off |-> NoTime, overlapped |-> FALSE]

-----------------------------------------------------------------------------
(* The poll *)

(* The exchange may change at any moment, also while it is being polled. *)
SourceMoves ==
  /\ \E k \in Keys : SourceChanges(k)
  /\ UNCHANGED <<pollVars, demo>>

Fetch(seen, complete) ==
  /\ at = "idle"
  /\ Fetched(seen, complete)
  /\ \A k \in Keys : Within(k, seen, complete)
  /\ at' = "fetched"
  /\ fetch' = [seen |-> seen, complete |-> complete,
               obs |-> [k \in Keys |-> IF k \in seen THEN source[k] ELSE Unlisted]]
  /\ UNCHANGED <<source, now, table, memory, unread, failures, restarts, loaded, plan, demo>>

Load ==
  /\ at = "fetched"
  /\ at' = "loaded"
  /\ loaded' = rails
  /\ UNCHANGED <<source, now, table, memory, unread, failures, restarts, fetch, plan, demo>>

(* Slip: the rows of absent keys are not written. *)
SlipMutated(k, outcome) == k \in fetch.seen

(* The rows of a Result: every key that was seen, since its last_seen_at     *)
(* changes, and every absence that was counted.                              *)
Mutated(k, outcome) ==
  k \in fetch.seen \/ CountsAsAbsent(loaded[k], fetch.complete)

Planned(k, outcome) ==
  [write |-> Mutated(k, outcome), rail |-> outcome.rail, events |-> outcome.events]

(* Engine.Diff changes its maps at once, the rows wait for the commit. *)
DecidedFor(k, t) ==
  Diff(loaded[k], baseline[k], pending[k], k \in fetch.seen, fetch.obs[k], fetch.complete, t)

Decide ==
  /\ at = "loaded"
  /\ at' = "decided"
  /\ Tick
  /\ baseline' = [k \in Keys |-> DecidedFor(k, now').baseline]
  /\ pending' = [k \in Keys |-> DecidedFor(k, now').pending]
  /\ plan' = [k \in Keys |-> Planned(k, DecidedFor(k, now'))]
  /\ fetch' = NoFetch
  /\ loaded' = NoRows
  /\ UNCHANGED <<source, table, failures, restarts, unread, demo>>

PollEnds == at' = "idle" /\ fetch' = NoFetch /\ loaded' = NoRows /\ plan' = NoPlan

(* UpsertRails writes all columns of a row, whatever it holds by now.  It    *)
(* locks the rows until the commit, so nothing comes in between.             *)
Commit ==
  /\ at = "decided"
  /\ rails' = [k \in Keys |-> IF plan[k].write THEN plan[k].rail ELSE rails[k]]
  /\ told' = [k \in Keys |-> Learnt(told[k], rails[k], rails'[k], plan[k].events)]
  /\ PollEnds
  /\ UNCHANGED <<source, now, memory, unread, failures, restarts, demo>>

(* A statement fails, or the commit does: the deferred Rollback. *)
PollFails ==
  /\ at # "idle"
  /\ failures < MaxFailures
  /\ failures' = failures + 1
  /\ PollEnds
  /\ UNCHANGED <<source, now, table, memory, unread, restarts, demo>>

(* The database rolls back what a process that dies has not committed. *)
Crash ==
  /\ Restart
  /\ PollEnds
  /\ UNCHANGED demo

-----------------------------------------------------------------------------
(* The demo outage tool: each statement commits by itself *)

(* findTargetRail takes a rail that is open, and remembers since when it has *)
(* not been, which for an open rail is never.                                *)
FindTarget(k) ==
  /\ demo.at = "ready"
  /\ rails[k] # NoRail /\ rails[k].active /\ rails[k].status["withdraw"]
  /\ demo' = [demo EXCEPT !.at = "found", !.keys = {k},
                          !.off = rails[k].offSince["withdraw"]]
  /\ UNCHANGED <<source, now, table, memory, unread, failures, restarts, pollVars>>

(* The row with its withdrawals set and dated. *)
Withdrawals(row, on, off) ==
  IF row = NoRail THEN NoRail
  ELSE [row EXCEPT !.status["withdraw"] = on, !.offSince["withdraw"] = off]

MovesTo(place) ==
  demo' = [demo EXCEPT !.at = place, !.overlapped = @ \/ at \in {"loaded", "decided"}]

(* closeWithdrawRail: the row and a withdraw_off event. *)
CloseWithdraw ==
  /\ demo.at = "found"
  /\ MovesTo("down")
  /\ rails' = [k \in Keys |->
       IF k \in demo.keys THEN Withdrawals(rails[k], FALSE, now) ELSE rails[k]]
  /\ told' = [k \in Keys |->
       IF k \in demo.keys THEN Withdrawals(told[k], FALSE, now) ELSE told[k]]
  /\ UNCHANGED <<source, now, memory, unread, failures, restarts, pollVars>>

(* Slip: the start of the outage is left as it is. *)
SlipRestoredOff(k) == rails[k].offSince["withdraw"]

RestoredOff(k) == demo.off

(* restoreWithdrawRail: what it was, whatever has happened to it meanwhile. *)
RestoreWithdraw ==
  /\ demo.at = "down"
  /\ MovesTo("restored")
  /\ rails' = [k \in Keys |->
       IF k \in demo.keys THEN Withdrawals(rails[k], TRUE, RestoredOff(k)) ELSE rails[k]]
  /\ told' = [k \in Keys |->
       IF k \in demo.keys THEN Withdrawals(told[k], TRUE, RestoredOff(k)) ELSE told[k]]
  /\ UNCHANGED <<source, now, memory, unread, failures, restarts, pollVars>>

WriterNext ==
  \/ SourceMoves
  \/ \E seen \in SUBSET Keys, complete \in BOOLEAN : Fetch(seen, complete)
  \/ Load \/ Decide \/ Commit \/ PollFails \/ Crash
  \/ \E k \in Keys : FindTarget(k)
  \/ CloseWithdraw \/ RestoreWithdraw

WriterSpec == WriterInit /\ [][WriterNext]_writerVars

(* The ticker loop polls again and again, and some fetches are complete.     *)
(* Nobody has to start the tool, and it may die before it restores.          *)
CompleteFetch == \E seen \in SUBSET Keys : Fetch(seen, TRUE)

FairWriterSpec ==
  /\ WriterSpec
  /\ SF_writerVars(CompleteFetch)
  /\ WF_writerVars(Load) /\ WF_writerVars(Decide) /\ WF_writerVars(Commit)

-----------------------------------------------------------------------------
(* Properties *)

(* The feed agrees with the table at every statement of a poll, although it  *)
(* compares with rows it read before and the exchange moves on, and although *)
(* the tool writes rows the engine knows nothing of; only a statement of the *)
(* tool that falls between a poll's read and its commit can separate them.   *)
FeedAgreesUnlessOverlapped == ~demo.overlapped => FeedAgrees

(* Nor does the tool, or a poll that overwrites its rows, leave an outage    *)
(* without a start or a start without an outage: OffSinceIffOff.  And        *)
(* whichever write of the tool a poll has overwritten, the table ends up as  *)
(* the exchange has it: TableConverges.                                      *)

===============================================================================
