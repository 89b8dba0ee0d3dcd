# cexyrouter in TLA+

cexyrouter polls the deposit and withdrawal endpoints of twelve exchanges, keeps the current state of every
*rail* (exchange, coin, chain) in Postgres, records each confirmed change as an *event*, and hands the events
to three kinds of readers: a REST API, a WebSocket feed with a web page on top of it, and a Telegram bot that
alerts chats. This directory holds its verification: TLA+ modules translated from the Go, JavaScript and SQL
under `src/`, the instances TLC checks, and proofs that TLAPS checks.

Contents: [the system](#1-the-system), [the plan](#2-the-plan), [modules and code](#3-modules-and-code),
[runs](#4-runs), [fairness](#5-fairness), [proofs](#6-proofs), [disagreements found](#7-where-code-and-words-disagree),
[what is left out](#8-what-is-not-modelled).

To check: `tlc -config DiffRail.cfg MCDiffEngine` (every run of section 4 in the same way) and
`tlapm DiffEngineProofs.tla`, and so on for each module of section 6.

## 1. The system

Three processes share one Postgres database: `cmd/ingester`, `cmd/api` and `cmd/bot`. They never call each
other; they meet in tables, in one NOTIFY channel and in one advisory lock. Several replicas of each may run.

| Component | State it keeps | Operations | Correct when | Hard because |
|---|---|---|---|---|
| **Diff engine** `internal/diff` | two maps of tallies in memory (`baseline`, `status`); rows of `rails` | `Diff` with its handlers insert, initial, active, inactive, relisted, absent; `Apply` | a change is believed after N equal observations in a row and only then; every column that alerts mention changes together with an event; outages are dated by their first observation; a rail is delisted after M complete polls without it | the tallies move before the transaction commits, survive its rollback and die with the process |
| **Polling cycle** `internal/ingester`, `cmd/ingester` | a semaphore of exchanges, a ticker, `adapter_freshness` | `RunOnce`, `RunAdapter`, merging of duplicates, success and failure records | one exchange's failure or timeout does not touch another; rows and events of a poll are stored together or not at all | whole rows are read early in the transaction and written back late; nothing stops a second ingester or a tool from writing the same rows |
| **Demo outage tool** `cmd/demo-outage` | none of its own | closes a rail, waits, restores it | the rail ends up as it was | second writer of `rails` |
| **Adapters** `internal/adapters` | none between polls | `FetchRails`: snapshots and a completeness flag | a list that misses something says so; no field that is missing opens, closes or delists a rail | twelve readings of what is missing, unknown or unreadable |
| **Normalizer** `internal/normalizer` | caches per poll, deferred alias writes, tables `coins`, `chains`, `*_aliases` | `Normalize`, `FlushAliasUpserts` | the same asset gets one id whoever sees it first, and keeps it | concurrent transactions find-or-insert the same names, wait for each other, and write what they learned in a second transaction |
| **Telegram dispatcher** `internal/tg/dispatch` | table `notification_jobs`, an advisory lock, a claimed batch in memory | requeue, try for the lock, stand by, scan, enqueue, claim, send, mark | one leader; an alert is sent once unless something failed; a job marked as sent was delivered; every matching event is sent or given up after all attempts | each statement is a transaction of its own; the lock belongs to a pooled connection; Telegram's answer can be lost |
| **Bot commands** `internal/tg/commands`, `bot.go` | `alert_rules`, wizard sessions, update offset | create, delete and reset rules | a reset silences the chat; at most 50 rules; no command is lost or run twice; a wizard saves what is picked | the update is confirmed before it is handled; a save is many statements; sessions die with the process; buttons outlive both |
| **WebSocket feed** `internal/api/ws` | the dispatcher's set of clients and their channels; LISTEN connection; one goroutine per session | `Publish`, `Subscribe`, `BackfillSince`, `serve`, `Listen` | what a session sends has no hole; backfill misses nothing; a slow client is closed, not skipped | events commit in another order than their times; publication goes on while a backfill reads pages |
| **Web UI** `internal/api/web/static/app.js` | socket, reconnect timer, cursor, filters, shown events; route options and what the form selects | `connectEventsSocket`, `resetEventsFeed`, `refreshRouteOptions`, handlers of the socket's and the form's events | the page shows every event that passes its filters, and comes back after failures; what the form offers exists | events of an old socket, and answers to old questions, arrive after the new ones |
| **REST API** `internal/api/rest` | none | paged reads of rails and events, routable coins, route options, routes with estimated fees | a reader that follows the cursors skips nothing that was there all along; a route is estimated by what it charges | rows appear behind and ahead of a cursor while it is followed; four kinds of fees, an amount that may be missing |
| **Metadata, admin, config, migrations, audits** | none that changes | rendering, read-only reports, one-off scripts | | |

Interactions:

```
exchange ──Fetch──> ingester: load rails ─> diff engine ─> UPSERT rails + INSERT rail_events  (one transaction)
                                                                     │ trigger: NOTIFY at commit
                                       ┌─────────────────────────────┼───────────────────┐
                            LISTEN connection (api)          notification_jobs      REST reads
                            Dispatcher.Publish ─> sessions    <── dispatcher (bot), advisory lock
                            ─> WebSocket ─> app.js                ─> Telegram;  chats ─> alert_rules
```

The hazards these parts are exposed to, one by one with file and line, are the list `hazards` of
`PROJECT.json`: interleavings of two replicas around one table, tallies that run ahead of the database, messages that
commit out of order, connections that close between two statements, retries of what was done already. Each
names the properties that would notice, or says why none does yet.

## 2. The plan

The order follows the importance of what can go wrong: first what decides that an alert exists, then who sends
it, then who is shown it.

1. `RailDiff`, `DiffEngine`, with the abstract `RailFeed` it implements: invariants, action properties and the refinement proved.
2. `TgDispatch`: invariants proved.
3. `EventStream` (server), then `WebFeed` (page composed with server): the invariants of both proved.
4. `RailWriters`: load, diff and upsert of a poll against the exchange, failures and the demo outage tool: invariants proved.
5. `Normalizer`, `PollCycle`: concurrent find-or-insert of coins and chains in transactions that may roll back, waits on
   unique indexes and their deadlocks, deferred aliases, the semaphore of `RunOnce`: invariants proved.
6. `BotCommands`: `getUpdates` offsets and crashes, the cap of 50 rules, the wizard's sessions: the cap, the delivery, what a save is about to do and the agreement with `Ideally` proved.
7. `Fees`, `Adapters`: what twelve adapters make of a damaged answer, and the merging of duplicate rails: both proved.
8. `RestApi`, `RouteForm`: keyset pages under concurrent commits, route search and estimates, the route form: pages, estimates and form proved.
9. Left: two ingesters without `ExchangeLockKey` (`internal/db/db.go:50`); the page's list of 50 events, into which answers of the REST API and events of
   the socket are merged, and its board.

What composes what: `DiffEngine` extends `RailDiff` and instantiates `RailFeed`; `RailWriters` extends `DiffEngine`; `WebFeed` extends `EventStream`;
`PollCycle` extends `Normalizer`; `Adapters` and `RestApi` extend `Fees`; `RouteForm` extends `RestApi`. Abstract specifications: `RailFeed` (what a reader of events may rely
on); for the bot's handler the update that runs alone, at once (`BotCommands!Ideally`); for the dispatcher an at-least-once outbox is stated as invariants instead (`SentWasDelivered`, `DuplicatesNeedMishaps`,
`AlertsSettle`), since the interesting part is when it is *not* exactly-once.

## 3. Modules and code

| Module | Stands for | Notes |
|---|---|---|
| `RailDiff` | `internal/diff/engine.go`, types of `internal/diff` | Every handler as an operator from a row, two tallies and an observation to an `Outcome`. No state. |
| `RailFeed` | what events promise | Abstract: a rail is untracked, listed or delisted; listed state changes only with the events that tell so. |
| `DiffEngine` | `RunAdapter` from load to commit, around `RailDiff` | `PollCommits`, `PollRollsBack`, `Restart`, and the exchange as environment (`SourceChanges`). |
| `DiffEngineProofs` | | Theorems of section 6: invariants; what is required before something is stored, and the refinement. |
| `RailWriters` | `RunAdapter` statement by statement, with `cmd/demo-outage` | `Fetch`, `Load`, `Decide`, `Commit`, `PollFails`, `Crash`; `FindTarget`, `CloseWithdraw`, `RestoreWithdraw`. |
| `RailWritersProofs` | | |
| `TgDispatch` | `internal/tg/dispatch/dispatch.go`, the rule statements of `internal/tg/commands/repository.go` | One action per SQL statement or call of Telegram. |
| `TgDispatchProofs` | | |
| `EventStream` | `internal/api/ws` | Trigger and NOTIFY, listener, dispatcher, every step of `serve`. |
| `EventStreamProofs` | | The server, and the page on top of it. |
| `WebFeed` | `app.js` composed with `EventStream` | |
| `Normalizer` | `internal/normalizer`, `internal/chains` | The look-ups in their order, as operators over what a statement can see. No state. |
| `PollCycle` | `Runner.RunOnce`, `RunAdapter`, the ticker | Concurrent polls, their transactions, the two commits. |
| `PollCycleProofs` | | |
| `BotCommands` | `internal/tg/bot.go`, `internal/tg/commands` | Long polling, commands, wizard, several replicas. |
| `BotCommandsProofs` | | |
| `Fees` | fee columns and types, `mergeRail` | No state. |
| `Adapters` | `internal/adapters`, `mergeDuplicateRails` | One operator per adapter, one loop for all, and the loop that merges. |
| `AdaptersProofs` | | What is told of a damaged answer; the laws of merging. |
| `RestApi` | `internal/api/rest` | Pages as actions, the route queries as operators. |
| `RouteForm` | the route form of `app.js` composed with `RestApi` | |
| `RestApiProofs` | | Pages, estimates and the form. |
| `MCDiffEngine`, `MCRailWriters`, `MCTgDispatch`, `MCEventStream`, `MCWebFeed`, `MCPollCycle`, `MCBotCommands`, `MCAdapters`, `MCRouteForm` | | Definitions for the instances TLC checks. |

The definitions whose names begin with `Slip` are not part of any specification: each is a plausible bug in the definition that
follows it, and a run must fail when it takes that one's place.

### RailDiff and DiffEngine

State: `rails` is the table (one row per key, `NoRail` when absent), `baseline` and `pending` are `Engine.baseline`
and `Engine.status`, `source` is what the exchange lists, `now` the poll's time stamp. A Go map without an entry and an entry with count 0
are the same value here, because every read in the engine treats them alike. Fee and minimum are members of `Values`, compared for equality only, as the code
does after its numeric comparison; confirmations of deposits, contract addresses and `last_seen_at` are overwritten by
every observation and decide nothing, so they are left out. `missing_count`, `missing_since`, the two off-since columns,
`is_active` and `is_initial` are kept.

A poll is one step that chooses what was fetched: a complete fetch sees all listed keys, a partial one some. It is one step because within one process an exchange is polled
by one goroutine at a time and this module has one writer of the rows; `RailWriters` takes the step apart and adds another writer. `PollCommits` writes rows,
events and tallies; `PollRollsBack` leaves the tallies changed and the table as it was, which is what happens
when `Apply`, `recordSuccess` or `Commit` fail after `Engine.Diff`; `Restart` empties the tallies.

History variables: `told` folds the events as a reader would, `streak` counts equal observations by this process independently of the engine's maps,
`gone` counts complete polls without the key. They are never read by the actions.

### RailWriters

`at` is where `RunAdapter` is: `idle → fetched → loaded → decided → idle`. `fetch`, `loaded` and `plan` are its local variables, dropped as soon as
nothing reads them. `Decide` is the call of `Engine.Diff`, which moves the tallies; `Commit` writes the rows of the result whole, whatever they hold by
then. Upsert, events and commit are one action because the upsert locks the rows. `demo` is the tool: `ready → found → down → restored`; it may stop
anywhere. Its statements change two columns and insert an event with only `withdraw_enabled` in its after-state, which `told` folds like any other.
`demo.overlapped` is a history variable: has a statement of the tool come between a poll's `Load` and its end.

### TgDispatch

`jobs` is `notification_jobs` (absent, or status, attempts and whether `next_attempt_at` has passed), `created` is `alert_rules`,
`occurred` is `rail_events`, `lock` is the Postgres session that holds the advisory lock: a pair of replica and pooled connection. `pc` says
where a replica's `Run` is:
`off → reset → try → scan → enqueue ⇄ insert → claim → send ⇄ mark → scan`, or `try → standby → reset`.
`INSERT ... SELECT` is two actions, because it reads the rules under its snapshot and its rows become visible when
it commits, and a reset can come between. `DeleteRules` and `DeleteQueuedJobs` are the two statements of one
reset, and `resetting` says which chat's a replica is half through. The bot of a replica handles one update at a time (`Handles`), but several replicas poll the same
bot, so another one may make or delete rules of that chat, or begin a reset of its own, between the two statements. `overtaken` counts the resets whose second statement found the chat with a rule
again, and `quiet` is the chats that a reset left without one. The ids of rules are never used twice. Environment: a crash ends
the process and its sessions, a tick can fail at any statement, an answer can be lost after delivery, the connection
that holds the lock can be closed by the pool (`db.go:22` sets the lifetimes). Each of the first three counts as a
*mishap*, the fourth as a *lock loss*, and the properties say what follows without them, with the first, or with all.

### EventStream and WebFeed

An event is its place in the order `(occurred_at, id)` by which the code compares cursors; `Transactions` are the
sets that commit together. Commits happen in any order of these places, because exchanges are polled concurrently. `notified` is the queue from the trigger to
`Publish` (connection and channel `events` together); `session[s]` is what one invocation of `serve` knows: phase, filter, cursor, the page
of backfill rows it has read, `client.out`, whether the dispatcher has removed it, and the bytes on the wire. A write to a
connection that is down goes nowhere and `Notices` ends the session, which the code learns from a failed write or read.

`WebFeed` adds the page: `ws` is `state.ws`, `view` is the ready state of each socket, `timers` counts armed reconnect timers and
`latest` whether `state.reconnectTimer` names one of them (the code overwrites the variable without clearing the
older timer), `pill` is the text shown, `seen` is `state.eventIds`. `due` is a history variable: events that
a feed without gaps would have to show. It leaves out what is lost for a named cause, and `NothingElseIsLost` says that there is no other.

### Normalizer and PollCycle

`table` holds the committed rows of `coins` and `chains`, by slug, `ids` their ids, those of rows not yet committed included (only their order matters, so they are
numbered anew when rows are rolled back), `alias` the alias tables. `poll[e]` is the goroutine of an exchange: `wait → fetch → resolve ⇄ insert → flush → done`, with its caches
(`known`), its deferred upserts (`pending`), the rows its transaction has written (`wrote`) and the rails it has resolved. A statement sees what is committed when it starts and its own writes
(`Sees`); an insert waits while another transaction holds a row with its slug (`WaitsFor`); Postgres breaks a circle by failing one of it. `Commit` is everything from
merging to the commit in one action, since no other poll writes what it reads; the aliases follow in a transaction of their own (`Flush`), and a crash or failure in between loses them (`lost`).
Names are texts after cleaning and up to case; slugs are given by a function that need not be injective. Confidence and time stamps of aliases decide nothing.

### BotCommands

`queue` is what Telegram has not been told to forget, `bot[r]` one process: offset, the batch of its last poll, the update in hand, the wizard's sessions. `Receive` moves the offset and hands the update to the
handler, which is free because the channel has no buffer. A handler's statements are actions of their own: `Count` and `Insert` for each rule, `Reset` and `ResetJobs`. `Ideally` is what an update means if it runs alone
and at once; `ideal` folds it over all updates, as history. A toggle of a slug that is no longer offered is kept in the session, as in the code, and `Selected` ignores it.

### Fees and Adapters

The exchange means one thing (`meant`); up to two fields of its answer are lost or spoiled (`SpoilAsset`, `SpoilNetwork`), and the adapter reads it record by record. Each adapter is one operator from an
asset and a network to a row and to whether it is sure of it.

The names are fields like the others: of a network the one that the adapter prefers (`net`), a number or second code, a label, htx's display name and protocol, and the contract address; of a coin its ticker, its long name and
kucoin's second one. `NetNames` and `LongNames` say which of them an adapter reads, `Leading` of which it needs one, lest it skip the network and declare the list incomplete, and `Spare` which it can do without. What it makes of them, fallbacks included, is `Called`: the six names of a `RailSnapshot` that the
normalizer looks at (`resolver.go:225`-`229`). `Key` is the coin and the chain that they resolve to, by `ChainOf` and `CoinOf`, which are arbitrary functions of the names, the chain and the address: within one poll the same names resolve alike
(`resolver.go:281`), and what any combination of names resolves to, a coin or chain inserted for it included, is left open. That names seen before keep their key from poll to poll is the matter of `KeysAreStable`.

The loop, its skips and its errors are common to all twelve, with the sets `Flat`, `Switched`, `Netless`, `Typed`, `Delists` saying which adapter does what.
whitebit collects an asset's networks before its loop; here the loop passes over those that it does not mention. Then `mergeDuplicateRails` takes the rows one by one (`FirstOfKey`, `Duplicate`).
`TakenForEmpty`, `Renamed`, `Borrowed`, `Unmentioned`, `TakenForOpen` and `TakenForClosed` name the readings by which a complete list departs from what the exchange means.

### RestApi and RouteForm

A reader looks at pages of rails, at pages of events, at the route form or at fees; `walk` is where a reader of pages is. Rails are numbered in the order of their keys, events in the order of `(occurred_at, id)`, so a cursor is a number.
`StoreRail`, `CommitEvent` and `WindowMoves` are the world between two pages. `Routes`, `RouteOptions` and `RoutableCoins` are the three queries that must agree. In `RouteForm` the page asks (`Ask`), the server answers (`Serve`), the answer arrives or fails, in any order;
`fresh` is history: has no rail been stored since the answer was computed.

## 4. Runs

| Run | Config | States | Asks |
|---|---|---|---|
| `diff_rail` | `DiffRail.cfg` | 697 000 | Confirmations, dates, delistings and feed of one rail, with a rollback and a restart anywhere. |
| `diff_feed` | `DiffFeed.cfg` | 495 000 | Refinement of `RailFeed` with two values for fee and minimum. |
| `rail_writers` | `RailWriters.cfg` | 391 000 | The poll statement by statement against the exchange, failures, crashes and the demo tool; convergence. |
| `tg_queue` | `TgQueue.cfg` | 4 066 000 | Two replicas, two connections each, two rules that either makes, deletes and resets, a mishap and a lock loss: leader, duplicates, false marks, stale alerts. |
| `tg_liveness` | `TgLiveness.cfg` | 1 369 000 | Every alert is sent or given up after all its attempts. |
| `tg_reset` | `TgReset.cfg` | fails | A chat text's claim about resets. |
| `feed_stream` | `FeedStream.cfg` | 339 000 | One session of the server: no holes, complete and ascending backfill, which ends. |
| `web_no_loss` | `WebFeedNoLoss.cfg` | 974 000 | What the page can lose, that the list of causes is complete, and that after failures it is live again. |
| `poll_cycle` | `PollCycle.cfg` | 184 000 | Two exchanges that insert the same coins at once: keys, aliases, deadlocks. |
| `bot_commands` | `BotCommands.cfg` | 407 000 | Two replicas of the bot along eight dialogues: cap, lost and repeated commands, partial saves. |
| `adapters` | `Adapters.cfg` | 80 900 | Twelve adapters, two damaged fields, names among them: what may be told wrongly, and under which key. |
| `rest` | `RouteForm.cfg` | 94 000 | Pages, estimates and the route form while rails and events are stored. |

**Properties of the diff engine.** `FeedAgrees`: whoever starts from the baseline and applies the events knows the stored state, across
rollbacks and restarts. `TalliesMatchStreaks`: a tally never counts an observation that was not made, or one that
another interrupted. `StoredStatusIsConfirmed`: a status that is stored anew, in the initial phase or after it, was observed `Confirmations` times in
a row by one process. `OutagesDatedInStreak`: a new outage start lies within the run of observations that confirmed it, and is the first of them if no poll was rolled back.
After a rollback the engine may have counted and cleared a tally whose result was never stored, and the
next run of observations is dated later. `DelistingsConfirmed` is likewise stated for
histories without rollback: `missing_count` lives in the table, so an absence whose poll rolled back is not counted, nor is a
reappearance. `FeedSpec`: the refinement.

**Properties of the writers.** `FeedAgreesUnlessOverlapped`: `FeedAgrees` survives rows that are read early and written late, an exchange that moves on meanwhile, and
rows the tool has changed behind the engine's back, provided no statement of the tool came between a poll's read and its commit. The proviso is needed. If the exchange
closes a rail while the tool holds it closed, and a poll that read the closed row commits after the tool has reopened it, the table says closed and no later poll sees a
change to tell: readers keep the tool's `withdraw_on` until the rail opens again. `TableConverges` holds all the same: when the exchange stops changing, a rail it lists ends up stored as it is and one it does not list ends up inactive, whatever was
overwritten before. `OffSinceIffOff`, an outage start exactly for each closed direction, holds for the tool's rows too. Thresholds here are two confirmations and one absence, since the counting itself is the matter of `diff_rail`.

*Bounds.* Rails do not interact inside the engine: each key has its own row and tallies and the handlers read no other,
so one key in the runs stands for any number; the proofs have no such bound. Three confirmations and three absences are the least
numbers at which "interrupted at the last but one" and "interrupted at the first" differ. `MaxTime = 2` gives three stamps, enough for a first observation, a
later one and a replacement. `MaxMissing = 3` lets the count go past the threshold by repetition. One rollback and one restart
may fall anywhere among the polls.

**Properties of the dispatcher.** `OneDispatcher` until a lock is lost. `DuplicatesNeedMishaps`: every delivery of a message beyond the first has a mishap
to itself, or a reset of the chat that another replica overtook with a new rule. The second exception is needed: that rule gets an event queued and claimed between the two `DELETE`s, the second `DELETE` removes the row before it is
marked as sent, and the next scan queues the event again (section 7). `SentWasDelivered` and `NoStaleAlerts` hold even when locks are lost.
`SentIsFinal` fails after a lock loss (a second dispatcher's late `markFailed` reopens a sent job) and is stated
without one. `DeadWasTried`: a job is given up only after `MaxAttempts` attempts, of which those interrupted by mishaps may not have reached Telegram.
`AlertsSettle`: every event that a rule goes on matching ends as sent or dead.

*Bounds.* Two replicas are enough for leader and standby and for two leaders after a lock loss. Two
rules of one chat exercise the join that must produce one job for two matches; one of them matches a given event only
by its filter. Two attempts distinguish retry from giving up. One event per scan makes the second wait for the first. A batch of two with two events (`tg_liveness`) leaves part of a batch unsent
at a failure. Each of the two rules is made once at most. One reset per run, by either replica, may fall anywhere among the statements of both; the theorems have no bound on resets.

**Properties of the feed.** `LiveStreamHasNoHoles`, `BackfillIsComplete`, `BackfillAscends`, `BackfillEnds` for one session, which is enough because sessions
share only the publisher, and the publisher never waits for one. `NothingElseIsLost`: the page gets or will ask for every event except those lost to an
outage of LISTEN, to a commit behind the cursor, to the gap between backfill and `Subscribe`, or committed before the page had a
cursor. `FeedComesBack`: under failures that stop, the page is live, and says so, again and again.

*Bounds.* Pages of one or two rows and channels of one event reach "exactly full" and "one too many" at once; four events in three transactions, one of
two events, let commits overtake each other within and between pages. Two sockets are enough for an old one and its
replacement. `MaxChanges`, `MaxMishaps`, `MaxOutages` and `MaxAgings` bound the failures; each is at most one per run, and every property that must hold
under several kinds is in a run that allows them together.

**Properties of the cycle.** `OnePollOneCoin`: within a poll a name means one chain and, where no contract says otherwise, one coin, although each look-up sees what others have committed meanwhile. `AliasesAreExplained`: an alias leads to a committed row that it deserves by the row's slug, the symbol it was seeded with, its name or a synonym;
a coin known by contract alone does not become the meaning of a generic name (`resolver_test.go:192`). `KeysAreStable`: what an exchange goes on listing keeps its key, or else its rail would be delisted and another begun; the proviso is a name whose alias was lost between the two commits (`runner.go:216`).
`PollsGoOn`: every exchange stores a poll again and again, through waits and deadlocks.

*Bounds.* Two exchanges that name two new coins in opposite orders make a deadlock; a common long name (`N`) and missing names make the order of ids matter; one coin with a known contract, one chain with a synonym. One crash or failed statement may fall anywhere. A third exchange adds longer circles and no other look-up.

**Properties of the bot.** `RulesWithinCap`: the cap is exceeded by one rule for each further replica at most. `HandledOncePerLife` and `ConfirmedWasBegun`: Telegram forgets no update that no handler has begun, and only a restart or another replica runs one again. `EveryUpdateIsBegun` is their liveness.
`SettledAsIfAtomic`: one replica without mishaps leaves what its updates mean one by one (`Ideally`). What a save means is that it stops at the cap or at an unknown name and keeps the rules before it, as the code does; the property adds that counting the table before each insert comes to the same as deciding at once.
Of a failed statement that leaves part of a save behind, and of a second press after it, it says nothing, for these are mishaps. `SavesWhatIsPicked`: a save is the product of what is picked and offered, each once. A picked exchange that is no longer offered adds nothing, and if there is no other nothing is saved;
picks of tokens or chains that are no longer offered count as none, and none is saved as *any* (`interactive.go:353`-`358`): there a button of an old keyboard does widen the filter, as the confirmation tells ("any token"), and the property has it so.

*Bounds.* A cap of two is reached and passed by the saves of four rules and of three commands. Eight dialogues of two to four updates: exchanges, tokens and chains picked and saved, stale buttons, everything after all, commands beside the wizard, a chat that is not allowed, a full chat. One mishap; two replicas.

**Properties of the adapters.** `ListedRailsAreTold`: a complete list has each rail that the exchange lists, under the key of the names that are left of it, unless its record is `TakenForEmpty` or whitebit has it `Unmentioned`; and that key is the usual one unless the rail is `Renamed` (a name is missing that the adapter can do without: binance's `name`,
kucoin's `chainId`, a long name) or has `Borrowed` its status. For the engine a rail under another key is one rail gone, which it delists in the end, and another begun. `OpenWasSaid` and `ClosedWasSaid`: no list opens, and no complete list closes, a direction against what the exchange means for the rails that a key stands for,
except where a missing flag or fee is read so (`TakenForOpen`, `TakenForClosed`) or a rail has another's status (`Borrowed`, `TakenForEmpty`). What is excepted is what the code does: that bithumb borrows a status (`bithumb.go:271`), or that a complete list from which binance's second name is missing (`binance.go:228`) gives a rail another key, is named by these properties and not ruled out; they say that nothing else goes wrong. `FeeTypeTellsTheFee`: after merging, the type names the fees that the rail has, which the route search relies on.

*Bounds.* Six markets: two networks of a coin, two records that are one rail by their names, one record that names a chain twice, a coin known by its address or second name, a closed coin with a delisted one, and currencies without networks. Four tickers and long names, of which one is within another, three names of networks and two chains. So two records, or two networks of one record, meet in one key, and a rail that loses a name moves to a free key or to another's. Two damaged fields show every fallback and one on top of another.

**Properties of the API and the form.** `PagesAreComplete`: a reader that follows the cursor gets nothing twice, everything in order and, at the end, whatever was there and matched from its first page to its last. `EstimatesAreExact`: an answered search estimates each route by what it charges, says so if nothing is known, and ranks none before another that charges less.
`OffersLeadToRoutes`: a form that shows the answer to its last request finds a route between exactly the chains it has selected, as long as no rail was stored in between; and the coins offered are those with options. Answers that overtake a later one leave another coin's options in the form: the property says nothing of them, for `refreshRouteOptions` does not look at which question was answered.

*Bounds.* Four rails and four events on pages of two: exactly full, one more, and a last page. Two requests, so that one overtakes the other. Two coins of one family, two chains of which one answers to the other's name, two exchanges.

*Deadlock* is checked where the system must go on: a poll is always possible, a dispatcher always has a next step, a session can always be opened. The
runs of `WebFeed`, `Adapters` and `RouteForm` do not check it: a page with all its events shown and no timer armed rightly does nothing, an adapter returns, a reader has read its last page.

## 5. Fairness

- `RailWriters!FairWriterSpec`: a started poll goes on (weak fairness of `Load`, `Decide`, `Commit`) and, again and again, a fetch is complete (strong fairness, since an
  incomplete one may start in its place each time): the ticker loop (`cmd/ingester/main.go`) polls for ever. Nothing is assumed about the exchange: `TableConverges` says
  `<>[][source'[k] = source[k]]_source`. Failures and crashes are bounded, and the tool owes nothing.
- `TgDispatch!FairSpec`: a replica's own steps are weakly fair (its loop runs), backoffs end (time passes), the second statement of
  a reset is reached by the replica that began it, if it lives. Rules, events, crashes and lost answers are not fair: nobody has to create a rule.
  The liveness run gives each replica one pooled connection: with several, the pool may hand out the wrong one for ever and
  no replica leads (section 7); no fairness the code could justify excludes it.
- `EventStream!Fairness`: goroutines that can run do run: publisher, the listener's retry loop, each session's `serve`.
- `WebFeed!UIFairness`: the same, and the browser delivers the events of a socket and fires its timers.
  `FeedComesBack` is stated for pages whose filters were not changed, because after one change the feed may reconnect for ever (section 7), and
  checked with a cursor inside the backfill window, because a page whose cursor is older than that is refused at every attempt (`mount.go:93`; `app.js` never drops
  the cursor).

- `PollCycle!Fairness`: the ticker ticks and cycles end, goroutines go on, and fetches succeed again and again (strong, since a failure may take a success's place each time).
- `BotCommands!Fairness`: handlers run, a dead process is restarted, and polls bring their answers again and again.

## 6. Proofs

All theorems hold for every value of the constants that satisfies the named assumptions of the modules: thresholds positive, nulls distinct from values, transactions
ordered, limits positive, no slug offered twice. Nothing is assumed about the number of keys, replicas, chats, rules, events or sessions.

**`DiffEngineProofs`**: `TypeCorrect`, `OffSinceCorrect`, `FeedComplete`, `TalliesFaithful`.
None of the invariants is inductive alone. The tallies need the types (`pending[k].count < Confirmations` must survive `HandleActive`), the
feed needs to know that a status differs from the stored one only while its events are being written, and that a tracked rail was told when
its baseline committed. The inductive invariant is `IInv`: `TypeOK` and, per key, `RailOff` (outage starts), `FeedFits` (what was
told agrees with the row) and `TallyFits` (tallies lie within streaks). The proof goes handler by handler: one lemma per operator of `RailDiff` and
conjunct, then one step per action. That is why `RailDiff` has no recursion and returns records.

**`DiffEngineProofs`**, steps: `StatusConfirmed`, `OutagesDated`, `DelistingsCounted`. A status takes its confirmations by `TallyFits` alone: a tally lies within the streak, so a full tally means a full streak.
The exact date of an outage and the exact count of absences do not follow from `IInv`, because after a rollback they are false. They rest on a second invariant, `Clean`, which is about histories
without a failed transaction: then a tally is as long as its streak and began with it, and `missing_count` is what `gone` counts.

**`DiffEngineProofs`**, refinement: `EngineImplementsFeed`, which is `Spec => FeedSpec`. `RowStep` says what a poll may do to one row and which events it may emit with it; one lemma per handler shows it
(`StatusChangeEvents` and `TermChangeEvents` are, by name, the changes the feed promises to tell), and `NextRefines` lifts it to all keys of a poll. Rollbacks and restarts are stutters of the feed. Of the invariant it takes the types and that tallies stay below their thresholds.

**`RailWritersProofs`**: `FeedAgreesBesideTool`, `OffSinceBesideTool`. `WInv` follows the poll through its phases: what was loaded is what is stored, and what was planned is one decision of the engine about it, as long as the tool has not written in between
(`NotOverlapped`); then `RowAfter`, the row as the commit will leave it, fits what a reader will have been told. Once the tool has written in between, only types and outage starts (`StartsFit`) are claimed.
The decision itself is the matter of the lemmas of `DiffEngineProofs`, which are about one row and are used here again.
`CommitsTell` is the refinement of `RailFeed` for the poll that is not atomic: although it decides by rows that it has read before, what its commit does to each row is a `RowStep` with exactly the events that it inserts, if the tool has not written in between (`PlansTell`).

**`PollCycleProofs`**: `OneCoinPerPoll`, `KeysStayStable`, `AliasesStayExplained`. `KInv` (`NamesFit`, for each exchange): a name that the poll knows is its alias or pending, and never changes while the poll runs; the rails it has told were told by what it knows;
each listing is stored once, and its names are kept by the aliases, or still to be flushed, or recorded as lost. That is enough for the first two, whatever the look-ups return: the order of ids and the rows of others do not matter to them.
`XInv` adds the rows: only one transaction holds a row, the row that it leaves keeps the name of a committed one, and a symbol is the seeded one or has the row's slug, since an insert that meets an existing row overwrites its symbol (`sql_store.go:142`).
So an explanation, once given, stays valid. Of the seeds only the types are assumed; that the eldest of several rows exists at all rests on `LeastNatural`.

**`TgDispatchProofs`**: `TypeCorrect`, `Alone`, `MarkedMeansDelivered`, `AlertsAreFresh`, `DuplicatesArePaidFor`, `SentForGood`, `DeadJobsWereTried`.
`IInv == Types /\ OneDispatcher /\ Clock /\ Honest /\ Single`. `Clock`: no rule and no event is
later than `now`, and `since` is not after `created`; needed for freshness, because a job may outlive the rule it was made for. `Honest`: a job marked sent, and a claim that
is about to mark it, have a delivery behind them. `Single`: while no lock was lost, only the leader holds claims, each claim is of an open
job or of one whose row is deleted, and of one job once, and every delivery beyond the first is paid by a mishap or by an overtaken reset (`Allowed`). The last is the heart: a message may be sent again only if
its job is open or has no row. An open job with a delivery behind it exists only after a lost answer, a failed mark, a crash or a requeue by a starting
standby, each of which is accounted for. A row disappears at the second statement of a reset. If the chat has no rule then, the event is `Unmatchable` for ever, since later rules are younger than it; if it has one, the reset was overtaken, and pays.
`Attempted`, on top of `IInv`: an attempt that a row counts is spent, on a call or on a mishap, unless a claim in the leader's batch still holds it. So whoever gives up at the limit has spent it.

**`TgDispatchProofs`**, the reset: `ResetDrains`. Section 7 says what a reset does not stop; this is what it does. If it ends with the chat having no rule, then until the chat makes one, `Outstanding(c)`, which is the jobs that are unsent or in some replica's hands, only shrinks, and only those jobs are delivered.
A chat that is `quiet` has no rules (`Ruleless`), so no look for jobs finds one for it. That is the definition of `quiet` at the second statement, and stays so because a new rule, whichever replica makes it and whenever, ends the quiet. No lock is needed and nothing is assumed about who serves the chat: the theorem holds for two dispatchers, for commands that several replicas
handle at once, and for any crash. Of a reset that was overtaken by a new rule it says nothing, for that does not make its chat quiet.

**`EventStreamProofs`**: `TypeCorrect`, `NoHoles`, `BackfillComplete`, `Ascends`.
`IInv` adds to the types, per session, `Streams` (the channel is what is owed or a proper prefix of it) and
`Backfills` (everything still missing lies on the current page or after the cursor, and after the last row of a page that was not full nothing is missing). The last clause
is what makes the end of the backfill sound although more events commit while a page is being sent: they were not there when the session began.

**`EventStreamProofs`**, the page: `OnlyKnownLosses` (`NothingElseIsLost`), for any number of transactions, sockets and filters. The page's cursor only moves forward, so an event is lost as soon as the cursor passes it unseen. `FInv` (`FeedInvariance`): whatever the page is still due lies after its cursor (`DueInOrder`), and the session of a page that does not have to reconnect
`Serves` it: each event due is on the wire, in the channel, on the bus or still to be backfilled, and nothing later comes before it there (`Brings`, `InTurn`, `Precedes`). The order is what makes the claim inductive: on a wire that brought something later first, the cursor would jump over an event that is still on its way.
The causes that `NothingElseIsLost` excepts are those for which `due` drops an event.

**`EventStreamProofs`**, sockets and timers: `PageReconnects`, the part of `FeedComesBack` that is safety. A page has at most one socket that is of use, and while it has none a timer is armed. If the filters were not changed (`RInv`), a page has either a useful socket or exactly one timer, and never closes a socket itself:
that is why only a change of filters can make it reconnect for ever (section 7). `PageIsAClient` is a refinement: what page and server do together is, for the server, a behaviour of `EventStream`, where a connection that fails counts as a mishap (`NeverArrives`). Hence `NoHoles`, `BackfillComplete` and `Ascends` hold for the sessions of the page.

**`BotCommandsProofs`**, the cap: `CapHolds`, for every number of replicas, every cap and every dialogue. `IInv`: for each chat, its rules and the replicas that have counted and not yet inserted are together at most the cap and one for each further replica. Each replica handles one update at a time, so
a count that finds room leaves at most the other replicas between it and its insert.

**`BotCommandsProofs`**, the delivery: `OncePerLife`, `NothingConfirmedUnbegun`. `DInv`: Telegram's queue holds the updates after those it was told to forget, without a gap (`QueueFits`); a replica that runs works through a stretch of them
that begins where its life began, and what it has begun is what lies between that and its offset (`BatchFits`). A replica confirms an update by asking for a later one, so what is confirmed was begun by somebody.

**`BotCommandsProofs`**, what is stored: `StoredSoundly`. Every stored rule belongs to a chat that is let in, can be resolved, and has an id that no other rule of any chat has, which `/unsubscribe` relies on. What is stored was checked some steps before, so `SInv` says of each handler, too, that what it is about to insert has been (`Checked`).

**`BotCommandsProofs`**, what a save is about to do: `SavesArePicked`. The commands of a save are a list whose place `i` carries the exchange, token and chain that are the three digits of `i - 1`, so all combinations occur and none twice, as long as the options name no slug twice (`OptionsAreDistinct`, which `interactive.go:17` satisfies).

**`BotCommandsProofs`**, one replica alone: `SettlesAsIfAtomic`. `AInv` (`AloneInvariance`) keeps a history `h`, in which `h[i]` is what the first `i` updates make when each runs at once; a replica that is the only one to have begun anything has taken just the first updates (which rests on `DInv`), and its handler is `Midway` from `h[m - 1]` to
`h[m]`: a save has saved its first `j` rules and has the others to do. The heart is that `CreateRule`, which counts the table before each insert, lets in rule `j + 1` exactly when `Ideally` would (`CountTells`), because the chat then has its old rules and `j` more with ids of their own (`FirstsCount`). Updates that are no commands may be skipped while the handler is busy, so the updates
taken may run ahead of the one in hand.

**`AdaptersProofs`**, the answer: `ListedAreTold`, `OpenIsSaid`, `ClosedIsSaid`, `FeeTypesAreTold`, for every market, every adapter and any number of damaged fields. `IInv` has one part for the exchange and one for each loop. `AnswerFits`: field by field, the answer has what the exchange means, or nothing, or a word that means nothing.
`Reading`: each row was read from a record of the answer (`Sourced`), and as long as the list is complete, each record behind the reader has told each of its rails (`Behind`). `Merging`: a merged rail has what a row of its key brought, and all that the rows merged so far have brought. What remains is one adapter at a time: `CallsAreRead` says that each makes names of names,
`SameNames` that what it makes depends on nothing but `NetNames`, `LongNames` and the ticker, so a rail that has lost no spare name and borrowed no status is under its usual key (`ShownAsUsual`), and any other stands where `Shown` says (`ToldUnder`);
`OpenIsTold` and `NetworkOpens` compare the flags that it makes of a network with those of what is left of it. Nothing is assumed of `ChainOf` and `CoinOf` but their types.

**`AdaptersProofs`**, merging: `MergeCommutes`, `MergeAssociates`, `MergeIsIdempotent`, `MergeKeepsTheFeeType` are the laws of `mergeRail`, and `MergingKnowsNoOrder` that of the loop: what it leaves for a key is a function of the set of its rails. Because the loop is a sequence of steps, its induction is that of an invariant (`Sums`).

**`RestApiProofs`**, pages: `PagesComplete` (`PagesAreComplete`), for every limit, order and interleaving of commits with the requests. A page is the rows beyond the cursor by rank, up to the limit; the lemmas say of any finite set of places that its ranks list it, in order, once. `WalkInv`: whatever was there from the first page on, matched and lies up to the cursor, the reader has got; a page that was not full had everything beyond the cursor on it.

**`RestApiProofs`**, routes: `EstimatesExact`, `OffersAreRoutes`, for every table and every number of requests, answers and polls. The rows that polls store carry the type of their fees (`TypesTellTheFees`, which `FeeTypesAreTold` proves of merged rows);
then each of the four formulas of the search is what the row charges.
`FormInv` says what is in the form once its last request is answered: the options are those of a table that, as long as no rail was stored, is the present one, and what is selected is among them. The form rests on two assumptions on constants, `ChainsHaveTheirNames` (the query for a
chain matches its own slug) and that `NoOptions` is not a set of options.

Only model-checked: liveness, for fairness and ENABLED are out of the prover's reach: `TableConverges`, `AlertsSettle`, `BackfillEnds`, `FeedComesBack`, `PollsGoOn`, `EveryUpdateIsBegun`. Every safety property of a passing run is the matter of a theorem. Five theorems go beyond what the runs check: `CommitsTell`, `ResetDrains`, `PageReconnects`, `PageIsAClient` and `StoredSoundly` state properties (`CommitsTellTheirChanges`, `ResetOnlyDrains`, `ReconnectsWhenNeeded`, `StoredRulesAreSound`, the refinement) that are defined in the modules of their proofs.

## 7. Where code and words disagree

`tg_reset` is a run: `models.go:77` of the commands promises that a reset stops queued alerts. Jobs claimed before, or being
inserted, are still sent. That nothing else is, is proved (`ResetDrains`), for resets that leave the chat without a rule. The others are remarks; each was seen as a counterexample of the same models:

- If another replica handles a `/subscribe` of the chat between the two `DELETE`s (`repository.go:164`-`183`), the second one takes away jobs of the new rule. One that was claimed is sent and, as its row is gone, queued and sent again, although nothing has failed (`overtaken`).
- `dispatch.go:53` logs that another replica holds the lock. `tryLeader` asks on any pooled connection, so a
  replica can be refused by the lock that it holds itself, and then nobody dispatches.
- `src/README.md:14` says that status changes are pushed to the page. One that is published between the last query of a backfill
  and `Subscribe` (`mount.go:97`-`106`) never is.
- The close event of a socket that was replaced marks the open feed as reconnecting and arms a timer that closes it (`app.js:275`), again and again.
- `bithumb_test.go:84` (`TestFetchRailsMarksIncompleteWhenStatusMissing`) expects an incomplete list when a status is missing. If the coin has just one status, of another network, `findNetworkStatus` borrows it (`bithumb.go:271`) and the list stays complete.
- `interactive.go:98` tells "Setup cancelled. No alert filters were changed." also after a save that stopped half-way and kept its rules.
- The usage of `/subscribe` asks for at least one filter; `/subscribe *` is accepted.

Smaller ones: An unknown status in an incomplete fetch is still a row, which reads as closed and can be confirmed as a closing. `slugify` gives `unknown` for every symbol without a letter or digit, so all such coins are one. The synonyms `BEP-20`, `ERC-20`, `TRC-20` are never found, because their key is normalised to a space.
Polls that fail after the fetch are not counted in `consecutive_failures`. `resolveReference` takes one of several matches without an order. `app.js:184` asks for 500 rails and never follows `next_cursor`. The route search ignores `withdraw_min`; a chain's alias of one exchange finds routes on another; equivalence across two families is not transitive; fees of equivalent coins are compared as numbers. `engine_test.go:228` says that an inactive rail that a complete poll lists is relisted at once; a rail
delisted before its baseline was committed takes the initial branch instead (`engine.go:120`), stays inactive until the
baseline commits, and later sends `rail_relisted` without a `rail_delisted` before it. `src/README.md:143` lists `GET /ws/events`, the route is `/v1/ws`; `slowClientCloseCode` (`internal/api/ws/models.go:12`) is never
used, so a slow client's connection ends without the code that was meant for it.

## 8. What is not modelled

Requests, signatures and rate limits of the adapters, and two fields they read like the fees (minimum and confirmations). Rendering, event metadata, number formatting and wording. The admin
API, audits and smoke tools: read-only. Configuration: read once. Data migrations: run once by hand. Heartbeats and origin checks of the
WebSocket: they end connections, which `Cut` does at any time. The page's list of 50 rows, its board of rails and the results of a search: `seen` is the set of
ids only. Freshness records: nothing reads them but the admin API and the page's board. A second ingester: none is deployed, and nothing but deployment keeps it away. The status of each component is in `PROJECT.json`.
