-------------------------------- MODULE RestApi --------------------------------
(***************************************************************************)
(* The queries of the REST API (internal/api/rest): rails and events page  *)
(* by page, the coins and chains that the route form offers, and the       *)
(* routes with their estimated fees.  Each answer is one statement over    *)
(* what is committed then; polls commit between the pages of a reader.     *)
(***************************************************************************)
EXTENDS Fees, Sequences, FiniteSets, SequencesExt

CONSTANTS
  Coins, Chains, Exchanges,
  Keys,     (* of rails: coin, chain and exchange, in the order of their ids *)
  Readers,  (* what a behaviour looks at: pages of rails or of events, or others *)
  Rows,     (* per reader: the rows its rails may have                      *)
  NoRail,
  LastEvent, (* number of events, named by their rank in the order of (occurred_at, id) *)
  Limit,    (* rows of a page                                               *)
  Families, (* asset_families: sets of coins                                *)
  NamesOf,  (* per chain: its slug, symbol, name and aliases                *)
  Asked     (* amounts that a search of routes may give                     *)

Row == [active : BOOLEAN, dep : BOOLEAN, wd : BOOLEAN,
        fee : Amount, rate : Amount, type : FeeTypes]

ASSUME RestAssumption ==
  /\ Keys \in Seq(Coins \X Chains \X Exchanges)
  /\ Rows \in [Readers -> SUBSET Row]
  /\ LastEvent \in Nat /\ Limit \in Nat \ {0}
  /\ Families \subseteq SUBSET Coins
  /\ Asked \subseteq Nat

(* A chain is found by its slug. *)
ASSUME ChainsHaveTheirNames == \A c \in Chains : c \in NamesOf[c]

(* The writers set the type by the fees: RailWriters, Adapters, RestApiProofs. *)
ASSUME TypesTellTheFees ==
  \A r \in Readers : \A row \in Rows[r] : row.type = FeeType(row.fee, row.rate)

Rails  == DOMAIN Keys
Events == 1..LastEvent

VARIABLES
  reader,
  rails,  (* table rails                                                    *)
  events, (* table rail_events                                              *)
  since,  (* the first event in the window that the reader asks for         *)
  walk    (* a reader that follows next_cursor                              *)

restVars == <<reader, rails, events, since, walk>>

Coin(i)     == Keys[i][1]
Chain(i)    == Keys[i][2]
Exchange(i) == Keys[i][3]

-----------------------------------------------------------------------------
(* Pages *)

NoCursor == 0

(* The WHERE of the reader's requests, without the cursor. *)
Matches(table, log, from) ==
  IF reader = "events" THEN {e \in log : e >= from}
  ELSE {i \in Rails : table[i] # NoRail /\ (walk.open => table[i].dep)}

Matching == Matches(rails, events, since)

(* ORDER BY: rails ascend, events descend. *)
Ahead(x, y) == IF reader = "events" THEN x > y ELSE x < y

Beyond  == {x \in Matching : walk.cursor = NoCursor \/ Ahead(walk.cursor, x)}
Rank(x) == Cardinality({y \in Beyond : Ahead(y, x)})

(* LIMIT limit + 1; the row at place n is the one that n - 1 rows are ahead of.   *)
Fetched ==
  [n \in 1..(IF Cardinality(Beyond) > Limit THEN Limit + 1 ELSE Cardinality(Beyond)) |->
     CHOOSE x \in Beyond : Rank(x) = n - 1]

More    == Len(Fetched) > Limit
Shown   == IF More THEN SubSeq(Fetched, 1, Limit) ELSE Fetched

(* Slip: the cursor is the row that told that there is more. *)
SlipNextCursor == IF More THEN Fetched[Limit + 1] ELSE NoCursor

NextCursor == IF More THEN Fetched[Limit] ELSE NoCursor

(* open: the filter deposit_enabled=true.  due: history, what has matched in every *)
(* state since the first page was asked for.                                   *)
RestInit ==
  /\ reader \in Readers
  /\ rails \in [Rails -> Rows[reader] \cup {NoRail}]
  /\ events = {} /\ since = 1
  /\ \E open \in BOOLEAN :
       /\ open => reader = "rails"
       /\ walk = [at |-> "new", open |-> open, cursor |-> NoCursor, got |-> <<>>, due |-> {}]

GetPage ==
  /\ reader \in {"rails", "events"} /\ walk.at # "ended"
  /\ walk' = [walk EXCEPT !.at = IF More THEN "paging" ELSE "ended",
                          !.cursor = NextCursor,
                          !.got = @ \o Shown,
                          !.due = IF walk.at = "new" THEN Matching ELSE @]
  /\ UNCHANGED <<reader, rails, events, since>>

StillDue == walk' = [walk EXCEPT !.due = @ \cap Matches(rails', events', since')]

(* A poll stores a row.  A rail is never deleted. *)
StoreRail(i, row) ==
  /\ reader # "events" /\ rails[i] # row
  /\ rails' = [rails EXCEPT ![i] = row]
  /\ UNCHANGED <<reader, events, since>>
  /\ StillDue

(* Events commit in another order than that of their times. *)
CommitEvent(e) ==
  /\ reader = "events" /\ e \notin events
  /\ events' = events \cup {e}
  /\ UNCHANGED <<reader, rails, since>>
  /\ StillDue

(* since=24h is counted from the time of each request. *)
WindowMoves ==
  /\ reader = "events" /\ since <= LastEvent
  /\ since' = since + 1
  /\ UNCHANGED <<reader, rails, events>>
  /\ StillDue

RestNext ==
  \/ GetPage
  \/ \E i \in Rails : \E row \in Rows[reader] : StoreRail(i, row)
  \/ \E e \in Events : CommitEvent(e)
  \/ WindowMoves

-----------------------------------------------------------------------------
(* Routes *)

Open(i, d) == rails[i] # NoRail /\ rails[i].active /\ rails[i][d]
Opened(d)  == {i \in Rails : Open(i, d)}

Related(c, d, equivalent) ==
  c = d \/ (equivalent /\ \E f \in Families : {c, d} \subseteq f)

(* routeCoinJoinCondition and routeSelectedCoinCondition *)
Joins(i, j, equivalent) ==
  Exchange(i) = Exchange(j) /\ Related(Coin(i), Coin(j), equivalent)
Selects(coin, i, equivalent) == Related(coin, Coin(i), equivalent)

RoutableCoins ==
  {c \in Coins : \E i, j \in Rails :
     /\ Coin(i) = c /\ Coin(j) = c /\ Exchange(i) = Exchange(j)
     /\ Open(i, "dep") /\ Open(j, "wd")}

RouteOptions(coin, equivalent) ==
  {<<Chain(p[1]), Chain(p[2])>> : p \in {q \in Opened("dep") \X Opened("wd") :
     Joins(q[1], q[2], equivalent) /\ Selects(coin, q[1], equivalent)}}

Routes(coin, from, to, equivalent) ==
  {q \in Opened("dep") \X Opened("wd") :
     /\ from \in NamesOf[Chain(q[1])] /\ to \in NamesOf[Chain(q[2])]
     /\ Joins(q[1], q[2], equivalent) /\ Selects(coin, q[1], equivalent)}

(* Slip: a hybrid fee counts as a fixed one. *)
SlipRequiresAmount(row) == row.type = "percent"

RequiresAmount(row) == row.type \in {"percent", "hybrid"}

IsKnown(row) ==
  CASE row.type = "percent" -> row.rate # NoAmount
    [] row.type = "hybrid"  -> row.fee # NoAmount \/ row.rate # NoAmount
    [] OTHER                -> row.fee # NoAmount

OrZero(x) == IF x = NoAmount THEN 0 ELSE x

(* estimateWithdrawFee; without an amount the rate costs nothing. *)
Estimate(row, amount) ==
  LET fixed == OrZero(row.fee)
      share == IF amount = NoAmount THEN 0 ELSE (amount * OrZero(row.rate)) \div 100
  IN  CASE row.type = "percent" -> share
        [] row.type = "hybrid"  -> fixed + share
        [] OTHER                -> fixed

RouteFee(row, amount) == IF IsKnown(row) THEN Estimate(row, amount) ELSE NoAmount

(* What a search decides by: the rows of the rails to withdraw from. *)
Withdrawn(routes) == {rails[q[2]] : q \in routes}

AmountRequired(rows, amount) == amount = NoAmount /\ \E row \in rows : RequiresAmount(row)

(* The order of the answer, up to the names of exchanges. *)
RanksBefore(row, other, amount) ==
  LET x == RouteFee(row, amount)  y == RouteFee(other, amount)
  IN  x # NoAmount /\ (y = NoAmount \/ x < y)

-----------------------------------------------------------------------------
(* Properties *)

(* A reader that follows the cursor gets nothing twice and everything in order, *)
(* and at the end it has every rail, or event, that was there and matched from its *)
(* first page to its last, whatever was stored in between and however far the  *)
(* window moved.                                                               *)
PagesAreComplete ==
  /\ \A m, n \in DOMAIN walk.got : m < n => Ahead(walk.got[m], walk.got[n])
  /\ walk.at = "ended" => walk.due \subseteq ToSet(walk.got)

(* What a withdrawal of an amount really costs.                                *)
Charged(row, amount) == OrZero(row.fee) + (amount * OrZero(row.rate)) \div 100
Unpriced(row)        == row.fee = NoAmount /\ row.rate = NoAmount

(* A search that is answered estimates every route by what it charges for the  *)
(* amount asked for, or for any amount if none was given, says so when nothing *)
(* is known, and ranks no route before another that charges less.              *)
EstimatesAreExact ==
  \A coin \in Coins, from, to \in Chains, equivalent \in BOOLEAN :
    LET rows == Withdrawn(Routes(coin, from, to, equivalent))
    IN  \A amount \in Asked \cup {NoAmount} : ~AmountRequired(rows, amount) =>
          LET meant == IF amount = NoAmount THEN Asked ELSE {amount}
          IN  \A row \in rows, a \in meant :
                /\ RouteFee(row, amount) = IF Unpriced(row) THEN NoAmount ELSE Charged(row, a)
                /\ \A other \in rows :
                     RanksBefore(row, other, amount) =>
                       Unpriced(other) \/ Charged(row, a) <= Charged(other, a)

===============================================================================
