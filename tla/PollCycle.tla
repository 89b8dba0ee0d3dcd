------------------------------- MODULE PollCycle -------------------------------
(***************************************************************************)
(* The ingester's cycle (cmd/ingester and Runner.RunOnce, RunAdapter in    *)
(* internal/ingester/runner.go): the exchanges are polled concurrently,    *)
(* each poll in a transaction of its own that resolves names, inserts the  *)
(* coins and chains it cannot find, and stores its rails; the aliases it   *)
(* learned are written afterwards, in a second transaction.  Statements    *)
(* see what is committed when they start (READ COMMITTED) and what their   *)
(* own transaction wrote; an insert waits for another transaction that has *)
(* written a row with its slug.                                            *)
(***************************************************************************)
EXTENDS Normalizer, FiniteSets

CONSTANTS
  Exchanges,      (* one adapter each                                          *)
  MaxConcurrency, (* the semaphore of RunOnce                                  *)
  Fetches,        (* per exchange: the results FetchRails may return           *)
  Seeds,          (* rows of coins and chains that the migrations insert       *)
  SeedIds,        (* ... and their ids, 0 where there is no row                *)
  MaxMishaps      (* bound: failed statements and crashes                      *)

ASSUME CycleAssumption ==
  /\ MaxConcurrency \in Nat \ {0} /\ MaxMishaps \in Nat
  /\ Fetches \in [Exchanges -> SUBSET Seq(Listing)]
  /\ Seeds \in [Kinds -> RowSet] /\ SeedIds \in [Kinds -> [Slugs -> Nat]]
  /\ \A k \in Kinds : IsFiniteSet({s \in Slugs : SeedIds[k][s] # 0})

VARIABLES
  table,   (* committed rows of coins and chains                                *)
  ids,     (* their ids, uncommitted rows included, 0 where there is no row        *)
  alias,   (* coin_aliases and chain_aliases, per exchange                      *)
  poll,    (* the goroutine of each exchange                                    *)
  said,    (* history: the rails each exchange has stored, one per listing      *)
  lost,    (* history: names whose alias was never written after a commit       *)
  mishaps  (* counts failed statements and crashes                              *)

stored == <<table, ids, alias, said, lost>>
vars   == <<table, ids, alias, poll, said, lost, mishaps>>

Rail     == [listing : Listing, chain : Slugs, coin : Slugs]
NoNames  == [k \in Kinds |-> [r \in Raws[k] |-> NoSlug]]
NoWrites == [k \in Kinds |-> [s \in Slugs |-> NoRow]]

(* known: coinAliasRefs and chainAliasRefs, with coinRefs and chainRefs; pending: the *)
(* deferred upserts; wrote: rows the transaction has written and not committed. *)
Poll(at, todo, names) ==
  [at |-> at, todo |-> todo, chain |-> NoSlug, known |-> names, pending |-> NoNames,
   rails |-> {}, wrote |-> NoWrites]

Init ==
  /\ table = Seeds /\ ids = SeedIds
  /\ alias = [e \in Exchanges |-> NoNames]
  /\ poll = [e \in Exchanges |-> Poll("off", <<>>, NoNames)]
  /\ said = [e \in Exchanges |-> {}]
  /\ lost = [e \in Exchanges |-> {}]
  /\ mishaps = 0

-----------------------------------------------------------------------------
(* The cycle *)

(* A tick, when the last cycle has ended: RunOnce starts every goroutine.     *)
Tick ==
  /\ \A e \in Exchanges : poll[e].at = "off"
  /\ poll' = [e \in Exchanges |-> Poll("wait", <<>>, NoNames)]
  /\ UNCHANGED <<stored, mishaps>>

(* wg.Wait: the cycle ends when every goroutine has. *)
EndCycle ==
  /\ \A e \in Exchanges : poll[e].at = "done"
  /\ poll' = [e \in Exchanges |-> Poll("off", <<>>, NoNames)]
  /\ UNCHANGED <<stored, mishaps>>

(* defer func() { <-sem }() *)
HasSlot(e) == poll[e].at \in {"fetch", "resolve", "insert", "flush"}

Acquire(e) ==
  /\ poll[e].at = "wait"
  /\ Cardinality({x \in Exchanges : HasSlot(x)}) < MaxConcurrency
  /\ poll' = [poll EXCEPT ![e].at = "fetch"]
  /\ UNCHANGED <<stored, mishaps>>

(* FetchRails returns, LoadCoinAliases and LoadChainAliases read the aliases, which *)
(* no one else writes, and the transaction begins.                             *)
Fetch(e, listed) ==
  /\ poll[e].at = "fetch"
  /\ poll' = [poll EXCEPT ![e] = Poll("resolve", listed, alias[e])]
  /\ UNCHANGED <<stored, mishaps>>

-----------------------------------------------------------------------------
(* Normalize: for each snapshot the chain, then the coin *)

Sees(e, kind) ==
  [s \in Slugs |-> IF poll[e].wrote[kind][s] # NoRow THEN poll[e].wrote[kind][s]
                                                      ELSE table[kind][s]]

Wants(e)    == IF poll[e].chain = NoSlug THEN "chain" ELSE "coin"
RawNow(e)   == Head(poll[e].todo)[Wants(e)]
Verified(e) == IF Wants(e) = "coin" THEN ByContract(poll[e].chain, Head(poll[e].todo).contract)
                                    ELSE NoSlug
SlugNow(e)  == SlugOf[InsertedSymbol(RawNow(e))]

(* The poll knows the slug for its current name and goes on to the next. *)
Onward(p, kind, slug) ==
  IF kind = "chain" THEN [p EXCEPT !.at = "resolve", !.chain = slug]
  ELSE [p EXCEPT !.at = "resolve", !.todo = Tail(p.todo), !.chain = NoSlug,
                 !.rails = @ \cup {[listing |-> Head(p.todo), chain |-> p.chain, coin |-> slug]}]

(* Slip: the caches are not filled. *)
SlipLearned(p, kind, raw, slug) == [p EXCEPT !.pending[kind][raw] = slug]

(* upsertCoinAliasOnce, upsertChainAliasOnce, and the caches of the poll. *)
Learned(p, kind, raw, slug) ==
  [p EXCEPT !.pending[kind][raw] = slug, !.known[kind][raw] = slug]

(* Slip: a coin found by its contract becomes the alias of the raw name. *)
SlipResolved(e, slug) ==
  Onward(Learned(poll[e], Wants(e), RawNow(e), slug), Wants(e), slug)

(* A contract says nothing about the name, so it teaches no alias. *)
Resolved(e, slug) ==
  Onward(IF Verified(e) # NoSlug THEN poll[e] ELSE Learned(poll[e], Wants(e), RawNow(e), slug),
        Wants(e), slug)

(* Slip: the aliases come after the search. *)
SlipFound(e) ==
  IF Verified(e) # NoSlug THEN Verified(e)
  ELSE IF Search(Wants(e), Sees(e, Wants(e)), ids[Wants(e)], RawNow(e)) # NoSlug
  THEN Search(Wants(e), Sees(e, Wants(e)), ids[Wants(e)], RawNow(e))
  ELSE poll[e].known[Wants(e)][RawNow(e)]

(* resolveCoin and resolveChain up to their insert. *)
Found(e) ==
  IF Verified(e) # NoSlug THEN Verified(e)
  ELSE IF poll[e].known[Wants(e)][RawNow(e)] # NoSlug THEN poll[e].known[Wants(e)][RawNow(e)]
  ELSE Search(Wants(e), Sees(e, Wants(e)), ids[Wants(e)], RawNow(e))

Resolve(e) ==
  /\ poll[e].at = "resolve" /\ poll[e].todo # <<>>
  /\ poll' = [poll EXCEPT ![e] = IF Found(e) = NoSlug THEN [@ EXCEPT !.at = "insert"]
                                                      ELSE Resolved(e, Found(e))]
  /\ UNCHANGED <<stored, mishaps>>

(* e's insert waits for the transaction of x. *)
WaitsFor(e, x) ==
  /\ e # x /\ poll[e].at = "insert"
  /\ poll[x].wrote[Wants(e)][SlugNow(e)] # NoRow

(* InsertCoin, InsertChain. *)
Insert(e) ==
  /\ poll[e].at = "insert"
  /\ ~\E x \in Exchanges : WaitsFor(e, x)
  /\ LET kind == Wants(e)
         s    == SlugNow(e)
         rows == Sees(e, kind)
     IN  /\ poll' = [poll EXCEPT ![e] =
              [Resolved(e, s) EXCEPT !.wrote[kind][s] = Inserted(rows, RawNow(e))]]
         /\ ids' = IF rows[s] # NoRow THEN ids
                   ELSE [ids EXCEPT ![kind][s] = Cardinality({t \in Slugs : ids[kind][t] # 0}) + 1]
  /\ UNCHANGED <<table, alias, said, lost, mishaps>>

-----------------------------------------------------------------------------
(* The two commits *)

(* The rails are merged, compared and written, the freshness is recorded, and the *)
(* transaction commits.                                                       *)
Commit(e) ==
  /\ poll[e].at = "resolve" /\ poll[e].todo = <<>>
  /\ table' = [k \in Kinds |-> Sees(e, k)]
  /\ said' = [said EXCEPT ![e] =
       {r \in @ : ~\E n \in poll[e].rails : n.listing = r.listing} \cup poll[e].rails]
  /\ poll' = [poll EXCEPT ![e].at = "flush", ![e].wrote = NoWrites]
  /\ UNCHANGED <<ids, alias, lost, mishaps>>

(* flushAliasUpserts *)
Flush(e) ==
  /\ poll[e].at = "flush"
  /\ alias' = [alias EXCEPT ![e] =
       [k \in Kinds |-> [r \in Raws[k] |->
          IF poll[e].pending[k][r] # NoSlug THEN poll[e].pending[k][r] ELSE @[k][r]]]]
  /\ poll' = [poll EXCEPT ![e] = Poll("done", <<>>, NoNames)]
  /\ UNCHANGED <<table, ids, said, lost, mishaps>>

(* The rows that are left when the transactions of some roll back. *)
Left(k, some) ==
  {s \in Slugs : /\ ids[k][s] # 0
                /\ \/ table[k][s] # NoRow
                   \/ \E x \in Exchanges \ some : poll[x].wrote[k][s] # NoRow}

(* Their ids, without the gaps that the others leave. *)
Withdrawn(some) ==
  [k \in Kinds |-> [s \in Slugs |->
     IF s \in Left(k, some) THEN Cardinality({t \in Left(k, some) : ids[k][t] <= ids[k][s]})
                            ELSE 0]]

Unwritten(e) ==
  {n \in UNION {{k} \X Raws[k] : k \in Kinds} :
     /\ poll[e].at = "flush" /\ poll[e].pending[n[1]][n[2]] # NoSlug
     /\ alias[e][n[1]][n[2]] = NoSlug}

Ended(e) == Poll("done", <<>>, NoNames)

(* Slip: the error of one exchange ends the polls of all.  *)
SlipFetchFails(e) ==
  /\ poll[e].at = "fetch"
  /\ poll' = [x \in Exchanges |-> Ended(x)]
  /\ ids' = Withdrawn(Exchanges)
  /\ UNCHANGED <<table, alias, said, lost, mishaps>>

(* The fetch fails or times out: nothing is stored, and the others go on. *)
FetchFails(e) ==
  /\ poll[e].at = "fetch"
  /\ poll' = [poll EXCEPT ![e] = Ended(e)]
  /\ UNCHANGED <<stored, mishaps>>

(* A statement fails, or Postgres ends a deadlock: RunAdapter returns the error and *)
(* rolls back what is not committed.                                          *)
Abort(e) ==
  /\ poll[e].at \in {"resolve", "insert", "flush"}
  /\ poll' = [poll EXCEPT ![e] = Ended(e)]
  /\ ids' = Withdrawn({e})
  /\ lost' = [lost EXCEPT ![e] = @ \cup Unwritten(e)]
  /\ UNCHANGED <<table, alias, said>>

StatementFails(e) == mishaps < MaxMishaps /\ mishaps' = mishaps + 1 /\ Abort(e)

(* e waits in a circle; Postgres chooses a victim. *)
Deadlocked(e) ==
  \E circle \in SUBSET Exchanges :
    /\ e \in circle
    /\ \A x \in circle : /\ \E y \in circle : WaitsFor(x, y)
                         /\ \E y \in circle : WaitsFor(y, x)

BreakDeadlock(e) == Deadlocked(e) /\ Abort(e) /\ UNCHANGED mishaps

(* The ingester dies at any point and is started again. *)
Crash ==
  /\ mishaps < MaxMishaps /\ mishaps' = mishaps + 1
  /\ \E e \in Exchanges : poll[e].at # "off"
  /\ poll' = [e \in Exchanges |-> Poll("off", <<>>, NoNames)]
  /\ ids' = Withdrawn(Exchanges)
  /\ lost' = [e \in Exchanges |-> lost[e] \cup Unwritten(e)]
  /\ UNCHANGED <<table, alias, said>>

-----------------------------------------------------------------------------
Step(e) ==
  \/ Acquire(e) \/ Resolve(e) \/ Insert(e) \/ Commit(e) \/ Flush(e) \/ BreakDeadlock(e)

Next ==
  \/ Tick \/ EndCycle \/ Crash
  \/ \E e \in Exchanges :
       \/ Step(e) \/ FetchFails(e) \/ StatementFails(e)
       \/ \E listed \in Fetches[e] : Fetch(e, listed)

Spec == Init /\ [][Next]_vars

(* The ticker and the goroutines go on, and a fetch succeeds again and again. *)
Fairness ==
  /\ WF_vars(Tick \/ EndCycle)
  /\ \A e \in Exchanges :
       /\ WF_vars(Step(e))
       /\ SF_vars(\E listed \in Fetches[e] : Fetch(e, listed))

FairSpec == Spec /\ Fairness

-----------------------------------------------------------------------------
(* A coin or chain that an exchange keeps listing under the same names keeps its *)
(* key: otherwise the rail would be delisted and another begun.  That is so *)
(* whatever the others insert meanwhile, unless an alias was lost between the two *)
(* commits (runner.go:216): the next poll then searches again.                *)
KeysAreStable ==
  [][\A e \in Exchanges : \A a \in said[e], b \in said'[e] :
       /\ a.listing = b.listing
       /\ <<"coin", a.listing.coin>> \notin lost[e]
       /\ <<"chain", a.listing.chain>> \notin lost[e]
       => a = b]_vars

(* Within a poll a name means one chain, and one coin where no contract says    *)
(* otherwise, although every lookup sees what others have committed meanwhile:   *)
(* the networks of one coin are not torn apart.                                *)
OnePollOneCoin ==
  \A e \in Exchanges : \A a, b \in poll[e].rails :
    /\ a.listing.chain = b.listing.chain => a.chain = b.chain
    /\ /\ a.listing.coin = b.listing.coin
       /\ ByContract(a.chain, a.listing.contract) = NoSlug
       /\ ByContract(b.chain, b.listing.contract) = NoSlug
       => a.coin = b.coin

(* An alias leads to a committed row, which it deserves by symbol, name or synonym: a *)
(* coin known by its contract alone does not become the meaning of a generic   *)
(* name for all chains (resolver_test.go:192).                                *)
AliasesAreExplained ==
  \A e \in Exchanges, k \in Kinds : \A r \in Raws[k] :
    LET s == alias[e][k][r]
    IN  s # NoSlug =>
          /\ table[k][s] # NoRow
          /\ \/ s = SlugOf[InsertedSymbol(r)]
             \/ Seeds[k][s] # NoRow /\ Seeds[k][s].symbol = r.symbol
             \/ table[k][s].name = r.name
             \/ k = "chain" /\ s \in {SynonymOf(r.symbol), SynonymOf(r.name)}

(* Every exchange stores a poll again and again, although polls wait for each other *)
(* and end in deadlocks: only new rows are waited for, and they run out.       *)
PollsGoOn == \A e \in Exchanges : []<>(poll[e].at = "flush")

===============================================================================
