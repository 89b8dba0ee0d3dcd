---------------------------- MODULE PollCycleProofs ----------------------------
(***************************************************************************)
(* For any number of exchanges, any names and any seeds: within a poll a   *)
(* name means one coin, a rail keeps its key from poll to poll, and an     *)
(* alias is explained by what it leads to, however the transactions of     *)
(* other exchanges interleave, roll back or die.                           *)
(*                                                                         *)
(* The argument.  What a poll knows of a name is its alias or is pending,  *)
(* and never changes while the poll runs (NamesFit); the rails it has told *)
(* were told by what it knows.  What it has stored is kept by the alias,   *)
(* or is still to be flushed, unless it is recorded as lost.  A row once   *)
(* committed keeps its name, since only one transaction at a time holds it *)
(* (RowsFit), so an explanation stays valid after others have committed.   *)
(***************************************************************************)
EXTENDS PollCycle, FiniteSetTheorems, SequenceTheorems, WellFoundedInduction, TLAPS

-----------------------------------------------------------------------------
(* The inductive invariant *)

Idle   == {"off", "wait", "fetch", "done"}
Active == {"resolve", "insert", "flush"}
MaySlug == Slugs \cup {NoSlug}

NamesTyped(n) == DOMAIN n = Kinds /\ \A k \in Kinds : n[k] \in [Raws[k] -> MaySlug]

PollTyped(p) ==
  /\ DOMAIN p = {"at", "todo", "chain", "known", "pending", "rails", "wrote"}
  /\ p.at \in Idle \cup Active
  /\ p.todo \in Seq(Listing) /\ p.chain \in MaySlug
  /\ NamesTyped(p.known) /\ NamesTyped(p.pending)
  /\ p.rails \subseteq Rail
  /\ p.wrote \in [Kinds -> RowSet]

IdsTyped(i) ==
  /\ i \in [Kinds -> [Slugs -> Nat]]
  /\ \A k \in Kinds : IsFiniteSet({s \in Slugs : i[k][s] # 0})

(* The tables, the polls and the histories have their types. *)
CycleTyped ==
  /\ table \in [Kinds -> RowSet] /\ IdsTyped(ids)
  /\ DOMAIN alias = Exchanges /\ DOMAIN poll = Exchanges /\ DOMAIN lost = Exchanges
  /\ \A e \in Exchanges : NamesTyped(alias[e]) /\ PollTyped(poll[e])
  /\ said \in [Exchanges -> SUBSET Rail]

(* What a poll asks for next. *)
WantsOf(p)    == IF p.chain = NoSlug THEN "chain" ELSE "coin"
RawOf(p)      == Head(p.todo)[WantsOf(p)]
VerifiedOf(p) == IF WantsOf(p) = "coin" THEN ByContract(p.chain, Head(p.todo).contract) ELSE NoSlug

(* A poll that does not run has nothing; after its commit it only has its aliases. *)
Emptied(p) ==
  /\ p.at \in Idle => p.rails = {} /\ p.wrote = NoWrites /\ p.pending = NoNames
  /\ p.at \in Idle \cup {"flush"} => p.chain = NoSlug /\ p.wrote = NoWrites /\ p.todo = <<>>

(* Between the two names of a listing, the chain is known. *)
Halfway(p) ==
  /\ p.chain # NoSlug => p.todo # <<>> /\ p.known["chain"][Head(p.todo).chain] = p.chain
  /\ p.at = "insert" =>
       p.todo # <<>> /\ VerifiedOf(p) = NoSlug /\ p.known[WantsOf(p)][RawOf(p)] = NoSlug

(* The rails were told by the names the poll knows. *)
ToldByNames(p) ==
  \A r \in p.rails :
    LET verified == ByContract(r.chain, r.listing.contract)
    IN  /\ p.known["chain"][r.listing.chain] = r.chain
        /\ r.coin = IF verified # NoSlug THEN verified ELSE p.known["coin"][r.listing.coin]

(* What the poll knows is what it read and what it will write. *)
KnowsAliases(p, al) ==
  p.at \in Active =>
    \A k \in Kinds : \A r \in Raws[k] :
      /\ p.pending[k][r] # NoSlug => p.known[k][r] = p.pending[k][r]
      /\ al[k][r] # NoSlug => p.known[k][r] = al[k][r]
      /\ p.known[k][r] \in {al[k][r], p.pending[k][r]}

Keeps(p, al, k, r, slug) == al[k][r] = slug \/ (p.at = "flush" /\ p.pending[k][r] = slug)

(* What is stored will be found again. *)
StoredKept(p, al, sd, lo) ==
  \A r \in sd :
    LET verified == ByContract(r.chain, r.listing.contract)
    IN  /\ <<"chain", r.listing.chain>> \in lo \/ Keeps(p, al, "chain", r.listing.chain, r.chain)
        /\ IF verified # NoSlug THEN r.coin = verified
           ELSE <<"coin", r.listing.coin>> \in lo \/ Keeps(p, al, "coin", r.listing.coin, r.coin)

OncePerListing(sd) == \A a, b \in sd : a.listing = b.listing => a = b

NamesFit(p, al, sd, lo) ==
  /\ Emptied(p) /\ Halfway(p) /\ ToldByNames(p)
  /\ KnowsAliases(p, al) /\ StoredKept(p, al, sd, lo) /\ OncePerListing(sd)

KInv == CycleTyped /\ \A e \in Exchanges : NamesFit(poll[e], alias[e], said[e], lost[e])

(* A row has the slug of its symbol or the symbol it was seeded with. *)
RowFits(k, s, row) ==
  row # NoRow => SlugOf[row.symbol] = s \/ (Seeds[k][s] # NoRow /\ Seeds[k][s].symbol = row.symbol)

Explained(k, r, s, row) ==
  /\ row # NoRow
  /\ \/ s = SlugOf[InsertedSymbol(r)]
     \/ Seeds[k][s] # NoRow /\ Seeds[k][s].symbol = r.symbol
     \/ row.name = r.name
     \/ k = "chain" /\ s \in {SynonymOf(r.symbol), SynonymOf(r.name)}

(* The row of a slug as a poll sees it in a table. *)
Seen(t, p, k, s) == IF p.wrote[k][s] # NoRow THEN p.wrote[k][s] ELSE t[k][s]

(* Only one transaction holds a row, and it leaves the name of a committed one. *)
RowsFit ==
  \A k \in Kinds : \A s \in Slugs :
    /\ RowFits(k, s, table[k][s])
    /\ \A e \in Exchanges :
         /\ RowFits(k, s, poll[e].wrote[k][s])
         /\ poll[e].wrote[k][s] # NoRow /\ table[k][s] # NoRow
              => poll[e].wrote[k][s].name = table[k][s].name
         /\ \A f \in Exchanges \ {e} :
              poll[e].wrote[k][s] = NoRow \/ poll[f].wrote[k][s] = NoRow

NamesExplained ==
  \A e \in Exchanges : \A k \in Kinds : \A r \in Raws[k] :
    /\ alias[e][k][r] # NoSlug => Explained(k, r, alias[e][k][r], table[k][alias[e][k][r]])
    /\ poll[e].pending[k][r] # NoSlug =>
         Explained(k, r, poll[e].pending[k][r], Seen(table, poll[e], k, poll[e].pending[k][r]))

XInv == KInv /\ RowsFit /\ NamesExplained

-----------------------------------------------------------------------------
(* The eldest row *)

(* A set of naturals has a least element.  No theorem of induction can be  *)
(* instantiated here; but finite sets are well founded under inclusion, so *)
(* one of the intervals from 0 to a member of the set is minimal.          *)
LEMMA LeastNatural ==
  ASSUME NEW N \in SUBSET Nat, N # {}
  PROVE  \E n \in N : \A m \in N : n <= m
<1> DEFINE Below == {0..n : n \in N}
           smaller == StrictSubsetOrdering(Nat)
<1>1. Below # {}
  OBVIOUS
<1>2. Below \subseteq FiniteSubsetsOf(Nat)
  <2>1. \A n \in N : 0..n \subseteq Nat /\ IsFiniteSet(0..n)
    BY FS_Interval
  <2> QED
    BY <2>1 DEF FiniteSubsetsOf
<1>3. IsWellFoundedOn(smaller, FiniteSubsetsOf(Nat))
  BY FS_StrictSubsetOrderingWellFounded
<1>4. PICK B \in Below : \A A \in Below : <<A, B>> \notin smaller
  <2> HIDE DEF Below, smaller
  <2> QED
    BY <1>1, <1>2, <1>3, WFMin
<1>5. PICK n \in N : B = 0..n
  OBVIOUS
<1>6. ASSUME NEW m \in N, ~(n <= m) PROVE FALSE
  <2>1. 0..m \subseteq 0..n /\ n \in 0..n /\ n \notin 0..m
    BY <1>6
  <2>2. <<0..m, 0..n>> \in smaller
    BY <2>1 DEF StrictSubsetOrdering
  <2> QED
    BY <1>4, <1>5, <2>2
<1> QED
  BY <1>6

LEMMA EldestIsOne ==
  ASSUME NEW i \in [Slugs -> Nat], NEW some \in SUBSET Slugs, some # {}
  PROVE  Eldest(i, some) \in some
<1> DEFINE N == {i[s] : s \in some}
<1>1. N \in SUBSET Nat /\ N # {}
  OBVIOUS
<1>2. PICK n \in N : \A m \in N : n <= m
  <2> HIDE DEF N
  <2> QED
    BY <1>1, LeastNatural
<1>3. PICK s \in some : i[s] = n
  OBVIOUS
<1>4. \A t \in some : i[s] <= i[t]
  BY <1>2, <1>3
<1> QED
  BY <1>4 DEF Eldest

(* A search finds a row that is there, by its symbol, its name or a synonym. *)
LEMMA SearchFinds ==
  ASSUME NEW kind \in Kinds, NEW rows \in RowSet, NEW i \in [Slugs -> Nat],
         NEW raw \in Raws[kind]
  PROVE  LET s == Search(kind, rows, i, raw)
         IN  /\ s \in MaySlug
             /\ s # NoSlug => /\ rows[s] # NoRow
                              /\ \/ rows[s].symbol = raw.symbol
                                 \/ rows[s].name = raw.name
                                 \/ /\ kind = "chain"
                                    /\ s \in {SynonymOf(raw.symbol), SynonymOf(raw.name)}
<1> DEFINE c == Canonical(rows, i, raw)
<1>1. /\ c \in MaySlug
      /\ c # NoSlug => rows[c] # NoRow /\ (rows[c].symbol = raw.symbol \/ rows[c].name = raw.name)
  <2>1. CASE BySymbol(rows, raw) # {}
    <3>1. Eldest(i, BySymbol(rows, raw)) \in BySymbol(rows, raw)
      <4>1. BySymbol(rows, raw) \in SUBSET Slugs
        BY DEF BySymbol
      <4> QED
        BY <2>1, <4>1, EldestIsOne
    <3> QED
      BY <2>1, <3>1 DEF Canonical, BySymbol, MaySlug
  <2>2. CASE BySymbol(rows, raw) = {} /\ ByName(rows, raw) # {}
    <3>1. Eldest(i, ByName(rows, raw)) \in ByName(rows, raw)
      <4>1. ByName(rows, raw) \in SUBSET Slugs
        BY DEF ByName
      <4> QED
        BY <2>2, <4>1, EldestIsOne
    <3> QED
      BY <2>2, <3>1 DEF Canonical, ByName, MaySlug
  <2>3. CASE BySymbol(rows, raw) = {} /\ ByName(rows, raw) = {}
    BY <2>3 DEF Canonical, MaySlug
  <2> QED
    BY <2>1, <2>2, <2>3
<1> HIDE DEF c
<1>2. kind = "chain" =>
        LET s == BySynonym(rows, raw)
        IN  /\ s \in MaySlug
            /\ s # NoSlug => rows[s] # NoRow /\ s \in {SynonymOf(raw.symbol), SynonymOf(raw.name)}
  <2>1. ASSUME kind = "chain", NEW t \in Texts \cup {NoText}
        PROVE  SynonymOf(t) \in MaySlug
    BY MapAssumption DEF SynonymOf, MaySlug
  <2>2. kind = "chain" => raw.symbol \in Texts \cup {NoText} /\ raw.name \in Texts \cup {NoText}
    BY RawAssumption DEF Raws
  <2> QED
    BY <2>1, <2>2 DEF BySynonym, MaySlug
<1>3. Search(kind, rows, i, raw) =
        IF c # NoSlug \/ kind = "coin" THEN c ELSE BySynonym(rows, raw)
  BY DEF Search, c
<1>4. kind \in {"coin", "chain"}
  BY DEF Kinds
<1> QED
  BY <1>1, <1>2, <1>3, <1>4

-----------------------------------------------------------------------------
(* One name of a poll *)

LEMMA PollFields ==
  ASSUME NEW p, PollTyped(p)
  PROVE  /\ DOMAIN p.known = Kinds /\ DOMAIN p.pending = Kinds
         /\ \A k \in Kinds : p.known[k] \in [Raws[k] -> MaySlug]
                             /\ p.pending[k] \in [Raws[k] -> MaySlug]
         /\ p.todo \in Seq(Listing) /\ p.chain \in MaySlug
         /\ p.rails \in SUBSET Rail /\ p.wrote \in [Kinds -> RowSet]
BY DEF PollTyped, NamesTyped

LEMMA LearnedIs ==
  ASSUME NEW p, PollTyped(p), NEW kind \in Kinds, NEW raw \in Raws[kind], NEW slug \in Slugs
  PROVE  LET q == Learned(p, kind, raw, slug)
         IN  /\ PollTyped(q)
             /\ q.at = p.at /\ q.todo = p.todo /\ q.chain = p.chain
             /\ q.rails = p.rails /\ q.wrote = p.wrote
             /\ \A k \in Kinds : \A r \in Raws[k] :
                  /\ q.known[k][r] = IF k = kind /\ r = raw THEN slug ELSE p.known[k][r]
                  /\ q.pending[k][r] = IF k = kind /\ r = raw THEN slug ELSE p.pending[k][r]
<1> DEFINE q == Learned(p, kind, raw, slug)
           Set(n) == [n EXCEPT ![kind][raw] = slug]
<1>1. q = [p EXCEPT !.pending = Set(p.pending), !.known = Set(p.known)]
  BY DEF Learned, PollTyped
<1>2. ASSUME NEW n, NamesTyped(n)
      PROVE  /\ NamesTyped(Set(n))
             /\ \A k \in Kinds : \A r \in Raws[k] :
                  Set(n)[k][r] = IF k = kind /\ r = raw THEN slug ELSE n[k][r]
  <2>1. slug \in MaySlug
    BY DEF MaySlug
  <2>2. DOMAIN Set(n) = Kinds
    BY <1>2 DEF NamesTyped
  <2>3. ASSUME NEW k \in Kinds, k # kind PROVE Set(n)[k] = n[k]
    BY <1>2, <2>3 DEF NamesTyped
  <2>4. Set(n)[kind] = [n[kind] EXCEPT ![raw] = slug]
    BY <1>2 DEF NamesTyped
  <2>5. n[kind] \in [Raws[kind] -> MaySlug]
    BY <1>2 DEF NamesTyped
  <2>6. /\ [n[kind] EXCEPT ![raw] = slug] \in [Raws[kind] -> MaySlug]
        /\ \A r \in Raws[kind] :
             [n[kind] EXCEPT ![raw] = slug][r] = IF r = raw THEN slug ELSE n[kind][r]
    BY <2>1, <2>5
  <2> HIDE DEF Set
  <2>7. \A k \in Kinds : Set(n)[k] \in [Raws[k] -> MaySlug]
    BY <1>2, <2>3, <2>4, <2>6 DEF NamesTyped
  <2>8. \A k \in Kinds : \A r \in Raws[k] :
          Set(n)[k][r] = IF k = kind /\ r = raw THEN slug ELSE n[k][r]
    BY <2>3, <2>4, <2>6
  <2> QED
    BY <2>2, <2>7, <2>8 DEF NamesTyped
<1> HIDE DEF q, Set
<1>3. /\ DOMAIN q = DOMAIN p /\ q.pending = Set(p.pending) /\ q.known = Set(p.known)
      /\ q.at = p.at /\ q.todo = p.todo /\ q.chain = p.chain
      /\ q.rails = p.rails /\ q.wrote = p.wrote
  BY <1>1 DEF PollTyped
<1>4. /\ NamesTyped(q.known) /\ NamesTyped(q.pending)
      /\ \A k \in Kinds : \A r \in Raws[k] :
           /\ q.known[k][r] = IF k = kind /\ r = raw THEN slug ELSE p.known[k][r]
           /\ q.pending[k][r] = IF k = kind /\ r = raw THEN slug ELSE p.pending[k][r]
  BY <1>2, <1>3 DEF PollTyped
<1>5. PollTyped(q)
  BY <1>3, <1>4 DEF PollTyped
<1> QED
  BY <1>3, <1>4, <1>5 DEF q

LEMMA OnwardIs ==
  ASSUME NEW p, PollTyped(p), p.todo # <<>>, NEW kind \in Kinds, NEW slug \in Slugs,
         kind = "coin" => p.chain # NoSlug
  PROVE  LET q == Onward(p, kind, slug)
         IN  /\ PollTyped(q)
             /\ q.at = "resolve" /\ q.known = p.known /\ q.pending = p.pending /\ q.wrote = p.wrote
             /\ kind = "chain" => q.todo = p.todo /\ q.chain = slug /\ q.rails = p.rails
             /\ kind = "coin" =>
                  /\ q.chain = NoSlug
                  /\ q.rails = p.rails \cup
                       {[listing |-> Head(p.todo), chain |-> p.chain, coin |-> slug]}
<1> DEFINE q == Onward(p, kind, slug)
           rail == [listing |-> Head(p.todo), chain |-> p.chain, coin |-> slug]
<1>1. "resolve" \in Idle \cup Active /\ slug \in MaySlug /\ NoSlug \in MaySlug
  BY DEF Active, MaySlug
<1>2. Head(p.todo) \in Listing /\ Tail(p.todo) \in Seq(Listing)
  BY HeadTailProperties DEF PollTyped
<1>3. CASE kind = "chain"
  <2>1. q = [p EXCEPT !.at = "resolve", !.chain = slug]
    BY <1>3 DEF Onward
  <2> HIDE DEF q
  <2>2. /\ DOMAIN q = DOMAIN p /\ q.at = "resolve" /\ q.chain = slug
        /\ q.known = p.known /\ q.pending = p.pending /\ q.wrote = p.wrote
        /\ q.todo = p.todo /\ q.rails = p.rails
    BY <2>1 DEF PollTyped
  <2>3. PollTyped(q)
    BY <1>1, <2>2 DEF PollTyped
  <2> QED
    BY <1>3, <2>2, <2>3 DEF q
<1>4. CASE kind = "coin"
  <2>1. q = [p EXCEPT !.at = "resolve", !.todo = Tail(p.todo), !.chain = NoSlug,
                      !.rails = @ \cup {rail}]
    BY <1>4 DEF Onward
  <2>2. rail \in Rail
    BY <1>2, <1>4 DEF PollTyped, MaySlug, Rail
  <2> HIDE DEF q, rail
  <2>3. /\ DOMAIN q = DOMAIN p /\ q.at = "resolve" /\ q.chain = NoSlug
        /\ q.known = p.known /\ q.pending = p.pending /\ q.wrote = p.wrote
        /\ q.todo = Tail(p.todo) /\ q.rails = p.rails \cup {rail}
    BY <2>1 DEF PollTyped
  <2>4. PollTyped(q)
    BY <1>1, <1>2, <2>2, <2>3 DEF PollTyped
  <2> QED
    BY <1>4, <2>3, <2>4 DEF q, rail
<1> QED
  BY <1>3, <1>4 DEF Kinds

ResolvedOf(p, slug) ==
  Onward(IF VerifiedOf(p) # NoSlug THEN p ELSE Learned(p, WantsOf(p), RawOf(p), slug),
         WantsOf(p), slug)

LEMMA WantedIs ==
  ASSUME NEW p, PollTyped(p), p.todo # <<>>
  PROVE  /\ WantsOf(p) \in Kinds /\ RawOf(p) \in Raws[WantsOf(p)]
         /\ Head(p.todo) \in Listing
         /\ WantsOf(p) = "chain" => RawOf(p) = Head(p.todo).chain /\ VerifiedOf(p) = NoSlug
         /\ WantsOf(p) = "coin" => /\ p.chain \in Slugs /\ RawOf(p) = Head(p.todo).coin
                                   /\ VerifiedOf(p) = ByContract(p.chain, Head(p.todo).contract)
<1>1. Head(p.todo) \in Listing
  BY HeadTailProperties DEF PollTyped
<1>2. Head(p.todo).coin \in Raws["coin"] /\ Head(p.todo).chain \in Raws["chain"]
  BY <1>1 DEF Listing, Raws
<1>3. p.chain # NoSlug => p.chain \in Slugs
  BY DEF PollTyped, MaySlug
<1> QED
  BY <1>1, <1>2, <1>3 DEF WantsOf, RawOf, VerifiedOf, Kinds

LEMMA ResolvedIs ==
  ASSUME NEW p, PollTyped(p), p.todo # <<>>, NEW slug \in Slugs
  PROVE  LET q == ResolvedOf(p, slug)
             w == WantsOf(p)
         IN  /\ PollTyped(q) /\ q.at = "resolve" /\ q.wrote = p.wrote
             /\ \A k \in Kinds : \A r \in Raws[k] :
                  LET new == VerifiedOf(p) = NoSlug /\ k = w /\ r = RawOf(p)
                  IN  /\ q.known[k][r] = IF new THEN slug ELSE p.known[k][r]
                      /\ q.pending[k][r] = IF new THEN slug ELSE p.pending[k][r]
             /\ w = "chain" => q.todo = p.todo /\ q.chain = slug /\ q.rails = p.rails
             /\ w = "coin" =>
                  /\ q.chain = NoSlug
                  /\ q.rails = p.rails \cup
                       {[listing |-> Head(p.todo), chain |-> p.chain, coin |-> slug]}
<1> DEFINE w == WantsOf(p)
           l == IF VerifiedOf(p) # NoSlug THEN p ELSE Learned(p, w, RawOf(p), slug)
<1>1. w \in Kinds /\ RawOf(p) \in Raws[w] /\ (w = "coin" => p.chain # NoSlug)
  BY WantedIs DEF WantsOf
<1>2. /\ PollTyped(l)
      /\ l.at = p.at /\ l.todo = p.todo /\ l.chain = p.chain
      /\ l.rails = p.rails /\ l.wrote = p.wrote
      /\ \A k \in Kinds : \A r \in Raws[k] :
           LET new == VerifiedOf(p) = NoSlug /\ k = w /\ r = RawOf(p)
           IN  /\ l.known[k][r] = IF new THEN slug ELSE p.known[k][r]
               /\ l.pending[k][r] = IF new THEN slug ELSE p.pending[k][r]
  <2>1. CASE VerifiedOf(p) # NoSlug
    BY <2>1
  <2>2. CASE VerifiedOf(p) = NoSlug
    <3>1. l = Learned(p, w, RawOf(p), slug)
      BY <2>2
    <3> HIDE DEF l, w
    <3> QED
      BY <1>1, <2>2, <3>1, LearnedIs
  <2> QED
    BY <2>1, <2>2
<1> HIDE DEF l
<1>3. LET q == Onward(l, w, slug)
      IN  /\ PollTyped(q)
          /\ q.at = "resolve" /\ q.known = l.known /\ q.pending = l.pending /\ q.wrote = l.wrote
          /\ w = "chain" => q.todo = l.todo /\ q.chain = slug /\ q.rails = l.rails
          /\ w = "coin" =>
               /\ q.chain = NoSlug
               /\ q.rails = l.rails \cup
                    {[listing |-> Head(l.todo), chain |-> l.chain, coin |-> slug]}
  <2> HIDE DEF w
  <2> QED
    BY <1>1, <1>2, OnwardIs
<1>4. ResolvedOf(p, slug) = Onward(l, w, slug)
  BY DEF ResolvedOf, l
<1> QED
  BY <1>2, <1>3, <1>4

(* A name that is resolved to what the poll already knows, or to something for a name *)
(* that it does not know, disturbs nothing.                                     *)
Agrees(p, slug) ==
  IF VerifiedOf(p) # NoSlug THEN slug = VerifiedOf(p)
  ELSE p.known[WantsOf(p)][RawOf(p)] \in {NoSlug, slug}

LEMMA ResolvedFits ==
  ASSUME NEW p, PollTyped(p), p.todo # <<>>, p.at \in {"resolve", "insert"},
         NEW al, NEW sd, sd \subseteq Rail, NEW lo, NamesFit(p, al, sd, lo),
         NamesTyped(al), NEW slug \in Slugs, Agrees(p, slug)
  PROVE  NamesFit(ResolvedOf(p, slug), al, sd, lo)
<1> DEFINE q == ResolvedOf(p, slug)
           w == WantsOf(p)
           New(k, r) == VerifiedOf(p) = NoSlug /\ k = w /\ r = RawOf(p)
           rail == [listing |-> Head(p.todo), chain |-> p.chain, coin |-> slug]
<1>1. /\ PollTyped(q) /\ q.at = "resolve" /\ q.wrote = p.wrote
      /\ w = "chain" => q.todo = p.todo /\ q.chain = slug /\ q.rails = p.rails
      /\ w = "coin" => q.chain = NoSlug /\ q.rails = p.rails \cup {rail}
  BY ResolvedIs
<1>2. \A k \in Kinds : \A r \in Raws[k] :
        /\ q.known[k][r] = IF New(k, r) THEN slug ELSE p.known[k][r]
        /\ q.pending[k][r] = IF New(k, r) THEN slug ELSE p.pending[k][r]
  BY ResolvedIs
<1>3. /\ w \in Kinds /\ RawOf(p) \in Raws[w] /\ Head(p.todo) \in Listing
      /\ w = "chain" => RawOf(p) = Head(p.todo).chain /\ VerifiedOf(p) = NoSlug
      /\ w = "coin" => /\ p.chain \in Slugs /\ RawOf(p) = Head(p.todo).coin
                       /\ VerifiedOf(p) = ByContract(p.chain, Head(p.todo).contract)
  BY WantedIs
<1>4. /\ "coin" \in Kinds /\ "chain" \in Kinds /\ slug # NoSlug
      /\ \A l \in Listing : l.coin \in Raws["coin"] /\ l.chain \in Raws["chain"]
      /\ \A r \in Rail : r.listing \in Listing /\ r.chain \in Slugs /\ r.coin \in Slugs
      /\ NoSlug \notin Slugs
  BY RawAssumption DEF Kinds, Listing, Raws, Rail
<1> HIDE DEF q
(* What was known stays known. *)
<1>5. \A k \in Kinds : \A r \in Raws[k] :
        p.known[k][r] # NoSlug => q.known[k][r] = p.known[k][r]
  <2> SUFFICES ASSUME NEW k \in Kinds, NEW r \in Raws[k], p.known[k][r] # NoSlug
               PROVE  q.known[k][r] = p.known[k][r]
    OBVIOUS
  <2> QED
    BY <1>2 DEF Agrees
<1>6. Emptied(q)
  BY <1>1 DEF Emptied, Idle
<1>7. Halfway(q)
  <2>1. CASE w = "chain"
    BY <1>1, <1>2, <1>3, <1>4, <2>1 DEF Halfway
  <2>2. CASE w = "coin"
    BY <1>1, <2>2 DEF Halfway
  <2> QED
    BY <1>3, <2>1, <2>2 DEF Kinds
<1>8. ToldByNames(q)
  <2> SUFFICES ASSUME NEW r \in q.rails
               PROVE  LET verified == ByContract(r.chain, r.listing.contract)
                      IN  /\ q.known["chain"][r.listing.chain] = r.chain
                          /\ r.coin = IF verified # NoSlug THEN verified
                                      ELSE q.known["coin"][r.listing.coin]
    BY DEF ToldByNames
  <2>1. CASE r \in p.rails
    <3>1. r \in Rail
      BY <2>1 DEF PollTyped
    <3>2. LET verified == ByContract(r.chain, r.listing.contract)
          IN  /\ p.known["chain"][r.listing.chain] = r.chain
              /\ r.coin = IF verified # NoSlug THEN verified ELSE p.known["coin"][r.listing.coin]
      BY <2>1 DEF NamesFit, ToldByNames
    <3> QED
      BY <1>4, <1>5, <3>1, <3>2
  <2>2. CASE r = rail /\ w = "coin"
    <3>1. r.listing = Head(p.todo) /\ r.chain = p.chain /\ r.coin = slug
      BY <2>2
    <3>2. p.known["chain"][Head(p.todo).chain] = p.chain
      BY <1>3, <1>4, <2>2 DEF NamesFit, Halfway
    <3>3. q.known["chain"][r.listing.chain] = r.chain
      BY <1>3, <1>4, <1>5, <2>2, <3>1, <3>2
    <3>4. VerifiedOf(p) = NoSlug => q.known["coin"][r.listing.coin] = slug
      BY <1>2, <1>3, <1>4, <2>2, <3>1
    <3>5. VerifiedOf(p) # NoSlug => slug = VerifiedOf(p)
      BY DEF Agrees
    <3> QED
      BY <1>3, <2>2, <3>1, <3>3, <3>4, <3>5
  <2>3. w = "chain" \/ w = "coin"
    BY <1>3 DEF Kinds
  <2> QED
    BY <1>1, <2>1, <2>2, <2>3
<1>9. KnowsAliases(q, al)
  <2> SUFFICES ASSUME NEW k \in Kinds, NEW r \in Raws[k]
               PROVE  /\ q.pending[k][r] # NoSlug => q.known[k][r] = q.pending[k][r]
                      /\ al[k][r] # NoSlug => q.known[k][r] = al[k][r]
                      /\ q.known[k][r] \in {al[k][r], q.pending[k][r]}
    BY DEF KnowsAliases
  <2>1. /\ p.pending[k][r] # NoSlug => p.known[k][r] = p.pending[k][r]
        /\ al[k][r] # NoSlug => p.known[k][r] = al[k][r]
        /\ p.known[k][r] \in {al[k][r], p.pending[k][r]}
    BY DEF NamesFit, KnowsAliases, Active
  <2>2. CASE New(k, r)
    BY <1>2, <1>4, <2>1, <2>2 DEF Agrees
  <2>3. CASE ~New(k, r)
    BY <1>2, <2>1, <2>3
  <2> QED
    BY <2>2, <2>3
<1>10. StoredKept(q, al, sd, lo)
  BY <1>1 DEF NamesFit, StoredKept, Keeps
<1> QED
  BY <1>6, <1>7, <1>8, <1>9, <1>10 DEF NamesFit, q

-----------------------------------------------------------------------------
(* A poll begins, ends and commits *)

LEMMA NothingTyped ==
  /\ NamesTyped(NoNames) /\ NoWrites \in [Kinds -> RowSet]
  /\ \A k \in Kinds : \A r \in Raws[k] : NoNames[k][r] = NoSlug
  /\ \A k \in Kinds : \A s \in Slugs : NoWrites[k][s] = NoRow
BY DEF NoNames, NoWrites, NamesTyped, MaySlug, RowSet

LEMMA PollIs ==
  ASSUME NEW at \in Idle \cup Active, NEW todo \in Seq(Listing), NEW names, NamesTyped(names)
  PROVE  LET q == Poll(at, todo, names)
         IN  /\ PollTyped(q)
             /\ q.at = at /\ q.todo = todo /\ q.chain = NoSlug /\ q.known = names
             /\ q.pending = NoNames /\ q.rails = {} /\ q.wrote = NoWrites
<1> DEFINE q == Poll(at, todo, names)
<1>1. /\ q.at = at /\ q.todo = todo /\ q.chain = NoSlug /\ q.known = names
      /\ q.pending = NoNames /\ q.rails = {} /\ q.wrote = NoWrites
      /\ DOMAIN q = {"at", "todo", "chain", "known", "pending", "rails", "wrote"}
  BY DEF Poll
<1> HIDE DEF q
<1>2. PollTyped(q)
  BY <1>1, NothingTyped DEF PollTyped, MaySlug
<1> QED
  BY <1>1, <1>2 DEF q

LEMMA IdlePollIs ==
  ASSUME NEW at \in Idle
  PROVE  LET q == Poll(at, <<>>, NoNames)
         IN  /\ PollTyped(q) /\ q.at = at /\ q.todo = <<>> /\ q.chain = NoSlug
             /\ q.pending = NoNames /\ q.rails = {} /\ q.wrote = NoWrites
<1> DEFINE none == <<>>
<1>1. none \in Seq(Listing)
  BY EmptySeq
<1>2. at \in Idle \cup Active /\ NamesTyped(NoNames)
  BY NothingTyped
<1> HIDE DEF none
<1>3. LET q == Poll(at, none, NoNames)
      IN  /\ PollTyped(q) /\ q.at = at /\ q.todo = none /\ q.chain = NoSlug
          /\ q.pending = NoNames /\ q.rails = {} /\ q.wrote = NoWrites
  BY <1>1, <1>2, PollIs
<1> QED
  BY <1>3 DEF none

(* A poll is over: what it has stored is kept by the aliases, unless it was not *)
(* flushed; then it is lost.                                                    *)
LEMMA EndFits ==
  ASSUME NEW p, PollTyped(p), NEW al, NEW sd, sd \subseteq Rail, NEW lo, NEW more,
         NamesFit(p, al, sd, lo), lo \subseteq more, NEW at \in Idle,
         \A k \in Kinds : \A r \in Raws[k] :
           p.at = "flush" /\ p.pending[k][r] # NoSlug /\ al[k][r] = NoSlug => <<k, r>> \in more
  PROVE  PollTyped(Poll(at, <<>>, NoNames)) /\ NamesFit(Poll(at, <<>>, NoNames), al, sd, more)
<1> DEFINE q == Poll(at, <<>>, NoNames)
<1>1. /\ PollTyped(q) /\ q.at = at /\ q.todo = <<>> /\ q.chain = NoSlug
      /\ q.pending = NoNames /\ q.rails = {} /\ q.wrote = NoWrites
  BY IdlePollIs
<1> HIDE DEF q
<1>2. Emptied(q) /\ Halfway(q) /\ ToldByNames(q) /\ KnowsAliases(q, al)
  BY <1>1 DEF Emptied, Halfway, ToldByNames, KnowsAliases, Idle, Active
<1>3. ASSUME NEW k \in Kinds, NEW r \in Raws[k], NEW slug \in Slugs, Keeps(p, al, k, r, slug)
      PROVE  <<k, r>> \in more \/ Keeps(q, al, k, r, slug)
  <2>1. CASE al[k][r] = slug
    BY <2>1 DEF Keeps
  <2>2. CASE p.at = "flush" /\ p.pending[k][r] = slug
    <3>1. slug # NoSlug
      BY RawAssumption
    <3>2. al[k][r] # NoSlug => al[k][r] = slug
      BY <2>2, <3>1 DEF NamesFit, KnowsAliases, Active
    <3> QED
      BY <2>2, <3>1, <3>2 DEF Keeps
  <2> QED
    BY <1>3, <2>1, <2>2 DEF Keeps
<1>4. \A r \in sd : /\ r.listing.chain \in Raws["chain"] /\ r.listing.coin \in Raws["coin"]
                    /\ r.chain \in Slugs /\ r.coin \in Slugs
  BY DEF Rail, Listing, Raws
<1>5. "chain" \in Kinds /\ "coin" \in Kinds
  BY DEF Kinds
<1>6. StoredKept(q, al, sd, more)
  <2>1. StoredKept(p, al, sd, lo)
    BY DEF NamesFit
  <2> QED
    BY <1>3, <1>4, <1>5, <2>1 DEF StoredKept
<1> QED
  BY <1>1, <1>2, <1>6 DEF NamesFit, q

(* flushAliasUpserts: what was pending is an alias now. *)
LEMMA FlushFits ==
  ASSUME NEW p, PollTyped(p), p.at = "flush", NEW al, NamesTyped(al), NEW sd, sd \subseteq Rail,
         NEW lo, NamesFit(p, al, sd, lo), NEW next,
         \A k \in Kinds : \A r \in Raws[k] :
           next[k][r] = IF p.pending[k][r] # NoSlug THEN p.pending[k][r] ELSE al[k][r]
  PROVE  /\ PollTyped(Poll("done", <<>>, NoNames))
         /\ NamesFit(Poll("done", <<>>, NoNames), next, sd, lo)
<1> DEFINE q == Poll("done", <<>>, NoNames)
<1>1. /\ PollTyped(q) /\ q.at = "done" /\ q.todo = <<>> /\ q.chain = NoSlug
      /\ q.pending = NoNames /\ q.rails = {} /\ q.wrote = NoWrites
  BY IdlePollIs DEF Idle
<1> HIDE DEF q
<1>2. Emptied(q) /\ Halfway(q) /\ ToldByNames(q) /\ KnowsAliases(q, next)
  BY <1>1 DEF Emptied, Halfway, ToldByNames, KnowsAliases, Active
<1>3. ASSUME NEW k \in Kinds, NEW r \in Raws[k], NEW slug \in Slugs, Keeps(p, al, k, r, slug)
      PROVE  Keeps(q, next, k, r, slug)
  <2>1. slug # NoSlug
    BY RawAssumption
  <2>2. /\ p.pending[k][r] # NoSlug => p.known[k][r] = p.pending[k][r]
        /\ al[k][r] # NoSlug => p.known[k][r] = al[k][r]
    BY DEF NamesFit, KnowsAliases, Active
  <2> QED
    BY <1>3, <2>1, <2>2 DEF Keeps
<1>4. \A r \in sd : /\ r.listing.chain \in Raws["chain"] /\ r.listing.coin \in Raws["coin"]
                    /\ r.chain \in Slugs /\ r.coin \in Slugs
  BY DEF Rail, Listing, Raws
<1>5. "chain" \in Kinds /\ "coin" \in Kinds
  BY DEF Kinds
<1>6. StoredKept(q, next, sd, lo)
  <2>1. StoredKept(p, al, sd, lo)
    BY DEF NamesFit
  <2> QED
    BY <1>3, <1>4, <1>5, <2>1 DEF StoredKept
<1> QED
  BY <1>1, <1>2, <1>6 DEF NamesFit, q

(* A poll that begins knows its aliases and has told nothing. *)
LEMMA FetchFits ==
  ASSUME NEW p, PollTyped(p), p.at = "fetch", NEW al, NamesTyped(al), NEW sd, NEW lo,
         NamesFit(p, al, sd, lo), NEW listed \in Seq(Listing)
  PROVE  /\ PollTyped(Poll("resolve", listed, al))
         /\ NamesFit(Poll("resolve", listed, al), al, sd, lo)
<1> DEFINE q == Poll("resolve", listed, al)
<1>1. /\ PollTyped(q) /\ q.at = "resolve" /\ q.chain = NoSlug /\ q.known = al
      /\ q.pending = NoNames /\ q.rails = {}
  BY PollIs DEF Active
<1> HIDE DEF q
<1>2. Emptied(q) /\ Halfway(q) /\ ToldByNames(q)
  BY <1>1 DEF Emptied, Halfway, ToldByNames, Idle
<1>3. KnowsAliases(q, al)
  BY <1>1, NothingTyped DEF KnowsAliases
<1>4. StoredKept(q, al, sd, lo)
  BY <1>1 DEF NamesFit, StoredKept, Keeps
<1> QED
  BY <1>1, <1>2, <1>3, <1>4 DEF NamesFit, q

(* What a poll stores has one rail per listing, with the keys that it had. *)
StoredNext(sd, p) ==
  {r \in sd : ~\E n \in p.rails : n.listing = r.listing} \cup p.rails

LEMMA RailsOfOneListing ==
  ASSUME NEW p, PollTyped(p), ToldByNames(p), NEW a \in p.rails, NEW b \in p.rails,
         a.listing = b.listing
  PROVE  a = b
<1>1. a.chain = b.chain
  BY DEF ToldByNames
<1>2. a.coin = b.coin
  BY <1>1 DEF ToldByNames
<1>3. a \in Rail /\ b \in Rail
  BY DEF PollTyped
<1> QED
  BY <1>1, <1>2, <1>3 DEF Rail

LEMMA CommitFits ==
  ASSUME NEW p, PollTyped(p), p.at = "resolve", p.todo = <<>>, NEW al, NEW sd, sd \subseteq Rail,
         NEW lo, NamesFit(p, al, sd, lo)
  PROVE  LET q == [p EXCEPT !.at = "flush", !.wrote = NoWrites]
         IN  /\ PollTyped(q) /\ StoredNext(sd, p) \subseteq Rail
             /\ NamesFit(q, al, StoredNext(sd, p), lo)
<1> DEFINE q == [p EXCEPT !.at = "flush", !.wrote = NoWrites]
<1>1. /\ DOMAIN q = DOMAIN p /\ q.at = "flush" /\ q.todo = <<>> /\ q.chain = p.chain
      /\ q.known = p.known /\ q.pending = p.pending /\ q.rails = p.rails /\ q.wrote = NoWrites
  BY DEF PollTyped
<1> HIDE DEF q
<1>2. PollTyped(q)
  BY <1>1, NothingTyped DEF PollTyped, Active
<1>3. StoredNext(sd, p) \subseteq Rail
  BY DEF StoredNext, PollTyped
<1>4. p.chain = NoSlug
  BY DEF NamesFit, Halfway
<1>5. Emptied(q) /\ Halfway(q) /\ ToldByNames(q) /\ KnowsAliases(q, al)
  BY <1>1, <1>4 DEF NamesFit, Emptied, Halfway, ToldByNames, KnowsAliases, Idle, Active
<1>6. OncePerListing(StoredNext(sd, p))
  <2>1. ToldByNames(p) /\ OncePerListing(sd)
    BY DEF NamesFit
  <2>2. \A a, b \in p.rails : a.listing = b.listing => a = b
    BY <2>1, RailsOfOneListing
  <2> QED
    BY <2>1, <2>2 DEF OncePerListing, StoredNext
<1>7. StoredKept(q, al, StoredNext(sd, p), lo)
  <2> SUFFICES ASSUME NEW r \in StoredNext(sd, p)
               PROVE  LET verified == ByContract(r.chain, r.listing.contract)
                      IN  /\ \/ <<"chain", r.listing.chain>> \in lo
                             \/ Keeps(q, al, "chain", r.listing.chain, r.chain)
                          /\ IF verified # NoSlug THEN r.coin = verified
                             ELSE \/ <<"coin", r.listing.coin>> \in lo
                                  \/ Keeps(q, al, "coin", r.listing.coin, r.coin)
    BY DEF StoredKept
  <2>1. CASE r \in sd
    BY <1>1, <2>1 DEF NamesFit, StoredKept, Keeps
  <2>2. CASE r \in p.rails
    <3>1. /\ r.listing.chain \in Raws["chain"] /\ r.listing.coin \in Raws["coin"]
          /\ r.chain \in Slugs /\ r.coin \in Slugs /\ "chain" \in Kinds /\ "coin" \in Kinds
      BY <2>2 DEF PollTyped, Rail, Listing, Raws, Kinds
    <3>2. ASSUME NEW k \in Kinds, NEW n \in Raws[k], NEW slug \in Slugs, p.known[k][n] = slug
          PROVE  Keeps(q, al, k, n, slug)
      BY <1>1, <3>2 DEF NamesFit, KnowsAliases, Active, Keeps
    <3> QED
      BY <2>2, <3>1, <3>2 DEF NamesFit, ToldByNames
  <2> QED
    BY <2>1, <2>2 DEF StoredNext
<1> QED
  BY <1>2, <1>3, <1>5, <1>6, <1>7 DEF NamesFit, q

-----------------------------------------------------------------------------
(* The tables *)

LEMMA SeesIs ==
  ASSUME CycleTyped, NEW e \in Exchanges, NEW k \in Kinds
  PROVE  /\ Sees(e, k) \in RowSet
         /\ \A s \in Slugs : Sees(e, k)[s] = Seen(table, poll[e], k, s)
<1>1. poll[e].wrote[k] \in RowSet /\ table[k] \in RowSet
  BY DEF CycleTyped, PollTyped
<1> QED
  BY <1>1 DEF Sees, Seen, RowSet

LEMMA InsertedIs ==
  ASSUME NEW k \in Kinds, NEW raw \in Raws[k], NEW rows \in RowSet
  PROVE  LET s == SlugOf[InsertedSymbol(raw)]
             row == Inserted(rows, raw)
         IN  /\ s \in Slugs /\ row \in Row /\ row # NoRow
             /\ SlugOf[row.symbol] = s
             /\ rows[s] # NoRow => row.name = rows[s].name
<1>1. k = "coin" \/ k = "chain"
  BY DEF Kinds
<1>2. InsertedSymbol(raw) \in Texts /\ InsertedName(raw) \in Texts
  BY <1>1, RawAssumption DEF Raws, InsertedSymbol, InsertedName
<1>3. SlugOf[InsertedSymbol(raw)] \in Slugs
  BY <1>2, MapAssumption
<1> QED
  BY <1>2, <1>3, RawAssumption DEF Inserted, Row, RowSet

LEMMA ContractIs ==
  ASSUME NEW chain \in MaySlug, NEW address \in Addresses \cup {NoAddress}
  PROVE  ByContract(chain, address) \in MaySlug
BY MapAssumption DEF ByContract, MaySlug

LEMMA WantsAre ==
  ASSUME NEW e
  PROVE  Wants(e) = WantsOf(poll[e]) /\ RawNow(e) = RawOf(poll[e]) /\ Verified(e) = VerifiedOf(poll[e])
BY DEF Wants, WantsOf, RawNow, RawOf, Verified, VerifiedOf

LEMMA FoundIs ==
  ASSUME CycleTyped, NEW e \in Exchanges, poll[e].todo # <<>>
  PROVE  /\ Found(e) \in MaySlug
         /\ Found(e) # NoSlug => Agrees(poll[e], Found(e))
         /\ Found(e) = NoSlug =>
              VerifiedOf(poll[e]) = NoSlug /\ poll[e].known[WantsOf(poll[e])][RawOf(poll[e])] = NoSlug
<1> DEFINE p == poll[e]
           w == WantsOf(p)
           raw == RawOf(p)
           verified == VerifiedOf(p)
           known == p.known[w][raw]
           rows == Sees(e, w)
           search == Search(w, rows, ids[w], raw)
<1>1. PollTyped(p)
  BY DEF CycleTyped
<1>2. w \in Kinds /\ raw \in Raws[w] /\ Head(p.todo) \in Listing
  BY <1>1, WantedIs
<1>3. verified \in MaySlug
  <2>1. Head(p.todo).contract \in Addresses \cup {NoAddress} /\ p.chain \in MaySlug
    BY <1>1, <1>2 DEF Listing, PollTyped
  <2> QED
    BY <2>1, ContractIs DEF VerifiedOf, MaySlug
<1>4. known \in MaySlug
  BY <1>1, <1>2 DEF PollTyped, NamesTyped
<1>5. search \in MaySlug
  <2>1. rows \in RowSet /\ ids[w] \in [Slugs -> Nat]
    BY <1>2, SeesIs DEF CycleTyped, IdsTyped
  <2> HIDE DEF rows, w, raw
  <2> QED
    BY <1>2, <2>1, SearchFinds
<1>6. Found(e) = IF verified # NoSlug THEN verified ELSE IF known # NoSlug THEN known ELSE search
  BY WantsAre DEF Found
<1> QED
  BY <1>3, <1>4, <1>5, <1>6 DEF Agrees

LEMMA WithdrawnTyped ==
  ASSUME IdsTyped(ids), NEW some
  PROVE  IdsTyped(Withdrawn(some))
<1> DEFINE W == Withdrawn(some)
           Older(k, s) == {t \in Left(k, some) : ids[k][t] <= ids[k][s]}
<1>1. \A k \in Kinds : Left(k, some) \subseteq {s \in Slugs : ids[k][s] # 0}
  BY DEF Left
<1>2. \A k \in Kinds : IsFiniteSet(Left(k, some))
  BY <1>1, FS_Subset DEF IdsTyped
<1>3. ASSUME NEW k \in Kinds, NEW s \in Slugs PROVE Cardinality(Older(k, s)) \in Nat
  <2>1. Older(k, s) \in SUBSET Left(k, some)
    OBVIOUS
  <2>2. IsFiniteSet(Older(k, s))
    BY <1>2, <2>1, FS_Subset
  <2> QED
    BY <2>2, FS_CardinalityType
<1>4. W = [k \in Kinds |-> [s \in Slugs |->
            IF s \in Left(k, some) THEN Cardinality(Older(k, s)) ELSE 0]]
  BY DEF Withdrawn
<1> HIDE DEF Older, W
<1>5. W \in [Kinds -> [Slugs -> Nat]]
  BY <1>3, <1>4
<1>6. ASSUME NEW k \in Kinds PROVE IsFiniteSet({s \in Slugs : W[k][s] # 0})
  <2>1. {s \in Slugs : W[k][s] # 0} \in SUBSET Left(k, some)
    BY <1>4
  <2> QED
    BY <1>2, <2>1, FS_Subset
<1> QED
  BY <1>5, <1>6 DEF IdsTyped, W

LEMMA NewIdTyped ==
  ASSUME IdsTyped(ids), NEW kind \in Kinds, NEW s \in Slugs
  PROVE  IdsTyped([ids EXCEPT ![kind][s] = Cardinality({t \in Slugs : ids[kind][t] # 0}) + 1])
<1> DEFINE Given(k) == {t \in Slugs : ids[k][t] # 0}
           id == Cardinality(Given(kind)) + 1
           I == [ids EXCEPT ![kind][s] = id]
<1>1. id \in Nat
  <2>1. IsFiniteSet(Given(kind))
    BY DEF IdsTyped
  <2>2. Cardinality(Given(kind)) \in Nat
    <3> HIDE DEF Given
    <3> QED
      BY <2>1, FS_CardinalityType
  <2> QED
    BY <2>2
<1> HIDE DEF id
<1>2. I \in [Kinds -> [Slugs -> Nat]]
  BY <1>1 DEF IdsTyped
<1>3. \A k \in Kinds : \A t \in Slugs : I[k][t] = IF k = kind /\ t = s THEN id ELSE ids[k][t]
  BY DEF IdsTyped
<1> HIDE DEF I
<1>4. ASSUME NEW k \in Kinds PROVE IsFiniteSet({t \in Slugs : I[k][t] # 0})
  <2>1. IsFiniteSet(Given(k) \cup {s})
    BY FS_AddElement DEF IdsTyped
  <2>2. {t \in Slugs : I[k][t] # 0} \in SUBSET (Given(k) \cup {s})
    BY <1>3
  <2> QED
    BY <2>1, <2>2, FS_Subset
<1>5. IdsTyped(I)
  BY <1>2, <1>4 DEF IdsTyped
<1> QED
  BY <1>5 DEF I, id

-----------------------------------------------------------------------------
(* The invariant of the names *)

LEMMA OnePollMoves ==
  ASSUME KInv, NEW e \in Exchanges, NEW q, NEW al, NEW sd, NEW lo,
         poll' = [poll EXCEPT ![e] = q],
         DOMAIN alias' = Exchanges, DOMAIN said' = Exchanges, DOMAIN lost' = Exchanges,
         said' = [x \in Exchanges |-> said'[x]],
         alias'[e] = al, said'[e] = sd, lost'[e] = lo,
         \A x \in Exchanges \ {e} :
           alias'[x] = alias[x] /\ said'[x] = said[x] /\ lost'[x] = lost[x],
         table' \in [Kinds -> RowSet], IdsTyped(ids'),
         PollTyped(q), NamesTyped(al), sd \subseteq Rail, NamesFit(q, al, sd, lo)
  PROVE  KInv'
<1>1. /\ DOMAIN poll' = Exchanges /\ poll'[e] = q
      /\ \A x \in Exchanges \ {e} : poll'[x] = poll[x]
  BY DEF KInv, CycleTyped
<1>2. \A x \in Exchanges : NamesTyped(alias'[x]) /\ PollTyped(poll'[x])
  BY <1>1 DEF KInv, CycleTyped
<1>3. said' \in [Exchanges -> SUBSET Rail]
  BY DEF KInv, CycleTyped
<1>4. \A x \in Exchanges : NamesFit(poll'[x], alias'[x], said'[x], lost'[x])
  BY <1>1 DEF KInv
<1> QED
  BY <1>1, <1>2, <1>3, <1>4 DEF KInv, CycleTyped

LEMMA EveryPollEnds ==
  ASSUME KInv, NEW at \in Idle,
         poll' = [e \in Exchanges |-> Poll(at, <<>>, NoNames)],
         UNCHANGED <<alias, said, table>>, IdsTyped(ids'), DOMAIN lost' = Exchanges,
         \A e \in Exchanges : lost[e] \cup Unwritten(e) \subseteq lost'[e]
  PROVE  KInv'
<1>1. DOMAIN poll' = Exchanges /\ \A e \in Exchanges : poll'[e] = Poll(at, <<>>, NoNames)
  OBVIOUS
<1>2. ASSUME NEW e \in Exchanges
      PROVE  PollTyped(poll'[e]) /\ NamesFit(poll'[e], alias'[e], said'[e], lost'[e])
  <2>1. PollTyped(poll[e]) /\ said[e] \subseteq Rail /\ NamesFit(poll[e], alias[e], said[e], lost[e])
    BY DEF KInv, CycleTyped
  <2>2. \A k \in Kinds : \A r \in Raws[k] :
          poll[e].at = "flush" /\ poll[e].pending[k][r] # NoSlug /\ alias[e][k][r] = NoSlug
          => <<k, r>> \in lost'[e]
    BY DEF Unwritten
  <2>3. lost[e] \subseteq lost'[e]
    OBVIOUS
  <2>4. /\ PollTyped(Poll(at, <<>>, NoNames))
        /\ NamesFit(Poll(at, <<>>, NoNames), alias[e], said[e], lost'[e])
    BY <2>1, <2>2, <2>3, EndFits
  <2>5. alias'[e] = alias[e] /\ said'[e] = said[e]
    OBVIOUS
  <2> QED
    BY <1>1, <2>4, <2>5
<1> QED
  BY <1>1, <1>2 DEF KInv, CycleTyped

LEMMA TickKeepsNames == KInv /\ Tick => KInv'
<1> SUFFICES ASSUME KInv, Tick PROVE KInv'
  OBVIOUS
<1>1. \A e \in Exchanges : Unwritten(e) = {}
  BY DEF Tick, Unwritten
<1>2. IdsTyped(ids') /\ DOMAIN lost' = Exchanges
  BY DEF Tick, stored, KInv, CycleTyped
<1> QED
  BY <1>1, <1>2, EveryPollEnds DEF Tick, stored, Idle

LEMMA EndCycleKeepsNames == KInv /\ EndCycle => KInv'
<1> SUFFICES ASSUME KInv, EndCycle PROVE KInv'
  OBVIOUS
<1>1. \A e \in Exchanges : Unwritten(e) = {}
  BY DEF EndCycle, Unwritten
<1>2. IdsTyped(ids') /\ DOMAIN lost' = Exchanges
  BY DEF EndCycle, stored, KInv, CycleTyped
<1> QED
  BY <1>1, <1>2, EveryPollEnds DEF EndCycle, stored, Idle

LEMMA CrashKeepsNames == KInv /\ Crash => KInv'
<1> SUFFICES ASSUME KInv, Crash PROVE KInv'
  OBVIOUS
<1>1. IdsTyped(ids')
  BY WithdrawnTyped DEF Crash, KInv, CycleTyped
<1>2. /\ poll' = [e \in Exchanges |-> Poll("off", <<>>, NoNames)]
      /\ UNCHANGED <<table, alias, said>>
      /\ DOMAIN lost' = Exchanges
      /\ \A e \in Exchanges : lost[e] \cup Unwritten(e) \subseteq lost'[e]
  BY DEF Crash
<1>3. "off" \in Idle
  BY DEF Idle
<1> QED
  BY <1>1, <1>2, <1>3, EveryPollEnds

(* What the lemmas on one poll need of it. *)
LEMMA PollKnown ==
  ASSUME KInv, NEW e \in Exchanges
  PROVE  /\ PollTyped(poll[e]) /\ NamesTyped(alias[e]) /\ said[e] \subseteq Rail
         /\ NamesFit(poll[e], alias[e], said[e], lost[e])
         /\ table \in [Kinds -> RowSet] /\ IdsTyped(ids) /\ said = [x \in Exchanges |-> said[x]]
         /\ DOMAIN alias = Exchanges /\ DOMAIN said = Exchanges /\ DOMAIN lost = Exchanges
         /\ DOMAIN poll = Exchanges
BY DEF KInv, CycleTyped

LEMMA AcquireKeepsNames ==
  ASSUME KInv, NEW e \in Exchanges, Acquire(e)
  PROVE  KInv'
<1> DEFINE p == poll[e]
           q == [p EXCEPT !.at = "fetch"]
<1>1. p.at = "wait" /\ poll' = [poll EXCEPT ![e] = q] /\ UNCHANGED <<table, ids, alias, said, lost>>
  BY PollKnown DEF Acquire, stored
<1>2. /\ DOMAIN q = DOMAIN p /\ q.at = "fetch" /\ q.todo = p.todo /\ q.chain = p.chain
      /\ q.known = p.known /\ q.pending = p.pending /\ q.rails = p.rails /\ q.wrote = p.wrote
  BY PollKnown DEF PollTyped
<1> HIDE DEF q
<1>3. PollTyped(q)
  BY <1>2, PollKnown DEF PollTyped, Idle
<1>4. NamesFit(q, alias[e], said[e], lost[e])
  <2>1. Emptied(p) /\ Halfway(p) /\ ToldByNames(p) /\ StoredKept(p, alias[e], said[e], lost[e])
        /\ OncePerListing(said[e])
    BY PollKnown DEF NamesFit
  <2>2. Emptied(q) /\ Halfway(q) /\ ToldByNames(q) /\ KnowsAliases(q, alias[e])
    BY <1>1, <1>2, <2>1 DEF Emptied, Halfway, ToldByNames, KnowsAliases, Idle, Active
  <2>3. StoredKept(q, alias[e], said[e], lost[e])
    BY <1>1, <1>2, <2>1 DEF StoredKept, Keeps
  <2> QED
    BY <2>1, <2>2, <2>3 DEF NamesFit
<1> QED
  BY <1>1, <1>3, <1>4, PollKnown, OnePollMoves

LEMMA FetchKeepsNames ==
  ASSUME KInv, NEW e \in Exchanges, NEW listed \in Fetches[e], Fetch(e, listed)
  PROVE  KInv'
<1> DEFINE q == Poll("resolve", listed, alias[e])
<1>1. /\ poll[e].at = "fetch" /\ poll' = [poll EXCEPT ![e] = q]
      /\ UNCHANGED <<table, ids, alias, said, lost>>
  BY DEF Fetch, stored
<1>2. listed \in Seq(Listing)
  BY CycleAssumption
<1>3. PollTyped(q) /\ NamesFit(q, alias[e], said[e], lost[e])
  BY <1>1, <1>2, PollKnown, FetchFits
<1> HIDE DEF q
<1> QED
  BY <1>1, <1>3, PollKnown, OnePollMoves

LEMMA ResolveKeepsNames ==
  ASSUME KInv, NEW e \in Exchanges, Resolve(e)
  PROVE  KInv'
<1> DEFINE p == poll[e]
<1>1. p.at = "resolve" /\ p.todo # <<>> /\ UNCHANGED <<table, ids, alias, said, lost>>
  BY DEF Resolve, stored
<1>2. Resolved(e, Found(e)) = ResolvedOf(p, Found(e))
  BY WantsAre DEF Resolved, ResolvedOf
<1>3. CASE Found(e) # NoSlug
  <2> DEFINE q == ResolvedOf(p, Found(e))
  <2>1. poll' = [poll EXCEPT ![e] = q]
    BY <1>2, <1>3 DEF Resolve
  <2>2. Found(e) \in Slugs /\ Agrees(p, Found(e))
    BY <1>1, <1>3, FoundIs DEF KInv, MaySlug
  <2>3. PollTyped(q)
    BY <1>1, <2>2, PollKnown, ResolvedIs
  <2>4. NamesFit(q, alias[e], said[e], lost[e])
    BY <1>1, <2>2, PollKnown, ResolvedFits
  <2> HIDE DEF q
  <2> QED
    BY <1>1, <2>1, <2>3, <2>4, PollKnown, OnePollMoves
<1>4. CASE Found(e) = NoSlug
  <2> DEFINE q == [p EXCEPT !.at = "insert"]
  <2>1. poll' = [poll EXCEPT ![e] = q]
    BY <1>4 DEF Resolve
  <2>2. /\ DOMAIN q = DOMAIN p /\ q.at = "insert" /\ q.todo = p.todo /\ q.chain = p.chain
        /\ q.known = p.known /\ q.pending = p.pending /\ q.rails = p.rails /\ q.wrote = p.wrote
    BY PollKnown DEF PollTyped
  <2>3. VerifiedOf(p) = NoSlug /\ p.known[WantsOf(p)][RawOf(p)] = NoSlug
    BY <1>1, <1>4, FoundIs DEF KInv
  <2> HIDE DEF q
  <2>4. PollTyped(q)
    BY <2>2, PollKnown DEF PollTyped, Active
  <2>5. NamesFit(q, alias[e], said[e], lost[e])
    <3>1. /\ Emptied(p) /\ Halfway(p) /\ ToldByNames(p) /\ KnowsAliases(p, alias[e])
          /\ StoredKept(p, alias[e], said[e], lost[e]) /\ OncePerListing(said[e])
      BY PollKnown DEF NamesFit
    <3>2. Emptied(q) /\ ToldByNames(q) /\ KnowsAliases(q, alias[e])
      BY <1>1, <2>2, <3>1 DEF Emptied, ToldByNames, KnowsAliases, Idle, Active
    <3>3. WantsOf(q) = WantsOf(p) /\ RawOf(q) = RawOf(p) /\ VerifiedOf(q) = VerifiedOf(p)
      BY <2>2 DEF WantsOf, RawOf, VerifiedOf
    <3>4. Halfway(q)
      BY <1>1, <2>2, <2>3, <3>1, <3>3 DEF Halfway
    <3>5. StoredKept(q, alias[e], said[e], lost[e])
      BY <1>1, <2>2, <3>1 DEF StoredKept, Keeps
    <3> QED
      BY <3>1, <3>2, <3>4, <3>5 DEF NamesFit
  <2> QED
    BY <1>1, <2>1, <2>4, <2>5, PollKnown, OnePollMoves
<1> QED
  BY <1>3, <1>4

(* The row that an insert writes, seen by its own transaction at once. *)
InsertedRow(e)  == Inserted(Sees(e, WantsOf(poll[e])), RawOf(poll[e]))
InsertedSlug(e) == SlugOf[InsertedSymbol(RawOf(poll[e]))]

LEMMA InsertIs ==
  ASSUME CycleTyped, NEW e \in Exchanges, Insert(e), poll[e].todo # <<>>
  PROVE  LET p    == poll[e]
             r    == ResolvedOf(p, InsertedSlug(e))
             q    == poll'[e]
             kind == WantsOf(p)
             s    == InsertedSlug(e)
             row  == InsertedRow(e)
         IN  /\ p.at = "insert" /\ UNCHANGED <<table, alias, said, lost>> /\ IdsTyped(ids')
             /\ poll' = [poll EXCEPT ![e] = q] /\ PollTyped(q)
             /\ kind \in Kinds /\ RawOf(p) \in Raws[kind]
             /\ s \in Slugs /\ row \in Row /\ row # NoRow /\ SlugOf[row.symbol] = s
             /\ Seen(table, p, kind, s) # NoRow => row.name = Seen(table, p, kind, s).name
             /\ \A x \in Exchanges \ {e} : poll[x].wrote[kind][s] = NoRow
             /\ q.at = r.at /\ q.todo = r.todo /\ q.chain = r.chain /\ q.known = r.known
             /\ q.pending = r.pending /\ q.rails = r.rails
             /\ \A k \in Kinds : \A t \in Slugs :
                  q.wrote[k][t] = IF k = kind /\ t = s THEN row ELSE p.wrote[k][t]
<1> DEFINE p == poll[e]
           kind == WantsOf(p)
           raw == RawOf(p)
           s == InsertedSlug(e)
           rows == Sees(e, kind)
           row == InsertedRow(e)
           r == ResolvedOf(p, s)
           q == [r EXCEPT !.wrote[kind][s] = row]
<1>1. PollTyped(p)
  BY DEF CycleTyped
<1>2. kind \in Kinds /\ raw \in Raws[kind] /\ rows \in RowSet
  BY <1>1, WantedIs, SeesIs
<1>3. s \in Slugs /\ row \in Row /\ row # NoRow /\ SlugOf[row.symbol] = s
      /\ (rows[s] # NoRow => row.name = rows[s].name)
  <2> HIDE DEF kind, raw, rows
  <2>1. s = SlugOf[InsertedSymbol(raw)] /\ row = Inserted(rows, raw)
    BY DEF kind, raw, rows, InsertedSlug, InsertedRow
  <2> HIDE DEF s, row
  <2> QED
    BY <1>2, <2>1, InsertedIs
<1>4. rows[s] = Seen(table, p, kind, s)
  BY <1>2, <1>3, SeesIs
<1>5. Resolved(e, s) = r
  BY WantsAre DEF Resolved, ResolvedOf
<1>6. poll' = [poll EXCEPT ![e] = q]
  BY <1>5, WantsAre DEF Insert, SlugNow, InsertedSlug, InsertedRow
<1>7. IdsTyped(ids')
  <2>1. \/ ids' = ids
        \/ ids' = [ids EXCEPT ![kind][s] = Cardinality({t \in Slugs : ids[kind][t] # 0}) + 1]
    BY WantsAre DEF Insert, SlugNow, InsertedSlug
  <2>2. IdsTyped(ids)
    BY DEF CycleTyped
  <2> HIDE DEF kind, s
  <2> QED
    BY <1>2, <1>3, <2>1, <2>2, NewIdTyped
<1>8. \A x \in Exchanges \ {e} : poll[x].wrote[kind][s] = NoRow
  BY WantsAre DEF Insert, WaitsFor, SlugNow, InsertedSlug
<1>9. PollTyped(r) /\ r.wrote = p.wrote
  BY <1>1, <1>3, ResolvedIs
<1> HIDE DEF r, kind, s, row, p
<1>10. /\ DOMAIN q = DOMAIN r
       /\ q.at = r.at /\ q.todo = r.todo /\ q.chain = r.chain /\ q.known = r.known
       /\ q.pending = r.pending /\ q.rails = r.rails
       /\ q.wrote = [r.wrote EXCEPT ![kind][s] = row]
  BY <1>9 DEF PollTyped
<1>11. /\ q.wrote \in [Kinds -> RowSet]
       /\ \A k \in Kinds : \A t \in Slugs :
            q.wrote[k][t] = IF k = kind /\ t = s THEN row ELSE p.wrote[k][t]
  <2>1. r.wrote \in [Kinds -> [Slugs -> Row \cup {NoRow}]]
    BY <1>9 DEF PollTyped, RowSet
  <2> HIDE DEF q
  <2> QED
    BY <1>2, <1>3, <1>9, <1>10, <2>1 DEF RowSet
<1> HIDE DEF q
<1>12. PollTyped(q)
  BY <1>9, <1>10, <1>11 DEF PollTyped
<1>13. poll'[e] = q
  BY <1>6 DEF CycleTyped
<1>14. p.at = "insert" /\ UNCHANGED <<table, alias, said, lost>>
  BY DEF Insert, p
<1>15. /\ kind \in Kinds /\ RawOf(p) \in Raws[kind]
       /\ s \in Slugs /\ row \in Row /\ row # NoRow /\ SlugOf[row.symbol] = s
       /\ Seen(table, p, kind, s) # NoRow => row.name = Seen(table, p, kind, s).name
  BY <1>2, <1>3, <1>4 DEF raw
<1>16. /\ poll' = [poll EXCEPT ![e] = poll'[e]] /\ PollTyped(poll'[e])
       /\ poll'[e].at = r.at /\ poll'[e].todo = r.todo /\ poll'[e].chain = r.chain
       /\ poll'[e].known = r.known /\ poll'[e].pending = r.pending /\ poll'[e].rails = r.rails
       /\ \A k \in Kinds : \A t \in Slugs :
            poll'[e].wrote[k][t] = IF k = kind /\ t = s THEN row ELSE p.wrote[k][t]
  <2>1. poll' = [poll EXCEPT ![e] = poll'[e]]
    BY <1>6, <1>13
  <2>2. \A k \in Kinds : \A t \in Slugs :
          poll'[e].wrote[k][t] = IF k = kind /\ t = s THEN row ELSE p.wrote[k][t]
    BY <1>11, <1>13
  <2> QED
    BY <1>10, <1>12, <1>13, <2>1, <2>2
<1> QED
  BY <1>7, <1>8, <1>14, <1>15, <1>16 DEF p, r, kind, s, row

LEMMA InsertKeepsNames ==
  ASSUME KInv, NEW e \in Exchanges, Insert(e)
  PROVE  KInv'
<1> DEFINE p == poll[e]
           s == InsertedSlug(e)
           r == ResolvedOf(p, s)
           q == poll'[e]
<1>1. p.at = "insert"
  BY DEF Insert
<1>2. p.todo # <<>> /\ VerifiedOf(p) = NoSlug /\ p.known[WantsOf(p)][RawOf(p)] = NoSlug
  BY <1>1, PollKnown DEF NamesFit, Halfway
<1>3. /\ UNCHANGED <<table, alias, said, lost>> /\ IdsTyped(ids')
      /\ poll' = [poll EXCEPT ![e] = q] /\ PollTyped(q) /\ s \in Slugs
      /\ q.at = r.at /\ q.todo = r.todo /\ q.chain = r.chain /\ q.known = r.known
      /\ q.pending = r.pending /\ q.rails = r.rails
  BY <1>2, InsertIs DEF KInv
<1>4. NamesFit(r, alias[e], said[e], lost[e]) /\ r.at = "resolve"
  BY <1>1, <1>2, <1>3, PollKnown, ResolvedFits, ResolvedIs DEF Agrees
<1> HIDE DEF r, q
<1>5. Emptied(q)
  BY <1>3, <1>4 DEF Emptied, Idle
<1>6. Halfway(q) /\ ToldByNames(q) /\ KnowsAliases(q, alias[e])
  BY <1>3, <1>4 DEF NamesFit, Halfway, ToldByNames, KnowsAliases
<1>7. StoredKept(q, alias[e], said[e], lost[e]) /\ OncePerListing(said[e])
  BY <1>3, <1>4 DEF NamesFit, StoredKept, Keeps
<1>8. NamesFit(q, alias[e], said[e], lost[e])
  BY <1>5, <1>6, <1>7 DEF NamesFit
<1> QED
  <2>1. /\ UNCHANGED <<alias, said, lost>> /\ table' \in [Kinds -> RowSet] /\ IdsTyped(ids')
        /\ poll' = [poll EXCEPT ![e] = q] /\ PollTyped(q)
    BY <1>3, PollKnown
  <2> QED
    BY <1>8, <2>1, PollKnown, OnePollMoves

LEMMA CommitIs ==
  ASSUME CycleTyped, NEW e \in Exchanges, Commit(e)
  PROVE  /\ poll[e].at = "resolve" /\ poll[e].todo = <<>>
         /\ poll' = [poll EXCEPT ![e] = [poll[e] EXCEPT !.at = "flush", !.wrote = NoWrites]]
         /\ table' \in [Kinds -> RowSet]
         /\ \A k \in Kinds : \A s \in Slugs : table'[k][s] = Seen(table, poll[e], k, s)
         /\ said' = [said EXCEPT ![e] = StoredNext(said[e], poll[e])]
         /\ UNCHANGED <<ids, alias, lost>>
<1>1. table' = [k \in Kinds |-> Sees(e, k)]
  BY DEF Commit
<1>2. table' \in [Kinds -> RowSet]
  BY <1>1, SeesIs
<1>3. \A k \in Kinds : \A s \in Slugs : table'[k][s] = Seen(table, poll[e], k, s)
  BY <1>1, SeesIs
<1>4. said' = [said EXCEPT ![e] = StoredNext(said[e], poll[e])]
  BY DEF Commit, StoredNext, CycleTyped
<1>5. poll' = [poll EXCEPT ![e] = [poll[e] EXCEPT !.at = "flush", !.wrote = NoWrites]]
  BY DEF Commit
<1> QED
  BY <1>2, <1>3, <1>4, <1>5 DEF Commit

LEMMA CommitKeepsNames ==
  ASSUME KInv, NEW e \in Exchanges, Commit(e)
  PROVE  KInv'
<1> DEFINE q == [poll[e] EXCEPT !.at = "flush", !.wrote = NoWrites]
           sd == StoredNext(said[e], poll[e])
<1>1. /\ poll[e].at = "resolve" /\ poll[e].todo = <<>>
      /\ poll' = [poll EXCEPT ![e] = q] /\ table' \in [Kinds -> RowSet]
      /\ said' = [said EXCEPT ![e] = sd] /\ UNCHANGED <<ids, alias, lost>>
  BY CommitIs DEF KInv
<1>2. PollTyped(q) /\ sd \subseteq Rail /\ NamesFit(q, alias[e], sd, lost[e])
  BY <1>1, PollKnown, CommitFits
<1> HIDE DEF q, sd
<1>3. /\ DOMAIN said' = Exchanges /\ said' = [x \in Exchanges |-> said'[x]]
      /\ said'[e] = sd /\ \A x \in Exchanges \ {e} : said'[x] = said[x]
  BY <1>1, PollKnown
<1> QED
  <2>1. alias' = alias /\ lost' = lost /\ IdsTyped(ids')
    BY <1>1, PollKnown DEF IdsTyped
  <2>2. /\ DOMAIN alias' = Exchanges /\ DOMAIN lost' = Exchanges /\ NamesTyped(alias[e])
        /\ alias'[e] = alias[e] /\ lost'[e] = lost[e]
        /\ \A x \in Exchanges \ {e} : alias'[x] = alias[x] /\ lost'[x] = lost[x]
    BY <2>1, PollKnown
  <2> QED
    BY <1>1, <1>2, <1>3, <2>1, <2>2, OnePollMoves

LEMMA FlushIs ==
  ASSUME CycleTyped, NEW e \in Exchanges, Flush(e)
  PROVE  /\ poll[e].at = "flush" /\ UNCHANGED <<table, ids, said, lost>>
         /\ poll' = [poll EXCEPT ![e] = Poll("done", <<>>, NoNames)]
         /\ DOMAIN alias' = Exchanges /\ NamesTyped(alias'[e])
         /\ \A x \in Exchanges \ {e} : alias'[x] = alias[x]
         /\ \A k \in Kinds : \A r \in Raws[k] :
              alias'[e][k][r] = IF poll[e].pending[k][r] # NoSlug THEN poll[e].pending[k][r]
                                                                ELSE alias[e][k][r]
<1> DEFINE New(k) == [r \in Raws[k] |-> IF poll[e].pending[k][r] # NoSlug
                                      THEN poll[e].pending[k][r] ELSE alias[e][k][r]]
<1>1. DOMAIN alias' = Exchanges /\ alias'[e] = [k \in Kinds |-> New(k)]
      /\ \A x \in Exchanges \ {e} : alias'[x] = alias[x]
  BY DEF Flush, CycleTyped
<1>2. \A k \in Kinds : New(k) \in [Raws[k] -> MaySlug]
  BY DEF CycleTyped, PollTyped, NamesTyped
<1>3. \A k \in Kinds : \A r \in Raws[k] :
        New(k)[r] = IF poll[e].pending[k][r] # NoSlug THEN poll[e].pending[k][r]
                                                      ELSE alias[e][k][r]
  OBVIOUS
<1> HIDE DEF New
<1>4. NamesTyped(alias'[e])
  BY <1>1, <1>2 DEF NamesTyped
<1> QED
  BY <1>1, <1>3, <1>4 DEF Flush

LEMMA FlushKeepsNames ==
  ASSUME KInv, NEW e \in Exchanges, Flush(e)
  PROVE  KInv'
<1> DEFINE q == Poll("done", <<>>, NoNames)
           al == alias'[e]
<1>1. /\ poll[e].at = "flush" /\ UNCHANGED <<table, ids, said, lost>>
      /\ poll' = [poll EXCEPT ![e] = q]
      /\ DOMAIN alias' = Exchanges /\ NamesTyped(al)
      /\ \A x \in Exchanges \ {e} : alias'[x] = alias[x]
      /\ \A k \in Kinds : \A r \in Raws[k] :
           al[k][r] = IF poll[e].pending[k][r] # NoSlug THEN poll[e].pending[k][r]
                                                      ELSE alias[e][k][r]
  BY FlushIs DEF KInv
<1> HIDE DEF al
<1>2. PollTyped(q) /\ NamesFit(q, al, said[e], lost[e])
  BY <1>1, PollKnown, FlushFits
<1> HIDE DEF q
<1> QED
  BY <1>1, <1>2, PollKnown, OnePollMoves DEF al

(* The end of one poll, with or without something to lose. *)
LEMMA PollEnds ==
  ASSUME KInv, NEW e \in Exchanges,
         poll' = [poll EXCEPT ![e] = Ended(e)], UNCHANGED <<table, alias, said>>,
         IdsTyped(ids'), DOMAIN lost' = Exchanges, lost[e] \cup Unwritten(e) \subseteq lost'[e],
         \A x \in Exchanges \ {e} : lost'[x] = lost[x]
  PROVE  KInv'
<1> DEFINE q == Poll("done", <<>>, NoNames)
<1>1. /\ \A k \in Kinds : \A r \in Raws[k] :
           poll[e].at = "flush" /\ poll[e].pending[k][r] # NoSlug /\ alias[e][k][r] = NoSlug
           => <<k, r>> \in lost'[e]
  BY DEF Unwritten
<1>2. lost[e] \subseteq lost'[e] /\ "done" \in Idle
  BY DEF Idle
<1>3. PollTyped(q) /\ NamesFit(q, alias[e], said[e], lost'[e])
  BY <1>1, <1>2, PollKnown, EndFits
<1> HIDE DEF q
<1> QED
  BY <1>3, PollKnown, OnePollMoves DEF Ended, q

LEMMA AbortKeepsNames ==
  ASSUME KInv, NEW e \in Exchanges, Abort(e)
  PROVE  KInv'
<1>1. IdsTyped(ids')
  BY WithdrawnTyped, PollKnown DEF Abort
<1>2. /\ DOMAIN lost' = Exchanges /\ lost[e] \cup Unwritten(e) \subseteq lost'[e]
      /\ \A x \in Exchanges \ {e} : lost'[x] = lost[x]
  BY PollKnown DEF Abort
<1> QED
  BY <1>1, <1>2, PollEnds DEF Abort

LEMMA FetchFailsKeepsNames ==
  ASSUME KInv, NEW e \in Exchanges, FetchFails(e)
  PROVE  KInv'
<1>1. Unwritten(e) = {}
  BY DEF FetchFails, Unwritten
<1>2. IdsTyped(ids') /\ DOMAIN lost' = Exchanges
  BY PollKnown DEF FetchFails, stored
<1> QED
  BY <1>1, <1>2, PollEnds DEF FetchFails, stored

LEMMA NextKeepsNames == KInv /\ [Next]_vars => KInv'
<1> SUFFICES ASSUME KInv, [Next]_vars PROVE KInv'
  OBVIOUS
<1>1. ASSUME NEW e \in Exchanges, Step(e) PROVE KInv'
  BY <1>1, AcquireKeepsNames, ResolveKeepsNames, InsertKeepsNames, CommitKeepsNames,
     FlushKeepsNames, AbortKeepsNames DEF Step, BreakDeadlock
<1>2. ASSUME NEW e \in Exchanges, NEW listed \in Fetches[e], Fetch(e, listed) PROVE KInv'
  BY <1>2, FetchKeepsNames
<1>3. ASSUME NEW e \in Exchanges, FetchFails(e) \/ StatementFails(e) PROVE KInv'
  BY <1>3, FetchFailsKeepsNames, AbortKeepsNames DEF StatementFails
<1>4. CASE Tick \/ EndCycle \/ Crash
  BY <1>4, TickKeepsNames, EndCycleKeepsNames, CrashKeepsNames
<1>5. CASE UNCHANGED vars
  BY <1>5 DEF vars, KInv, CycleTyped
<1> QED
  BY <1>1, <1>2, <1>3, <1>4, <1>5 DEF Next

LEMMA InitNames == Init => KInv
<1> SUFFICES ASSUME Init PROVE KInv
  OBVIOUS
<1> DEFINE q == Poll("off", <<>>, NoNames)
<1>1. /\ PollTyped(q) /\ q.at = "off" /\ q.todo = <<>> /\ q.chain = NoSlug
      /\ q.pending = NoNames /\ q.rails = {} /\ q.wrote = NoWrites
  BY IdlePollIs DEF Idle
<1>2. \A e \in Exchanges : poll[e] = q /\ alias[e] = NoNames /\ said[e] = {} /\ lost[e] = {}
  BY DEF Init
<1> HIDE DEF q
<1>3. NamesFit(q, NoNames, {}, {})
  BY <1>1 DEF NamesFit, Emptied, Halfway, ToldByNames, KnowsAliases, StoredKept,
              OncePerListing, Idle, Active
<1>4. table \in [Kinds -> RowSet] /\ IdsTyped(ids)
  BY CycleAssumption DEF Init, IdsTyped
<1> QED
  BY <1>1, <1>2, <1>3, <1>4, NothingTyped DEF Init, KInv, CycleTyped

(* The polls, the aliases and what is stored fit one another in every state. *)
THEOREM NamesInvariance == Spec => []KInv
<1>1. Init => KInv
  BY InitNames
<1>2. KInv /\ [Next]_vars => KInv'
  BY NextKeepsNames
<1> QED
  BY <1>1, <1>2, PTL DEF Spec

(* However many exchanges insert meanwhile, the networks that one answer lists for a *)
(* coin, and that no contract tells apart, are stored under one coin.          *)
THEOREM OneCoinPerPoll == Spec => []OnePollOneCoin
<1>1. KInv => OnePollOneCoin
  <2> SUFFICES ASSUME KInv, NEW e \in Exchanges, NEW a \in poll[e].rails, NEW b \in poll[e].rails
               PROVE  /\ a.listing.chain = b.listing.chain => a.chain = b.chain
                      /\ /\ a.listing.coin = b.listing.coin
                         /\ ByContract(a.chain, a.listing.contract) = NoSlug
                         /\ ByContract(b.chain, b.listing.contract) = NoSlug
                         => a.coin = b.coin
    BY DEF OnePollOneCoin
  <2>1. ToldByNames(poll[e])
    BY PollKnown DEF NamesFit
  <2> QED
    BY <2>1 DEF ToldByNames
<1> QED
  BY <1>1, NamesInvariance, PTL

LEMMA OnlyCommitsStore ==
  ASSUME [Next]_vars, said' # said
  PROVE  \E e \in Exchanges : Commit(e)
<1>1. ASSUME NEW e \in Exchanges, Step(e), ~Commit(e) PROVE said' = said
  BY <1>1 DEF Step, Acquire, Resolve, Insert, Flush, BreakDeadlock, Abort, stored
<1>2. ASSUME NEW e \in Exchanges, FetchFails(e) \/ StatementFails(e) PROVE said' = said
  BY <1>2 DEF FetchFails, StatementFails, Abort, stored
<1>3. ASSUME NEW e \in Exchanges, NEW listed, Fetch(e, listed) PROVE said' = said
  BY <1>3 DEF Fetch, stored
<1>4. Tick \/ EndCycle \/ Crash \/ UNCHANGED vars => said' = said
  BY DEF Tick, EndCycle, Crash, stored, vars
<1> QED
  BY <1>1, <1>2, <1>3, <1>4 DEF Next

LEMMA StepKeepsKeys ==
  ASSUME KInv, [Next]_vars, NEW e \in Exchanges, NEW a \in said[e], NEW b \in said'[e],
         a.listing = b.listing,
         <<"coin", a.listing.coin>> \notin lost[e], <<"chain", a.listing.chain>> \notin lost[e]
  PROVE  a = b
<1> DEFINE p == poll[e]
<1>1. OncePerListing(said[e])
  BY PollKnown DEF NamesFit
<1>2. CASE b \in said[e]
  BY <1>1, <1>2 DEF OncePerListing
<1>3. CASE b \notin said[e]
  <2>1. PICK x \in Exchanges : Commit(x)
    BY <1>3, OnlyCommitsStore
  <2>2. x = e /\ said'[e] = StoredNext(said[e], p) /\ p.at = "resolve"
    <3>1. /\ poll[x].at = "resolve"
          /\ said' = [said EXCEPT ![x] = StoredNext(said[x], poll[x])]
          /\ DOMAIN said = Exchanges
      BY <2>1, CommitIs, PollKnown DEF KInv
    <3> QED
      BY <1>3, <3>1
  <2>3. b \in p.rails
    BY <1>3, <2>2 DEF StoredNext
  <2>4. a \in Rail /\ b \in Rail
    BY <2>3, PollKnown DEF PollTyped
  <2>5. /\ a.listing.chain \in Raws["chain"] /\ a.listing.coin \in Raws["coin"]
        /\ a.chain \in Slugs /\ a.coin \in Slugs /\ "chain" \in Kinds /\ "coin" \in Kinds
        /\ NoSlug \notin Slugs
    BY <2>4, RawAssumption DEF Rail, Listing, Raws, Kinds
  <2>6. /\ ToldByNames(p) /\ KnowsAliases(p, alias[e])
        /\ StoredKept(p, alias[e], said[e], lost[e])
    BY PollKnown DEF NamesFit
  <2>7. ASSUME NEW k \in Kinds, NEW r \in Raws[k], NEW slug \in Slugs,
               Keeps(p, alias[e], k, r, slug)
        PROVE  p.known[k][r] = slug
    BY <2>2, <2>5, <2>6, <2>7 DEF Keeps, KnowsAliases, Active
  <2>8. a.chain = b.chain
    BY <2>3, <2>5, <2>6, <2>7 DEF ToldByNames, StoredKept
  <2>9. a.coin = b.coin
    BY <2>3, <2>5, <2>6, <2>7, <2>8 DEF ToldByNames, StoredKept
  <2> QED
    BY <2>4, <2>8, <2>9 DEF Rail
<1> QED
  BY <1>2, <1>3

(* A rail is stored under the coin and the chain of the last time, as long as the *)
(* aliases of its names were written: no listing tears a rail in two.          *)
THEOREM KeysStayStable == Spec => KeysAreStable
<1> DEFINE Same == \A e \in Exchanges : \A a \in said[e], b \in said'[e] :
                     /\ a.listing = b.listing
                     /\ <<"coin", a.listing.coin>> \notin lost[e]
                     /\ <<"chain", a.listing.chain>> \notin lost[e]
                     => a = b
<1>1. KInv /\ [Next]_vars => [Same]_vars
  BY StepKeepsKeys
<1>2. Init => KInv
  BY InitNames
<1>3. KInv /\ [Next]_vars => KInv'
  BY NextKeepsNames
<1> QED
  BY <1>1, <1>2, <1>3, PTL DEF Spec, KeysAreStable

-----------------------------------------------------------------------------
(* The rows and what explains a name *)

LEMMA RowsStay ==
  ASSUME RowsFit, table' = table,
         \A e \in Exchanges : \A k \in Kinds : \A s \in Slugs :
           poll'[e].wrote[k][s] \in {poll[e].wrote[k][s], NoRow}
  PROVE  RowsFit'
<1> SUFFICES ASSUME NEW k \in Kinds, NEW s \in Slugs
             PROVE  /\ RowFits(k, s, table'[k][s])
                    /\ \A e \in Exchanges :
                         /\ RowFits(k, s, poll'[e].wrote[k][s])
                         /\ poll'[e].wrote[k][s] # NoRow /\ table'[k][s] # NoRow
                              => poll'[e].wrote[k][s].name = table'[k][s].name
                         /\ \A f \in Exchanges \ {e} :
                              poll'[e].wrote[k][s] = NoRow \/ poll'[f].wrote[k][s] = NoRow
  BY DEF RowsFit
<1>1. RowFits(k, s, NoRow)
  BY DEF RowFits
<1> QED
  BY <1>1 DEF RowsFit

LEMMA InsertKeepsRows ==
  ASSUME KInv, RowsFit, NEW e \in Exchanges, Insert(e)
  PROVE  RowsFit'
<1> DEFINE p == poll[e]
           kind == WantsOf(p)
           slug == InsertedSlug(e)
           row == InsertedRow(e)
<1>1. poll[e].todo # <<>>
  BY PollKnown DEF Insert, NamesFit, Halfway
<1>2. /\ UNCHANGED table
      /\ poll' = [poll EXCEPT ![e] = poll'[e]]
      /\ kind \in Kinds /\ slug \in Slugs /\ row # NoRow /\ SlugOf[row.symbol] = slug
      /\ Seen(table, p, kind, slug) # NoRow => row.name = Seen(table, p, kind, slug).name
      /\ \A x \in Exchanges \ {e} : poll[x].wrote[kind][slug] = NoRow
      /\ \A k \in Kinds : \A t \in Slugs :
           poll'[e].wrote[k][t] = IF k = kind /\ t = slug THEN row ELSE p.wrote[k][t]
  BY <1>1, InsertIs DEF KInv
<1>3. \A x \in Exchanges \ {e} : poll'[x] = poll[x]
  BY <1>2, PollKnown
<1> HIDE DEF kind, slug, row
<1> SUFFICES ASSUME NEW k \in Kinds, NEW s \in Slugs
             PROVE  /\ RowFits(k, s, table'[k][s])
                    /\ \A x \in Exchanges :
                         /\ RowFits(k, s, poll'[x].wrote[k][s])
                         /\ poll'[x].wrote[k][s] # NoRow /\ table'[k][s] # NoRow
                              => poll'[x].wrote[k][s].name = table'[k][s].name
                         /\ \A f \in Exchanges \ {x} :
                              poll'[x].wrote[k][s] = NoRow \/ poll'[f].wrote[k][s] = NoRow
  BY DEF RowsFit
<1>4. CASE k = kind /\ s = slug
  <2>1. poll'[e].wrote[k][s] = row /\ RowFits(k, s, row)
    BY <1>2, <1>4 DEF RowFits
  <2>2. table[k][s] # NoRow => row.name = table[k][s].name
    BY <1>2, <1>4 DEF RowsFit, Seen
  <2>3. \A x \in Exchanges \ {e} : poll'[x].wrote[k][s] = NoRow
    BY <1>2, <1>3, <1>4
  <2>4. RowFits(k, s, NoRow) /\ RowFits(k, s, table[k][s])
    BY DEF RowFits, RowsFit
  <2> QED
    BY <1>2, <2>1, <2>2, <2>3, <2>4
<1>5. CASE ~(k = kind /\ s = slug)
  <2>1. \A x \in Exchanges : poll'[x].wrote[k][s] = poll[x].wrote[k][s]
    BY <1>2, <1>3, <1>5
  <2> QED
    BY <1>2, <2>1 DEF RowsFit
<1> QED
  BY <1>4, <1>5

LEMMA CommitKeepsRows ==
  ASSUME KInv, RowsFit, NEW e \in Exchanges, Commit(e)
  PROVE  /\ RowsFit'
         /\ \A k \in Kinds : \A s \in Slugs : table[k][s] # NoRow =>
              table'[k][s] # NoRow /\ table'[k][s].name = table[k][s].name
<1>1. /\ \A k \in Kinds : \A s \in Slugs : table'[k][s] = Seen(table, poll[e], k, s)
      /\ \A x \in Exchanges \ {e} : poll'[x] = poll[x]
      /\ poll'[e].wrote = NoWrites
  <2>1. /\ poll' = [poll EXCEPT ![e] = [poll[e] EXCEPT !.at = "flush", !.wrote = NoWrites]]
        /\ \A k \in Kinds : \A s \in Slugs : table'[k][s] = Seen(table, poll[e], k, s)
    BY CommitIs DEF KInv
  <2>2. DOMAIN poll = Exchanges /\ "wrote" \in DOMAIN poll[e]
    BY PollKnown DEF PollTyped
  <2> QED
    BY <2>1, <2>2
<1>2. ASSUME NEW k \in Kinds, NEW s \in Slugs
      PROVE  /\ table[k][s] # NoRow => table'[k][s] # NoRow /\ table'[k][s].name = table[k][s].name
             /\ RowFits(k, s, table'[k][s])
             /\ \A x \in Exchanges :
                  /\ RowFits(k, s, poll'[x].wrote[k][s])
                  /\ poll'[x].wrote[k][s] # NoRow /\ table'[k][s] # NoRow
                       => poll'[x].wrote[k][s].name = table'[k][s].name
                  /\ \A f \in Exchanges \ {x} :
                       poll'[x].wrote[k][s] = NoRow \/ poll'[f].wrote[k][s] = NoRow
  <2>1. poll'[e].wrote[k][s] = NoRow /\ RowFits(k, s, NoRow)
    BY <1>1, NothingTyped DEF RowFits
  <2>2. table'[k][s] = IF poll[e].wrote[k][s] # NoRow THEN poll[e].wrote[k][s] ELSE table[k][s]
    BY <1>1 DEF Seen
  <2> QED
    BY <1>1, <2>1, <2>2 DEF RowsFit
<1> QED
  BY <1>2 DEF RowsFit

(* The names of one poll are explained by the rows t and what it has written. *)
PollExplained(p, al, t) ==
  \A k \in Kinds : \A r \in Raws[k] :
    /\ al[k][r] # NoSlug => Explained(k, r, al[k][r], t[k][al[k][r]])
    /\ p.pending[k][r] # NoSlug =>
         Explained(k, r, p.pending[k][r], Seen(t, p, k, p.pending[k][r]))

LEMMA ExplainedBy == NamesExplained <=> \A e \in Exchanges : PollExplained(poll[e], alias[e], table)
BY DEF NamesExplained, PollExplained

LEMMA ExplainedNext ==
  ASSUME \A e \in Exchanges : PollExplained(poll'[e], alias'[e], table')
  PROVE  NamesExplained'
BY DEF NamesExplained, PollExplained

(* Rows that stay keep their names. *)
RowsLast(t, u) ==
  \A k \in Kinds : \A s \in Slugs : t[k][s] # NoRow => u[k][s] # NoRow /\ u[k][s].name = t[k][s].name

LEMMA ExplanationLasts ==
  ASSUME NEW k, NEW r, NEW s, NEW row, NEW later, Explained(k, r, s, row),
         later # NoRow, later.name = row.name
  PROVE  Explained(k, r, s, later)
BY DEF Explained

LEMMA OthersExplained ==
  ASSUME NEW p, PollTyped(p), NEW al, NamesTyped(al), NEW t, NEW u,
         PollExplained(p, al, t), RowsLast(t, u)
  PROVE  PollExplained(p, al, u)
<1> SUFFICES ASSUME NEW k \in Kinds, NEW r \in Raws[k]
             PROVE  /\ al[k][r] # NoSlug => Explained(k, r, al[k][r], u[k][al[k][r]])
                    /\ p.pending[k][r] # NoSlug =>
                         Explained(k, r, p.pending[k][r], Seen(u, p, k, p.pending[k][r]))
  BY DEF PollExplained
<1>1. al[k][r] \in MaySlug /\ p.pending[k][r] \in MaySlug
  BY DEF PollTyped, NamesTyped
<1>2. ASSUME al[k][r] # NoSlug
      PROVE  Explained(k, r, al[k][r], u[k][al[k][r]])
  <2>1. Explained(k, r, al[k][r], t[k][al[k][r]]) /\ al[k][r] \in Slugs
    BY <1>1, <1>2 DEF PollExplained, MaySlug
  <2>2. t[k][al[k][r]] # NoRow
    BY <2>1 DEF Explained
  <2> QED
    BY <2>1, <2>2, ExplanationLasts DEF RowsLast
<1>3. ASSUME p.pending[k][r] # NoSlug
      PROVE  Explained(k, r, p.pending[k][r], Seen(u, p, k, p.pending[k][r]))
  <2> DEFINE s == p.pending[k][r]
  <2>1. s \in Slugs /\ Explained(k, r, s, Seen(t, p, k, s))
    BY <1>1, <1>3 DEF PollExplained, MaySlug
  <2>2. Seen(t, p, k, s) # NoRow
    BY <2>1 DEF Explained
  <2>3. Seen(u, p, k, s) # NoRow /\ Seen(u, p, k, s).name = Seen(t, p, k, s).name
    BY <2>1, <2>2 DEF RowsLast, Seen
  <2> HIDE DEF s
  <2> QED
    BY <2>1, <2>3, ExplanationLasts DEF s
<1> QED
  BY <1>2, <1>3

(* A poll that learns only names that are explained, and loses sight of no row. *)
LEMMA LearnerExplained ==
  ASSUME NEW p, PollTyped(p), NEW q, NEW al, NEW t, PollExplained(p, al, t),
         \A k \in Kinds : \A s \in Slugs : Seen(t, p, k, s) # NoRow =>
           Seen(t, q, k, s) # NoRow /\ Seen(t, q, k, s).name = Seen(t, p, k, s).name,
         \A k \in Kinds : \A r \in Raws[k] : q.pending[k][r] # p.pending[k][r] =>
           Explained(k, r, q.pending[k][r], Seen(t, q, k, q.pending[k][r]))
  PROVE  PollExplained(q, al, t)
<1> SUFFICES ASSUME NEW k \in Kinds, NEW r \in Raws[k], q.pending[k][r] # NoSlug,
                    q.pending[k][r] = p.pending[k][r]
             PROVE  Explained(k, r, q.pending[k][r], Seen(t, q, k, q.pending[k][r]))
  BY DEF PollExplained
<1> DEFINE s == p.pending[k][r]
<1>1. s \in Slugs /\ Explained(k, r, s, Seen(t, p, k, s))
  BY DEF PollExplained, PollTyped, NamesTyped, MaySlug
<1>2. Seen(t, p, k, s) # NoRow
  BY <1>1 DEF Explained
<1>3. Seen(t, q, k, s) # NoRow /\ Seen(t, q, k, s).name = Seen(t, p, k, s).name
  BY <1>1, <1>2
<1>4. Explained(k, r, s, Seen(t, q, k, s))
  <2> HIDE DEF s
  <2> QED
    BY <1>1, <1>3, ExplanationLasts
<1> QED
  BY <1>4

LEMMA FoundExplained ==
  ASSUME XInv, NEW e \in Exchanges, poll[e].at = "resolve", poll[e].todo # <<>>,
         Found(e) # NoSlug, VerifiedOf(poll[e]) = NoSlug
  PROVE  Explained(WantsOf(poll[e]), RawOf(poll[e]), Found(e),
                   Seen(table, poll[e], WantsOf(poll[e]), Found(e)))
<1> DEFINE p == poll[e]
           w == WantsOf(p)
           raw == RawOf(p)
           known == p.known[w][raw]
           rows == Sees(e, w)
           s == Found(e)
<1>1. CycleTyped /\ PollTyped(p) /\ w \in Kinds /\ raw \in Raws[w] /\ s \in Slugs
  <2>1. CycleTyped /\ PollTyped(p)
    BY PollKnown DEF XInv, KInv
  <2> QED
    BY <2>1, WantedIs, FoundIs DEF MaySlug
<1>2. /\ rows \in RowSet /\ ids[w] \in [Slugs -> Nat]
      /\ \A t \in Slugs : rows[t] = Seen(table, p, w, t)
  BY <1>1, SeesIs DEF CycleTyped, IdsTyped
<1>3. \A t \in Slugs : RowFits(w, t, rows[t])
  BY <1>1, <1>2 DEF XInv, RowsFit, Seen
<1>4. CASE known # NoSlug
  <2>1. s = known
    BY <1>4, WantsAre DEF Found
  <2>2. known = alias[e][w][raw] \/ known = p.pending[w][raw]
    BY <1>1, PollKnown DEF XInv, NamesFit, KnowsAliases, Active
  <2>3. PollExplained(p, alias[e], table)
    BY ExplainedBy DEF XInv
  <2>4. CASE s = p.pending[w][raw]
    BY <1>1, <1>4, <2>1, <2>3, <2>4 DEF PollExplained
  <2>5. CASE s = alias[e][w][raw]
    <3>1. Explained(w, raw, s, table[w][s])
      BY <1>1, <1>4, <2>1, <2>3, <2>5 DEF PollExplained
    <3>2. table[w][s] # NoRow
      BY <3>1 DEF Explained
    <3>3. Seen(table, p, w, s) # NoRow /\ Seen(table, p, w, s).name = table[w][s].name
      BY <1>1, <3>2 DEF XInv, RowsFit, Seen
    <3> HIDE DEF s, w, raw, p
    <3>4. Explained(w, raw, s, Seen(table, p, w, s))
      BY <3>1, <3>3, ExplanationLasts
    <3> QED
      BY <3>4 DEF s, w, raw, p
  <2> QED
    BY <2>1, <2>2, <2>4, <2>5
<1>5. CASE known = NoSlug
  <2>1. s = Search(w, rows, ids[w], raw)
    BY <1>5, WantsAre DEF Found
  <2>2. /\ rows[s] # NoRow
        /\ \/ rows[s].symbol = raw.symbol
           \/ rows[s].name = raw.name
           \/ w = "chain" /\ s \in {SynonymOf(raw.symbol), SynonymOf(raw.name)}
    <3>1. s # NoSlug
      OBVIOUS
    <3> HIDE DEF s, w, raw, rows
    <3> QED
      BY <1>1, <1>2, <2>1, <3>1, SearchFinds
  <2>3. rows[s].symbol = raw.symbol =>
          s = SlugOf[InsertedSymbol(raw)] \/ (Seeds[w][s] # NoRow /\ Seeds[w][s].symbol = raw.symbol)
    <3>1. rows[s].symbol \in Texts
      BY <1>1, <1>2, <2>2 DEF RowSet, Row
    <3>2. rows[s].symbol = raw.symbol => InsertedSymbol(raw) = raw.symbol
      BY <3>1, RawAssumption DEF InsertedSymbol
    <3>3. RowFits(w, s, rows[s])
      BY <1>1, <1>3
    <3> QED
      BY <2>2, <3>2, <3>3 DEF RowFits
  <2>4. Explained(w, raw, s, rows[s])
    BY <2>2, <2>3 DEF Explained
  <2> QED
    BY <1>1, <1>2, <2>4
<1> QED
  BY <1>4, <1>5

-----------------------------------------------------------------------------
(* The invariant of the aliases *)

(* One poll moves; the rows of the others stay. *)
LEMMA OnePollExplained ==
  ASSUME XInv, NEW e \in Exchanges, RowsLast(table, table'),
         \A x \in Exchanges \ {e} : poll'[x] = poll[x] /\ alias'[x] = alias[x],
         PollExplained(poll'[e], alias'[e], table')
  PROVE  NamesExplained'
<1>1. ASSUME NEW x \in Exchanges \ {e} PROVE PollExplained(poll'[x], alias'[x], table')
  <2>1. PollTyped(poll[x]) /\ NamesTyped(alias[x]) /\ PollExplained(poll[x], alias[x], table)
    BY PollKnown, ExplainedBy DEF XInv
  <2>2. PollExplained(poll[x], alias[x], table')
    BY <2>1, OthersExplained
  <2> QED
    BY <2>2
<1> QED
  BY <1>1, ExplainedNext

LEMMA NoRowsChange == table' = table => RowsLast(table, table')
BY DEF RowsLast

LEMMA NothingPendingExplained ==
  ASSUME NEW p, NEW q, NEW al, NEW t, PollExplained(p, al, t), q.pending = NoNames
  PROVE  PollExplained(q, al, t)
BY NothingTyped DEF PollExplained

(* The polls that end, or begin, have written nothing and learned nothing. *)
LEMMA RestartKeepsAliases ==
  ASSUME XInv, UNCHANGED <<table, alias>>,
         \A e \in Exchanges : poll'[e] = poll[e]
                              \/ (poll'[e].pending = NoNames /\ poll'[e].wrote = NoWrites)
  PROVE  RowsFit' /\ NamesExplained'
<1>1. RowsFit'
  <2>1. \A e \in Exchanges : \A k \in Kinds : \A s \in Slugs :
          poll'[e].wrote[k][s] \in {poll[e].wrote[k][s], NoRow}
    BY NothingTyped
  <2> QED
    BY <2>1, RowsStay DEF XInv
<1>2. ASSUME NEW e \in Exchanges PROVE PollExplained(poll'[e], alias'[e], table')
  <2>1. PollExplained(poll[e], alias[e], table)
    BY ExplainedBy DEF XInv
  <2>2. PollExplained(poll'[e], alias[e], table)
    BY <2>1, NothingPendingExplained
  <2> QED
    BY <2>2
<1> QED
  BY <1>1, <1>2, ExplainedNext

LEMMA EndingsKeepAliases ==
  ASSUME XInv,
         \/ Tick \/ EndCycle \/ Crash \/ UNCHANGED vars
         \/ \E e \in Exchanges : \/ Abort(e) \/ FetchFails(e)
                                 \/ \E listed \in Fetches[e] : Fetch(e, listed)
  PROVE  RowsFit' /\ NamesExplained'
<1>1. DOMAIN poll = Exchanges
  BY PollKnown DEF XInv, KInv, CycleTyped
<1>2. \A at, todo, names : /\ Poll(at, todo, names).pending = NoNames
                           /\ Poll(at, todo, names).wrote = NoWrites
  BY DEF Poll
<1>3. CASE Tick \/ EndCycle \/ Crash
  <2>1. UNCHANGED <<table, alias>> /\ \A e \in Exchanges : \E at : poll'[e] = Poll(at, <<>>, NoNames)
    BY <1>3 DEF Tick, EndCycle, Crash, stored
  <2> QED
    BY <1>2, <2>1, RestartKeepsAliases
<1>4. CASE UNCHANGED vars
  BY <1>4, RestartKeepsAliases DEF vars
<1>5. ASSUME NEW e \in Exchanges, Abort(e) \/ FetchFails(e) PROVE RowsFit' /\ NamesExplained'
  <2>1. UNCHANGED <<table, alias>> /\ poll' = [poll EXCEPT ![e] = Ended(e)]
    BY <1>5 DEF Abort, FetchFails, stored
  <2>2. \A x \in Exchanges : poll'[x] = poll[x] \/ poll'[x] = Ended(e)
    BY <1>1, <2>1
  <2> QED
    BY <1>2, <2>1, <2>2, RestartKeepsAliases DEF Ended
<1>6. ASSUME NEW e \in Exchanges, NEW listed \in Fetches[e], Fetch(e, listed)
      PROVE  RowsFit' /\ NamesExplained'
  <2>1. UNCHANGED <<table, alias>> /\ poll' = [poll EXCEPT ![e] = Poll("resolve", listed, alias[e])]
    BY <1>6 DEF Fetch, stored
  <2>2. \A x \in Exchanges : poll'[x] = poll[x] \/ poll'[x] = Poll("resolve", listed, alias[e])
    BY <1>1, <2>1
  <2> QED
    BY <1>2, <2>1, <2>2, RestartKeepsAliases
<1> QED
  BY <1>3, <1>4, <1>5, <1>6

(* A step that writes no row. *)
LEMMA LearningKeepsAliases ==
  ASSUME XInv, NEW e \in Exchanges, UNCHANGED <<table, alias>>, NEW q,
         poll' = [poll EXCEPT ![e] = q], q.wrote = poll[e].wrote,
         \A k \in Kinds : \A r \in Raws[k] : q.pending[k][r] # poll[e].pending[k][r] =>
           Explained(k, r, q.pending[k][r], Seen(table, poll[e], k, q.pending[k][r]))
  PROVE  RowsFit' /\ NamesExplained'
<1>1. poll'[e] = q /\ \A x \in Exchanges \ {e} : poll'[x] = poll[x]
  BY PollKnown DEF XInv
<1>2. RowsFit'
  <2>1. \A x \in Exchanges : \A k \in Kinds : \A s \in Slugs :
          poll'[x].wrote[k][s] \in {poll[x].wrote[k][s], NoRow}
    BY <1>1
  <2> QED
    BY <2>1, RowsStay DEF XInv
<1>3. \A k \in Kinds : \A s : Seen(table, q, k, s) = Seen(table, poll[e], k, s)
  BY DEF Seen
<1>4. PollExplained(q, alias[e], table)
  <2>1. PollTyped(poll[e]) /\ PollExplained(poll[e], alias[e], table)
    BY PollKnown, ExplainedBy DEF XInv
  <2> QED
    BY <1>3, <2>1, LearnerExplained
<1>5. NamesExplained'
  BY <1>1, <1>4, NoRowsChange, OnePollExplained
<1> QED
  BY <1>2, <1>5

LEMMA AcquireKeepsAliases ==
  ASSUME XInv, NEW e \in Exchanges, Acquire(e)
  PROVE  RowsFit' /\ NamesExplained'
<1> DEFINE q == [poll[e] EXCEPT !.at = "fetch"]
<1>1. poll' = [poll EXCEPT ![e] = q] /\ UNCHANGED <<table, alias>>
  BY DEF Acquire, stored
<1>2. q.wrote = poll[e].wrote /\ q.pending = poll[e].pending
  BY PollKnown DEF XInv, PollTyped
<1> HIDE DEF q
<1> QED
  BY <1>1, <1>2, LearningKeepsAliases

LEMMA ResolveKeepsAliases ==
  ASSUME XInv, NEW e \in Exchanges, Resolve(e)
  PROVE  RowsFit' /\ NamesExplained'
<1> DEFINE p == poll[e]
           s == Found(e)
<1>1. p.at = "resolve" /\ p.todo # <<>> /\ UNCHANGED <<table, alias>>
  BY DEF Resolve, stored
<1>2. PollTyped(p) /\ CycleTyped
  BY PollKnown DEF XInv, KInv
<1>3. CASE s = NoSlug
  <2> DEFINE q == [p EXCEPT !.at = "insert"]
  <2>1. poll' = [poll EXCEPT ![e] = q]
    BY <1>3 DEF Resolve
  <2>2. q.wrote = p.wrote /\ q.pending = p.pending
    BY <1>2 DEF PollTyped
  <2> HIDE DEF q
  <2> QED
    BY <1>1, <2>1, <2>2, LearningKeepsAliases
<1>4. CASE s # NoSlug
  <2> DEFINE q == ResolvedOf(p, s)
  <2>1. poll' = [poll EXCEPT ![e] = q]
    BY <1>4, WantsAre DEF Resolve, Resolved, ResolvedOf
  <2>2. s \in Slugs
    BY <1>1, <1>2, <1>4, FoundIs DEF MaySlug
  <2>3. /\ q.wrote = p.wrote
        /\ \A k \in Kinds : \A r \in Raws[k] :
             LET new == VerifiedOf(p) = NoSlug /\ k = WantsOf(p) /\ r = RawOf(p)
             IN  q.pending[k][r] = IF new THEN s ELSE p.pending[k][r]
    <3> HIDE DEF s
    <3> QED
      BY <1>1, <1>2, <2>2, ResolvedIs
  <2>4. ASSUME NEW k \in Kinds, NEW r \in Raws[k], q.pending[k][r] # p.pending[k][r]
        PROVE  Explained(k, r, q.pending[k][r], Seen(table, p, k, q.pending[k][r]))
    <3>1. /\ VerifiedOf(p) = NoSlug /\ k = WantsOf(p) /\ r = RawOf(p)
          /\ q.pending[k][r] = s
      BY <2>3, <2>4
    <3>2. Explained(WantsOf(p), RawOf(p), s, Seen(table, p, WantsOf(p), s))
      BY <1>1, <1>4, <3>1, FoundExplained
    <3> QED
      BY <3>1, <3>2
  <2> HIDE DEF q
  <2> QED
    BY <1>1, <2>1, <2>3, <2>4, LearningKeepsAliases
<1> QED
  BY <1>3, <1>4

LEMMA InsertKeepsAliases ==
  ASSUME XInv, NEW e \in Exchanges, Insert(e)
  PROVE  RowsFit' /\ NamesExplained'
<1> DEFINE p == poll[e]
           kind == WantsOf(p)
           raw == RawOf(p)
           s == InsertedSlug(e)
           row == InsertedRow(e)
           r0 == ResolvedOf(p, s)
           q == poll'[e]
<1>1. p.todo # <<>> /\ VerifiedOf(p) = NoSlug /\ PollTyped(p)
  BY PollKnown DEF XInv, Insert, NamesFit, Halfway
<1>2. /\ UNCHANGED <<table, alias>> /\ poll' = [poll EXCEPT ![e] = q]
      /\ kind \in Kinds /\ raw \in Raws[kind] /\ s \in Slugs /\ row # NoRow
      /\ Seen(table, p, kind, s) # NoRow => row.name = Seen(table, p, kind, s).name
      /\ q.pending = r0.pending
      /\ \A k \in Kinds : \A t \in Slugs :
           q.wrote[k][t] = IF k = kind /\ t = s THEN row ELSE p.wrote[k][t]
  BY <1>1, InsertIs DEF XInv, KInv
<1>3. \A k \in Kinds : \A r \in Raws[k] :
        q.pending[k][r] = IF k = kind /\ r = raw THEN s ELSE p.pending[k][r]
  BY <1>1, <1>2, ResolvedIs
<1>4. RowsFit'
  BY InsertKeepsRows DEF XInv
<1>5. s = SlugOf[InsertedSymbol(raw)]
  BY DEF InsertedSlug
<1> HIDE DEF q, row, s, kind, raw
<1>6. PollExplained(q, alias[e], table)
  <2>1. \A k \in Kinds : \A t \in Slugs : Seen(table, p, k, t) # NoRow =>
          Seen(table, q, k, t) # NoRow /\ Seen(table, q, k, t).name = Seen(table, p, k, t).name
    BY <1>2 DEF Seen
  <2>2. ASSUME NEW k \in Kinds, NEW r \in Raws[k], q.pending[k][r] # p.pending[k][r]
        PROVE  Explained(k, r, q.pending[k][r], Seen(table, q, k, q.pending[k][r]))
    <3>1. k = kind /\ r = raw /\ q.pending[k][r] = s
      BY <1>3, <2>2
    <3>2. Seen(table, q, k, s) # NoRow
      BY <1>2, <3>1 DEF Seen
    <3>3. Explained(k, r, s, Seen(table, q, k, s))
      BY <1>5, <3>1, <3>2 DEF Explained
    <3> QED
      BY <3>1, <3>3
  <2>3. PollExplained(p, alias[e], table)
    BY ExplainedBy DEF XInv
  <2> QED
    BY <1>1, <2>1, <2>2, <2>3, LearnerExplained
<1>7. \A x \in Exchanges \ {e} : poll'[x] = poll[x]
  BY <1>2, PollKnown DEF XInv
<1>8. NamesExplained'
  BY <1>2, <1>6, <1>7, NoRowsChange, OnePollExplained DEF q
<1> QED
  BY <1>4, <1>8

LEMMA CommitKeepsAliases ==
  ASSUME XInv, NEW e \in Exchanges, Commit(e)
  PROVE  RowsFit' /\ NamesExplained'
<1> DEFINE p == poll[e]
           q == [p EXCEPT !.at = "flush", !.wrote = NoWrites]
<1>1. /\ poll' = [poll EXCEPT ![e] = q] /\ alias' = alias
      /\ \A k \in Kinds : \A s \in Slugs : table'[k][s] = Seen(table, p, k, s)
  BY CommitIs DEF XInv, KInv
<1>2. RowsFit' /\ RowsLast(table, table')
  BY CommitKeepsRows DEF XInv, RowsLast
<1>3. PollTyped(p) /\ NamesTyped(alias[e]) /\ DOMAIN poll = Exchanges
  BY PollKnown DEF XInv
<1>4. q.wrote = NoWrites /\ q.pending = p.pending
  BY <1>3 DEF PollTyped
<1> HIDE DEF q
<1>5. PollExplained(p, alias[e], table') /\ PollExplained(p, alias[e], table)
  BY <1>2, <1>3, ExplainedBy, OthersExplained DEF XInv
<1>6. PollExplained(q, alias[e], table')
  <2> SUFFICES ASSUME NEW k \in Kinds, NEW r \in Raws[k]
               PROVE  /\ alias[e][k][r] # NoSlug =>
                           Explained(k, r, alias[e][k][r], table'[k][alias[e][k][r]])
                      /\ q.pending[k][r] # NoSlug =>
                           Explained(k, r, q.pending[k][r], Seen(table', q, k, q.pending[k][r]))
    BY DEF PollExplained
  <2>1. ASSUME q.pending[k][r] # NoSlug
        PROVE  Explained(k, r, q.pending[k][r], Seen(table', q, k, q.pending[k][r]))
    <3> DEFINE s == p.pending[k][r]
    <3>1. s \in Slugs /\ Explained(k, r, s, Seen(table, p, k, s))
      BY <1>3, <1>4, <1>5, <2>1 DEF PollExplained, PollTyped, NamesTyped, MaySlug
    <3>2. Seen(table', q, k, s) = Seen(table, p, k, s)
      <4> HIDE DEF s
      <4>1. Seen(table', q, k, s) = table'[k][s]
        BY <1>4, <3>1, NothingTyped DEF Seen
      <4> QED
        BY <1>1, <3>1, <4>1
    <3> QED
      BY <1>4, <3>1, <3>2
  <2> QED
    BY <1>5, <2>1 DEF PollExplained
<1>7. poll'[e] = q /\ \A x \in Exchanges \ {e} : poll'[x] = poll[x]
  BY <1>1, <1>3
<1>8. NamesExplained'
  BY <1>1, <1>2, <1>6, <1>7, OnePollExplained
<1> QED
  BY <1>2, <1>8

LEMMA FlushKeepsAliases ==
  ASSUME XInv, NEW e \in Exchanges, Flush(e)
  PROVE  RowsFit' /\ NamesExplained'
<1> DEFINE p == poll[e]
           al == alias'[e]
           q == Poll("done", <<>>, NoNames)
<1>1. /\ p.at = "flush" /\ table' = table /\ poll' = [poll EXCEPT ![e] = q]
      /\ \A x \in Exchanges \ {e} : alias'[x] = alias[x]
      /\ \A k \in Kinds : \A r \in Raws[k] :
           al[k][r] = IF p.pending[k][r] # NoSlug THEN p.pending[k][r] ELSE alias[e][k][r]
  BY FlushIs DEF XInv, KInv
<1>2. q.pending = NoNames /\ q.wrote = NoWrites
  BY DEF Poll
<1>3. /\ PollTyped(p) /\ p.wrote = NoWrites /\ DOMAIN poll = Exchanges
      /\ PollExplained(p, alias[e], table)
  BY <1>1, PollKnown, ExplainedBy DEF XInv, NamesFit, Emptied
<1> HIDE DEF q, al
<1>4. poll'[e] = q /\ \A x \in Exchanges \ {e} : poll'[x] = poll[x]
  BY <1>1, <1>3
<1>5. RowsFit'
  <2>1. \A x \in Exchanges : \A k \in Kinds : \A s \in Slugs :
          poll'[x].wrote[k][s] \in {poll[x].wrote[k][s], NoRow}
    BY <1>2, <1>3, <1>4
  <2> QED
    BY <1>1, <2>1, RowsStay DEF XInv
<1>6. PollExplained(q, al, table)
  <2> SUFFICES ASSUME NEW k \in Kinds, NEW r \in Raws[k], al[k][r] # NoSlug
               PROVE  Explained(k, r, al[k][r], table[k][al[k][r]])
    BY <1>2, NothingTyped DEF PollExplained
  <2>1. CASE p.pending[k][r] = NoSlug
    BY <1>1, <1>3, <2>1 DEF PollExplained
  <2>2. CASE p.pending[k][r] # NoSlug
    <3>1. /\ al[k][r] = p.pending[k][r] /\ al[k][r] \in Slugs
          /\ Explained(k, r, al[k][r], Seen(table, p, k, al[k][r]))
      BY <1>1, <1>3, <2>2 DEF PollExplained, PollTyped, NamesTyped, MaySlug
    <3>2. Seen(table, p, k, al[k][r]) = table[k][al[k][r]]
      BY <1>3, <3>1, NothingTyped DEF Seen
    <3> QED
      BY <3>1, <3>2
  <2> QED
    BY <2>1, <2>2
<1>7. NamesExplained'
  BY <1>1, <1>4, <1>6, NoRowsChange, OnePollExplained DEF al
<1> QED
  BY <1>5, <1>7

LEMMA NextKeepsAliases == XInv /\ [Next]_vars => XInv'
<1> SUFFICES ASSUME XInv, [Next]_vars PROVE XInv'
  OBVIOUS
<1>1. KInv'
  BY NextKeepsNames DEF XInv
<1>2. ASSUME NEW e \in Exchanges, Step(e) PROVE RowsFit' /\ NamesExplained'
  BY <1>2, AcquireKeepsAliases, ResolveKeepsAliases, InsertKeepsAliases, CommitKeepsAliases,
     FlushKeepsAliases, EndingsKeepAliases DEF Step, BreakDeadlock
<1>3. ASSUME NEW e \in Exchanges, StatementFails(e) PROVE RowsFit' /\ NamesExplained'
  BY <1>3, EndingsKeepAliases DEF StatementFails
<1>4. RowsFit' /\ NamesExplained'
  BY <1>2, <1>3, EndingsKeepAliases DEF Next
<1> QED
  BY <1>1, <1>4 DEF XInv

LEMMA InitAliases == Init => XInv
<1> SUFFICES ASSUME Init PROVE XInv
  OBVIOUS
<1>1. \A e \in Exchanges : /\ poll[e].wrote = NoWrites /\ poll[e].pending = NoNames
                           /\ alias[e] = NoNames
  BY DEF Init, Poll
<1>2. RowsFit
  BY <1>1, NothingTyped DEF Init, RowsFit, RowFits
<1>3. NamesExplained
  BY <1>1, NothingTyped DEF NamesExplained
<1> QED
  BY <1>2, <1>3, InitNames DEF XInv

(* Rows, and what they explain, fit one another in every state. *)
THEOREM AliasInvariance == Spec => []XInv
<1> QED
  BY InitAliases, NextKeepsAliases, PTL DEF Spec

(* In whatever order transactions insert, overwrite, commit and fail, an alias leads to *)
(* a committed row that has its slug, its name or a synonym, or was seeded with its *)
(* symbol.                                                                    *)
THEOREM AliasesStayExplained == Spec => []AliasesAreExplained
<1>1. XInv => AliasesAreExplained
  BY DEF XInv, NamesExplained, AliasesAreExplained, Explained
<1> QED
  BY <1>1, AliasInvariance, PTL

===============================================================================
