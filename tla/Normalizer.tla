------------------------------- MODULE Normalizer -------------------------------
(***************************************************************************)
(* How a raw coin or chain name of an exchange is resolved to a row of     *)
(* coins or chains (internal/normalizer/resolver.go, sql_store.go and      *)
(* internal/chains/synonyms.go): the lookups, in their order, over what a  *)
(* statement can see.  PollCycle makes them in concurrent transactions.    *)
(*                                                                         *)
(* A row is known by its slug, which is unique; the ids of the rows, which *)
(* decide between several matches, are kept beside them.  Texts are        *)
(* cleaned and up to case, as the queries compare them: two spellings of   *)
(* one text only have two aliases.                                         *)
(***************************************************************************)
EXTENDS Naturals, Sequences

CONSTANTS
  Slugs,     (* values of coins.slug and chains.slug                           *)
  Texts,     (* symbols and names                                              *)
  NoText,    (* the empty string                                               *)
  RawCoins,  (* what an exchange may call a coin: [symbol, name]               *)
  RawChains, (* ... and a chain, or whose network id differs: [symbol, name, net] *)
  SlugOf,    (* slugify; not injective, and "unknown" for a text without a-z, 0-9 *)
  Synonyms,  (* chains.Synonyms: from texts to slugs of chains, or NoSlug      *)
  Contracts, (* asset_contracts: <<slug of chain, contract>> to slug of a coin, or NoSlug *)
  Addresses, (* contract addresses, normalised                                 *)
  NoAddress, (* a snapshot without one                                         *)
  NoSlug,
  NoRow

Kinds == {"coin", "chain"}
Raws  == [coin |-> RawCoins, chain |-> RawChains]

Row    == [symbol : Texts, name : Texts]
RowSet == [Slugs -> Row \cup {NoRow}]

(* A snapshot as the normalizer reads it. *)
Listing == [coin : RawCoins, chain : RawChains, contract : Addresses \cup {NoAddress}]

ASSUME RawAssumption ==
  /\ NoText \notin Texts /\ NoRow \notin Row /\ NoSlug \notin Slugs
  /\ NoAddress \notin Addresses
  /\ \A r \in RawCoins : r.symbol \in Texts /\ r.name \in Texts \cup {NoText}
  /\ \A r \in RawChains : /\ r.symbol \in Texts \cup {NoText}
                          /\ r.name \in Texts \cup {NoText}
                          /\ r.symbol # NoText \/ r.name # NoText

ASSUME MapAssumption ==
  /\ SlugOf \in [Texts -> Slugs]
  /\ Synonyms \in [Texts -> Slugs \cup {NoSlug}]
  /\ Contracts \in [Slugs \X Addresses -> Slugs \cup {NoSlug}]

(* firstNonEmpty, and the defaults of InsertCoin and InsertChain: a chain may lack its *)
(* symbol, and either may lack its name.                                       *)
InsertedSymbol(raw) == IF raw.symbol # NoText THEN raw.symbol ELSE raw.name
InsertedName(raw)   == IF raw.name # NoText THEN raw.name ELSE raw.symbol

BySymbol(rows, raw) == {s \in Slugs : rows[s] # NoRow /\ rows[s].symbol = raw.symbol}
ByName(rows, raw)   == {s \in Slugs : /\ raw.name # NoText
                                      /\ rows[s] # NoRow /\ rows[s].name = raw.name}

(* ORDER BY id LIMIT 1. *)
Eldest(ids, some) == CHOOSE s \in some : \A t \in some : ids[s] <= ids[t]

(* FindCoinCanonical, FindChainCanonical: a row with this symbol, or else one with *)
(* this name.                                                                  *)
Canonical(rows, ids, raw) ==
  IF BySymbol(rows, raw) # {} THEN Eldest(ids, BySymbol(rows, raw))
  ELSE IF ByName(rows, raw) # {} THEN Eldest(ids, ByName(rows, raw))
  ELSE NoSlug

SynonymOf(text) == IF text = NoText THEN NoSlug ELSE Synonyms[text]

(* CanonicalSlug, then FindChainBySlug: the synonym counts if its chain exists. *)
BySynonym(rows, raw) ==
  LET slug == IF SynonymOf(raw.symbol) # NoSlug THEN SynonymOf(raw.symbol)
                                                ELSE SynonymOf(raw.name)
  IN  IF slug # NoSlug /\ rows[slug] # NoRow THEN slug ELSE NoSlug

(* FindCoinByContract: only for a snapshot that has an address. *)
ByContract(chain, address) ==
  IF address # NoAddress /\ chain # NoSlug THEN Contracts[<<chain, address>>] ELSE NoSlug

(* What the queries of resolveCoin and resolveChain find when there is no alias. *)
Search(kind, rows, ids, raw) ==
  IF Canonical(rows, ids, raw) # NoSlug \/ kind = "coin"
  THEN Canonical(rows, ids, raw)
  ELSE BySynonym(rows, raw)

(* The row that INSERT ... ON CONFLICT (slug) DO UPDATE leaves: an existing one keeps *)
(* its name and takes the new symbol.                                          *)
Inserted(rows, raw) ==
  LET s == SlugOf[InsertedSymbol(raw)]
  IN  [symbol |-> InsertedSymbol(raw),
       name   |-> IF rows[s] = NoRow THEN InsertedName(raw) ELSE rows[s].name]

===============================================================================
