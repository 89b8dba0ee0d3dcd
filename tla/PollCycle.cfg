SPECIFICATION FairSpec
CONSTANTS
  x = x
  y = y
  addr = addr
  Exchanges = {x, y}
  MaxConcurrency = 2
  MaxMishaps = 1
  Slugs <- Slug
  Texts <- Text
  NoText = NoText
  RawCoins <- Coins
  RawChains <- Chains
  SlugOf <- Slugify
  Synonyms <- Synonym
  Contracts <- Contract
  Addresses = {addr}
  NoAddress = NoAddress
  NoSlug = NoSlug
  NoRow = NoRow
  Fetches <- Listed
  Seeds <- Seed
  SeedIds <- SeedId
INVARIANTS
  OnePollOneCoin
  AliasesAreExplained
PROPERTIES
  KeysAreStable
  PollsGoOn
