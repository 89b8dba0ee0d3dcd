------------------------------ MODULE MCPollCycle ------------------------------
(* Instances of PollCycle for TLC: two exchanges that name two new coins, one *)
(* new chain, and one coin and one chain that the migrations have seeded.   *)
EXTENDS PollCycle, TLC

CONSTANTS x, y, addr

Text  == {"A", "B", "N", "K", "ETH", "ERC20", "L"}
Slug  == {"a", "b", "n", "k", "eth", "erc20", "l"}

Slugify ==
  [t \in Text |-> CASE t = "A" -> "a" [] t = "B" -> "b" [] t = "N" -> "n" [] t = "K" -> "k"
                    [] t = "ETH" -> "eth" [] t = "ERC20" -> "erc20" [] t = "L" -> "l"]

Synonym == [t \in Text |-> IF t \in {"ETH", "ERC20"} THEN "eth" ELSE NoSlug]

Contract ==
  [p \in Slug \X {addr} |-> IF p = <<"eth", addr>> THEN "k" ELSE NoSlug]

Named(symbol, name) == [symbol |-> symbol, name |-> name]
Chain(symbol)       == [symbol |-> symbol, name |-> NoText, net |-> symbol]

Coins  == {Named("A", "N"), Named("A", NoText), Named("B", "N"), Named("B", NoText)}
Chains == {Chain("ERC20"), Chain("L")}

Seed ==
  [k \in Kinds |-> [s \in Slug |->
     CASE k = "coin" /\ s = "k"    -> Named("K", "K")
       [] k = "chain" /\ s = "eth" -> Named("ETH", "ETH")
       [] OTHER                    -> NoRow]]
SeedId == [k \in Kinds |-> [s \in Slug |-> IF Seed[k][s] = NoRow THEN 0 ELSE 1]]

On(coin, chain)         == [coin |-> coin, chain |-> chain, contract |-> NoAddress]
WithContract(coin, c)   == [coin |-> coin, chain |-> c, contract |-> addr]
OnEth(symbol, name)     == On(Named(symbol, name), Chain("ERC20"))
OnL(symbol, name)       == On(Named(symbol, name), Chain("L"))

(* Two coins in opposite orders, and one coin on two chains, once with a known contract. *)
Listed ==
  [e \in {x, y} |-> IF e = x
     THEN {<<OnEth("A", "N"), OnEth("B", NoText)>>,
           <<OnEth("A", "N"), OnL("A", "N"), WithContract(Named("A", "N"), Chain("ERC20"))>>}
     ELSE {<<OnEth("B", "N"), OnEth("A", NoText)>>, <<OnL("B", "N")>>}]

===============================================================================
