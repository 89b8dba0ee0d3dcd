------------------------------ MODULE MCAdapters ------------------------------
(* Instances of Adapters for TLC: what an exchange may mean, with two coins, a longer *)
(* ticker AX and a long name LA of one of them, and three names of networks.  A network *)
(* that has the name n3 anywhere is the chain of n1, and a coin with the long name LA  *)
(* or an address is A: losing one of these names leads to another key.                *)
EXTENDS Adapters, TLC

CONSTANTS A, B, AX, LA, n1, n2, n3

Tickers == [c \in {A, B, AX, LA} |-> [n \in {n1, n2, n3, NoName} |-> IF c = AX THEN A ELSE c]]
(* A network of A that is called n3 has the wrapped coin B. *)
Wraps == [c \in {A, B, AX, LA} |->
            [n \in {n1, n2, n3, NoName} |-> IF c = A /\ n = n3 THEN B ELSE c]]
Bare == [c \in {A, B, AX, LA} |-> [n \in {n1, n2, n3, NoName} |-> IF n = n3 THEN n1 ELSE n]]

ChainTable ==
  [t \in Tags \X Tags \X Tags |->
     IF n3 \in {t[1], t[2], t[3]} THEN n1 ELSE First(First(t[1], t[2]), First(t[3], n2))]
CoinTable ==
  [t \in Coins \X Titles \X Chains \X Names |-> IF t[4] # NoName \/ t[2] = LA THEN A ELSE t[1]]

Net(n, code, label, dep, wd, fee, rate) ==
  [net |-> n, code |-> code, label |-> label, display |-> label, protocol |-> NoName,
   address |-> NoName, dep |-> dep, wd |-> wd, also |-> TRUE, fee |-> fee, rate |-> rate,
   sound |-> TRUE]
Whole(name, title, nets) ==
  [name |-> name, title |-> title, other |-> NoName, net |-> NoName, dep |-> "on", wd |-> "on",
   delisted |-> FALSE, networks |-> nets]

(* Two networks of a coin. *)
Pair ==
  <<Whole(A, A, <<Net(n1, n3, n1, "on", "off", 1, NoAmount), Net(n2, n2, n2, "on", "on", 2, 1)>>)>>

(* Two records whose rails are one: two names of a coin, two names of a chain. *)
Twins ==
  <<Whole(A, NoName, <<Net(n1, n1, n1, "off", "on", 2, NoAmount)>>),
    Whole(AX, LA, <<Net(n3, n3, n1, "off", "off", NoAmount, 1)>>)>>

(* One asset that names one chain twice. *)
Twice ==
  <<Whole(A, A, <<Net(n1, n1, n1, "off", "on", 1, NoAmount), Net(n3, n2, n3, "on", "off", 0, 2)>>)>>

(* A coin that is known by its address, or by its second long name, on a chain that *)
(* is known by its second names. *)
Token ==
  <<[Whole(B, NoName, <<[Net(n2, n3, n3, "on", "on", 1, 1) EXCEPT !.address = n3]>>)
       EXCEPT !.other = LA]>>

(* A coin that is closed as a whole, another that is delisted. *)
Closed ==
  <<[Whole(B, B, <<Net(n2, n2, n2, "on", "on", 0, 0)>>) EXCEPT !.dep = "off", !.wd = "off"],
    [Whole(A, A, <<Net(n1, n2, n1, "on", "on", 1, 2)>>) EXCEPT !.delisted = TRUE]>>

(* Currencies of gate: one that is its own network, one that names it. *)
Alones ==
  <<[Whole(A, NoName, <<>>) EXCEPT !.wd = "off"], [Whole(B, B, <<>>) EXCEPT !.net = n3],
    Whole(B, B, <<Net(n1, n1, n1, "on", "off", 1, 1)>>)>>

Kinds == {Pair, Twins, Twice, Token, Closed, Alones}

===============================================================================
