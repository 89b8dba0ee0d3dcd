------------------------------- MODULE Adapters -------------------------------
(***************************************************************************)
(* The twelve exchange adapters (internal/adapters) and the merging of     *)
(* rails that resolve to one key (mergeDuplicateRails).  Each adapter      *)
(* reads the exchange's answer record by record and says at the end which  *)
(* rails it lists, how they stand, and whether the list is complete: the   *)
(* engine takes a rail that a complete list lacks for delisted.  Here the  *)
(* exchange means one thing (meant) and its answer may have lost or        *)
(* spoiled some fields of it.                                              *)
(***************************************************************************)
EXTENDS Fees, Sequences, SequencesExt

CONSTANTS
  Venues,     (* the adapters at work                                          *)
  Coins,      (* tickers and long names of coins                               *)
  Nets,       (* names and numbers of networks, and contract addresses         *)
  Chains,
  NoName,     (* an empty string                                               *)
  Markets,    (* what an exchange may mean: sequences of assets                *)
  ShortName,  (* a coin's name within a longer one, for a name and a network   *)
  WrappedAs,  (* the coin that htx takes from the name of a network            *)
  BareNet,    (* okx's chain without the coin in front of it                   *)
  ChainOf,    (* the chain that the normalizer finds for a network's names     *)
  CoinOf,     (* ... and the coin, for its names, that chain and its address   *)
  MaxSlips    (* bound: fields of an answer that are lost or spoiled           *)

Adapter == {"binance", "bithumb", "bitget", "bitmart", "bybit", "coinex", "gate", "htx",
            "kucoin", "okx", "upbit", "whitebit"}

Names  == Nets \cup {NoName}
Flags  == {"on", "off", "none", "odd"}

Titles == Coins \cup {NoName}
Tags   == Names \cup Coins  (* gate names a network by its coin if need be *)

(* A network of an asset.  net: the name that the adapter prefers; code: a number or *)
(* a second code; label: a name in full; display and protocol are htx's.  also:      *)
(* bithumb's second answer has its status, or whitebit names it among the            *)
(* confirmations or as the default.  sound: its numbers can be parsed.               *)
Network == [net : Names, code : Names, label : Names, display : Names, protocol : Names,
            address : Names, dep : Flags, wd : Flags, also : BOOLEAN,
            fee : Amount, rate : Amount, sound : BOOLEAN]
(* title: the coin's long name; other: kucoin's second one.  net: the network that  *)
(* gate names for a currency without networks.                                      *)
Asset   == [name : Titles, title : Titles, other : Titles, net : Names, dep : Flags, wd : Flags,
            delisted : BOOLEAN, networks : Seq(Network)]

ASSUME AdapterAssumption ==
  /\ Venues \subseteq Adapter
  /\ NoName \notin Coins \cup Nets
  /\ Markets \subseteq Seq(Asset)
  /\ ShortName \in [Coins -> [Names -> Coins]]
  /\ WrappedAs \in [Coins -> [Names -> Coins]] /\ \A c \in Coins : WrappedAs[c][NoName] = c
  /\ BareNet \in [Coins -> [Names -> Names]]
  /\ ChainOf \in [Tags \X Tags \X Tags -> Chains]
  /\ CoinOf \in [Coins \X Titles \X Chains \X Names -> Coins]
  /\ MaxSlips \in Nat

VARIABLES
  venue,    (* the adapter                                                    *)
  meant,    (* what its exchange means                                        *)
  answer,   (* what its exchange answers                                      *)
  slips,    (* counts the differences                                         *)
  phase,    (* where FetchRails is                                            *)
  assets,   (* records left to read                                           *)
  networks, (* ... and of the first of them, the networks left to read        *)
  rows,     (* result.Snapshots                                               *)
  complete, (* result.Complete                                                *)
  left,     (* ... and of its rows, those that are left to merge              *)
  merged    (* the rail of each key among the rows merged so far              *)

told   == <<rows, complete>>
merger == <<left, merged>>
vars   == <<venue, meant, answer, slips, phase, assets, networks, told, merger>>

On(flag)    == flag = "on"
Clear(flag) == flag \in {"on", "off"}
Sure(c)     == Clear(c.dep) /\ Clear(c.wd)

First(name, other) == IF name # NoName THEN name ELSE other

NonZero(x) == IF x = 0 THEN NoAmount ELSE x
Percent(x) == IF NonZero(x) = NoAmount THEN NoAmount ELSE 100 * x

(* All the names that a snapshot gives its coin and its network. *)
Called(coin, title, symbol, name, id, address) ==
  [coin |-> coin, title |-> title, symbol |-> symbol, name |-> name, id |-> id,
   address |-> address]
Plainly(coin, title, net) == Called(coin, title, net, net, net, NoName)

(* A snapshot, and whether the adapter is sure of it. *)
Row(called, dep, wd, fee, rate, sure) ==
  [called |-> called, sure |-> sure,
   rail |-> [dep |-> dep, wd |-> wd, fee |-> fee, rate |-> rate, type |-> FeeType(fee, rate)]]

-----------------------------------------------------------------------------
(* What each adapter makes of a network c of an asset a *)

Binance(a, c) ==
  Row(Called(a.name, a.title, c.net, First(c.label, c.net), c.net, NoName),
      a.dep # "off" /\ On(c.dep), a.wd # "off" /\ On(c.wd), c.fee, NoAmount, Sure(c))

(* An empty fee closes the withdrawals. *)
Bybit(a, c) ==
  Row(Called(a.name, a.title, c.net, c.label, c.net, c.address),
      On(c.dep), On(c.wd) /\ c.fee # NoAmount, c.fee, NonZero(c.rate), Sure(c))

(* findNetworkStatus: the network's own status, or the only one the coin has.  *)
StatusOf(a, c) ==
  LET known == {j \in DOMAIN a.networks : a.networks[j].also}
  IN  IF c.also /\ c.code # NoName THEN {c}
      ELSE {a.networks[j] : j \in {j \in known : known = {j}}}

(* The status names the network, even by an empty name; a flag that it lacks is 0. *)
Bithumb(a, c) ==
  IF StatusOf(a, c) = {} THEN Row(Plainly(a.name, a.title, c.net), FALSE, FALSE, c.fee, c.rate, FALSE)
  ELSE LET status == CHOOSE d \in StatusOf(a, c) : TRUE
       IN  Row(Called(a.name, a.title, status.code, c.net, status.code, NoName),
               On(status.dep), On(status.wd), c.fee, c.rate,
               status.dep # "odd" /\ status.wd # "odd")

Okx(a, c) ==
  LET bare == BareNet[a.name][c.net]
  IN  Row(Called(a.name, a.title, bare, bare, c.net, c.address),
          On(c.dep), On(c.wd), c.fee, NoAmount, TRUE)

(* Slip: an unknown word is a word for closed. *)
SlipUpbit(a, c) ==
  Row(Called(a.name, NoName, c.net, c.label, c.net, NoName),
      Sure(c) /\ On(c.dep), Sure(c) /\ On(c.wd), NoAmount, NoAmount, TRUE)

(* One word stands for both directions. *)
Upbit(a, c) ==
  Row(Called(a.name, NoName, c.net, c.label, c.net, NoName),
      Sure(c) /\ On(c.dep), Sure(c) /\ On(c.wd), NoAmount, NoAmount, Sure(c))

(* Wrapped bitcoins are listed as networks of BTC: the first name that tells one is *)
(* taken for the coin.  Its long name goes by the coin and the currency, a.name.    *)
Wrapped(coin, net, other) == IF WrappedAs[coin][net] # coin THEN WrappedAs[coin][net] ELSE other

HtxNames(a, c) ==
  LET chain == First(c.net, First(c.display, First(c.protocol, c.code)))
      coin  == Wrapped(a.name, c.label, Wrapped(a.name, c.display, WrappedAs[a.name][c.code]))
  IN  Called(coin, a.name, chain, First(c.label, First(c.display, chain)), First(c.code, chain), NoName)

(* Slip: a delisted currency keeps its flags. *)
SlipHtx(a, c) == Row(HtxNames(a, c), On(c.dep), On(c.wd), c.fee, NoAmount, Sure(c))

Htx(a, c) ==
  Row(HtxNames(a, c), On(c.dep) /\ ~a.delisted, On(c.wd) /\ ~a.delisted, c.fee, NoAmount, Sure(c))

Bitget(a, c) ==
  Row(Called(a.name, a.title, c.net, c.net, c.net, c.address),
      On(c.dep), On(c.wd), c.fee, Percent(c.rate), Sure(c))

Kucoin(a, c) ==
  LET chain == First(c.net, c.code)
  IN  Row(Called(a.name, First(a.title, a.other), chain, chain, First(c.code, chain), c.address),
          On(c.dep), On(c.wd), c.fee, Percent(c.rate), TRUE)

(* The answer says what is disabled. *)
GateStatus(a, net, dep, wd) ==
  LET coin == ShortName[a.name][NoName]
  IN  Row(Plainly(coin, First(a.title, coin), net),
          ~a.delisted /\ dep # "off", ~a.delisted /\ wd # "off", NoAmount, NoAmount, TRUE)

Gate(a, c) == GateStatus(a, c.net, c.dep, c.wd)

(* A currency without networks is the one network it names, or its own.        *)
GateAlone(a) == GateStatus(a, First(a.net, a.name), a.dep, a.wd)

Coinex(a, c) ==
  Row(Plainly(a.name, a.name, c.net),
      On(a.dep) /\ On(c.dep), On(a.wd) /\ On(c.wd), c.fee, NoAmount, TRUE)

(* dep and wd: the network is in the list of those that are open. *)
Whitebit(a, c) ==
  Row(Plainly(a.name, First(a.title, a.name), c.net),
      On(a.dep) /\ On(c.dep), On(a.wd) /\ On(c.wd), NoAmount, NoAmount, TRUE)

(* whitebit collects the networks of an asset from four places.                *)
Mentioned(c) ==
  venue = "whitebit" => c.net # NoName /\ (On(c.dep) \/ On(c.wd) \/ c.also)

Bitmart(a, c) ==
  LET coin  == ShortName[a.name][c.net]
      title == IF a.title = NoName THEN coin ELSE ShortName[a.title][c.net]
  IN  Row(Plainly(coin, title, c.net), On(c.dep), On(c.wd), c.fee, NoAmount, TRUE)

Read(a, c) ==
  CASE venue = "binance"  -> Binance(a, c)  [] venue = "bybit"   -> Bybit(a, c)
    [] venue = "bithumb"  -> Bithumb(a, c)  [] venue = "okx"     -> Okx(a, c)
    [] venue = "upbit"    -> Upbit(a, c)    [] venue = "htx"     -> Htx(a, c)
    [] venue = "bitget"   -> Bitget(a, c)   [] venue = "kucoin"  -> Kucoin(a, c)
    [] venue = "gate"     -> Gate(a, c)     [] venue = "coinex"  -> Coinex(a, c)
    [] venue = "whitebit" -> Whitebit(a, c) [] OTHER -> Bitmart(a, c)

-----------------------------------------------------------------------------
(* The exchange *)

Flat     == {"okx", "upbit", "bitmart"}               (* one network per record    *)
Switched == {"binance", "coinex", "gate", "whitebit"} (* flags of a whole asset    *)
Delists  == {"gate", "htx"}

(* The names that it gives a network, those of which one is enough to read it (the *)
(* list is not complete otherwise), and those that may be missing without a word.  *)
NetNames ==
  CASE venue \in {"binance", "upbit"} -> {"net", "label"}
    [] venue = "bybit"               -> {"net", "label", "address"}
    [] venue = "bithumb"             -> {"net", "code"}
    [] venue \in {"okx", "bitget"}    -> {"net", "address"}
    [] venue = "htx"                 -> {"net", "display", "protocol", "code", "label"}
    [] venue = "kucoin"              -> {"net", "code", "address"}
    [] OTHER                         -> {"net"}
Leading ==
  CASE venue = "bybit"  -> {"net", "label"}
    [] venue = "htx"    -> {"net", "display", "protocol", "code"}
    [] venue = "kucoin" -> {"net", "code"}
    [] OTHER            -> {"net"}
Spare == {n \in NetNames : Leading # {n}}

(* ... and the long names of a coin that it gives. *)
LongNames ==
  CASE venue = "kucoin"                     -> {"title", "other"}
    [] venue \in {"upbit", "htx", "coinex"} -> {}
    [] OTHER                                -> {"title"}

Init ==
  /\ venue \in Venues /\ meant \in Markets
  /\ venue \in Flat => \A i \in DOMAIN meant : Len(meant[i].networks) = 1
  /\ answer = meant /\ slips = 0
  /\ phase = "asking" /\ assets = <<>> /\ networks = <<>>
  /\ rows = <<>> /\ complete = TRUE
  /\ left = <<>> /\ merged = [k \in {} |-> NoName]

Slip(spoilt) ==
  /\ phase = "asking" /\ slips < MaxSlips /\ spoilt # answer
  /\ slips' = slips + 1 /\ answer' = spoilt
  /\ UNCHANGED <<venue, meant, phase, assets, networks, told, merger>>

SpoilAsset(i) ==
  \/ \E n \in LongNames \cup {"name"} : Slip([answer EXCEPT ![i][n] = NoName])
  \/ venue = "gate" /\ Slip([answer EXCEPT ![i].net = NoName])
  \/ venue \notin Flat /\ Slip([answer EXCEPT ![i].networks = <<>>])
  \/ venue \in Delists /\ Slip([answer EXCEPT ![i].delisted = FALSE])
  \/ /\ venue \in Switched
     /\ \E d \in {"dep", "wd"}, flag \in {"none", "odd"} : Slip([answer EXCEPT ![i][d] = flag])

SpoilNetwork(i, j) ==
  \/ \E n \in NetNames : Slip([answer EXCEPT ![i].networks[j][n] = NoName])
  \/ \E d \in {"dep", "wd"}, flag \in {"none", "odd"} :
       Slip([answer EXCEPT ![i].networks[j][d] = flag])
  \/ Slip([answer EXCEPT ![i].networks[j].fee = NoAmount])
  \/ Slip([answer EXCEPT ![i].networks[j].sound = FALSE])
  \/ venue \in {"bithumb", "whitebit"} /\ Slip([answer EXCEPT ![i].networks[j].also = FALSE])

-----------------------------------------------------------------------------
(* FetchRails *)

Fail ==
  /\ phase' = "failed" /\ assets' = <<>> /\ networks' = <<>> /\ rows' = <<>> /\ complete' = FALSE
  /\ UNCHANGED <<venue, meant, answer, slips, merger>>

(* Flags that are JSON booleans or okx's flexBool: another value cannot be decoded. *)
Typed == {"binance", "okx", "kucoin", "gate", "coinex", "whitebit", "bitmart"}

Decodable ==
  venue \in Typed =>
    \A i \in DOMAIN answer :
      /\ venue \in Switched => answer[i].dep # "odd" /\ answer[i].wd # "odd"
      /\ \A j \in DOMAIN answer[i].networks :
           answer[i].networks[j].dep # "odd" /\ answer[i].networks[j].wd # "odd"

(* bithumb asks twice, and fails when the second answer is empty.               *)
Answered ==
  venue = "bithumb" =>
    \E i \in DOMAIN answer : \E j \in DOMAIN answer[i].networks : answer[i].networks[j].also

(* No answer in time, an HTTP or API error, an empty or an undecodable answer.  *)
RequestFails == phase = "asking" /\ Fail

Request ==
  /\ phase = "asking" /\ Decodable /\ Answered /\ answer # <<>>
  /\ phase' = "reading" /\ assets' = answer
  /\ UNCHANGED <<venue, meant, answer, slips, networks, told, merger>>

-----------------------------------------------------------------------------
(* snapshotsFrom...: assets, and the networks of each *)

AtAsset == phase = "reading" /\ networks = <<>> /\ assets # <<>>

(* Go on, with what the current record adds.                                   *)
Onward(rest, more, whole) ==
  /\ rows' = rows \o more /\ complete' = (complete /\ whole)
  /\ networks' = rest
  /\ assets' = IF rest = <<>> THEN Tail(assets) ELSE assets
  /\ UNCHANGED <<venue, meant, answer, slips, phase, merger>>

SkipAsset ==
  /\ AtAsset /\ Head(assets).name = NoName
  /\ Onward(<<>>, <<>>, FALSE)

(* Half of the adapters take an asset without networks for a complete record.   *)
Netless == {"bitget", "coinex", "htx", "kucoin", "whitebit"}

SkipNetless ==
  /\ AtAsset /\ Head(assets).name # NoName /\ Head(assets).networks = <<>> /\ venue # "gate"
  /\ Onward(<<>>, <<>>, venue \in Netless)

ReadAlone ==
  /\ AtAsset /\ Head(assets).name # NoName /\ Head(assets).networks = <<>> /\ venue = "gate"
  /\ Onward(<<>>, <<GateAlone(Head(assets))>>, TRUE)

EnterAsset ==
  /\ AtAsset /\ Head(assets).name # NoName /\ Head(assets).networks # <<>>
  /\ networks' = Head(assets).networks
  /\ UNCHANGED <<venue, meant, answer, slips, phase, assets, told, merger>>

AtNetwork == phase = "reading" /\ networks # <<>>
RowNow    == Read(Head(assets), Head(networks))
Named(c)  == \E n \in Leading : c[n] # NoName

(* A network that whitebit does not mention is none. *)
PassNetwork ==
  /\ AtNetwork /\ ~Mentioned(Head(networks))
  /\ Onward(Tail(networks), <<>>, TRUE)

(* Slip: a network that cannot be named does not count. *)
SlipSkipNetwork ==
  /\ AtNetwork /\ Mentioned(Head(networks)) /\ ~Named(Head(networks))
  /\ Onward(Tail(networks), <<>>, TRUE)

SkipNetwork ==
  /\ AtNetwork /\ Mentioned(Head(networks)) /\ ~Named(Head(networks))
  /\ Onward(Tail(networks), <<>>, FALSE)

(* gate and upbit read no number. *)
Sound == Head(networks).sound \/ venue \in {"gate", "upbit"}

ReadNetwork ==
  /\ AtNetwork /\ Mentioned(Head(networks)) /\ Named(Head(networks)) /\ Sound
  /\ Onward(Tail(networks), <<RowNow>>, RowNow.sure)

NumberFails ==
  AtNetwork /\ Mentioned(Head(networks)) /\ Named(Head(networks)) /\ ~Sound /\ Fail

AtEnd == phase = "reading" /\ assets = <<>>

Return ==
  /\ AtEnd /\ rows # <<>>
  /\ phase' = "merging" /\ left' = rows
  /\ UNCHANGED <<venue, meant, answer, slips, assets, networks, told, merged>>

NoRails == AtEnd /\ rows = <<>> /\ Fail

-----------------------------------------------------------------------------
(* mergeDuplicateRails: rails whose names resolve to one coin and one chain.  Within *)
(* a poll the same names resolve alike.                                        *)

Key(row) ==
  LET n     == row.called
      chain == ChainOf[<<n.symbol, n.name, n.id>>]
  IN  <<CoinOf[<<n.coin, n.title, chain, n.address>>], chain>>

FirstOfKey ==
  /\ phase = "merging" /\ left # <<>> /\ Key(Head(left)) \notin DOMAIN merged
  /\ merged' = [k \in DOMAIN merged \cup {Key(Head(left))} |->
                  IF k = Key(Head(left)) THEN Head(left).rail ELSE merged[k]]
  /\ left' = Tail(left)
  /\ UNCHANGED <<venue, meant, answer, slips, phase, assets, networks, told>>

Duplicate ==
  /\ phase = "merging" /\ left # <<>> /\ Key(Head(left)) \in DOMAIN merged
  /\ merged' = [merged EXCEPT ![Key(Head(left))] = MergeRail(@, Head(left).rail)]
  /\ left' = Tail(left)
  /\ UNCHANGED <<venue, meant, answer, slips, phase, assets, networks, told>>

Next ==
  \/ \E i \in DOMAIN answer :
       SpoilAsset(i) \/ \E j \in DOMAIN answer[i].networks : SpoilNetwork(i, j)
  \/ RequestFails \/ Request
  \/ SkipAsset \/ SkipNetless \/ ReadAlone \/ EnterAsset
  \/ PassNetwork \/ SkipNetwork \/ ReadNetwork \/ NumberFails \/ Return \/ NoRails
  \/ FirstOfKey \/ Duplicate

Spec == Init /\ [][Next]_vars

(* What goes to the diff engine: the merged rails, and complete. *)
Fetched == phase = "merging" /\ left = <<>>

-----------------------------------------------------------------------------
(* What may go wrong without a word: the answer differs from what the exchange *)
(* means and FetchRails still returns a complete list.                         *)

Alone(i)    == venue = "gate" /\ meant[i].networks = <<>>
Listed      == UNION {{i} \X (IF Alone(i) THEN {0} ELSE DOMAIN meant[i].networks) :
                        i \in DOMAIN meant}
Usual(l)    == IF l[2] = 0 THEN Key(GateAlone(meant[l[1]]))
                           ELSE Key(Read(meant[l[1]], meant[l[1]].networks[l[2]]))
Record(l)   == answer[l[1]]
Emptied(l)  == l[2] # 0 /\ Record(l).networks = <<>>
RecordedNetwork(l) == Record(l).networks[l[2]]

(* It reads an asset that came without networks as complete.                   *)
TakenForEmpty(l) == Emptied(l) /\ venue \in Netless \cup {"gate"}

(* It has lost a name that it can do without, of its network or of its coin.  It    *)
(* is then read under the names that are left, which may resolve to another key.    *)
Renamed(l) ==
  \/ \E n \in LongNames : Record(l)[n] # meant[l[1]][n]
  \/ l[2] = 0 /\ Record(l).net # meant[l[1]].net
  \/ l[2] # 0 /\ ~Emptied(l)
     /\ \E n \in Spare : RecordedNetwork(l)[n] # meant[l[1]].networks[l[2]][n]

(* bithumb cannot match it with a status, and takes the only one the coin has, its *)
(* name and its flags.                                                         *)
Borrowed(l) ==
  l[2] # 0 /\ venue = "bithumb" /\ ~Emptied(l)
  /\ (~RecordedNetwork(l).also \/ RecordedNetwork(l).code = NoName)

(* whitebit no longer mentions it.                                             *)
Unmentioned(l) ==
  ~Emptied(l) /\ l[2] # 0 /\ ~Mentioned(RecordedNetwork(l))

(* A missing flag of gate means open; a missing switch of the whole asset, or a *)
(* missing mark that it is delisted, leaves its networks open.                 *)
TakenForOpen(l, d) ==
  \/ venue \in {"binance", "gate"} /\ Record(l)[d] = "none"
  \/ venue \in Delists /\ Record(l).delisted # meant[l[1]].delisted
  \/ venue = "gate" /\ l[2] # 0 /\ ~Emptied(l) /\ RecordedNetwork(l)[d] = "none"

(* A missing flag of the others that read it as false, and bybit's missing fee. *)
TakenForClosed(l, d) ==
  /\ ~Emptied(l) /\ l[2] # 0
  /\ \/ /\ venue \in (Typed \ {"binance", "gate"}) \cup {"bithumb"}
        /\ "none" \in {Record(l)[d], RecordedNetwork(l)[d]}
     \/ venue = "bybit" /\ d = "wd" /\ RecordedNetwork(l).fee = NoAmount

(* What the exchange means.                                                    *)
Open(l, d) ==
  LET a == meant[l[1]]
  IN  /\ venue \in Switched /\ (venue = "gate" => Alone(l[1])) => On(a[d])
      /\ venue \in Delists => ~a.delisted
      /\ l[2] # 0 => On(a.networks[l[2]][d])
      /\ venue = "bybit" /\ d = "wd" => a.networks[l[2]].fee # NoAmount

Directions == {"dep", "wd"}

(* The key of a rail by the names that are left of it, if it is still there. *)
Present(l) == Record(l).name # NoName /\ (Emptied(l) => venue = "gate")
Shown(l) ==
  IF l[2] = 0 \/ Emptied(l) THEN Key(GateAlone(Record(l)))
                            ELSE Key(Read(Record(l), RecordedNetwork(l)))

(* The engine delists what a complete list lacks.  A rail that the exchange still  *)
(* lists is on a complete list, under the key that its names have left it, unless *)
(* its record is taken for empty or whitebit no longer mentions it; and that key  *)
(* is the usual one, unless a name that the adapter can do without is missing, or *)
(* bithumb has given it the status and the name of another network.               *)
ListedRailsAreTold ==
  Fetched /\ complete =>
    \A l \in Listed :
      \/ TakenForEmpty(l) \/ Unmentioned(l)
      \/ /\ Shown(l) \in DOMAIN merged
         /\ Shown(l) = Usual(l) \/ Renamed(l) \/ Borrowed(l)

(* The rails that a key may stand for: its usual ones, and those that it has got by *)
(* a missing name, by another's status or by networks that are missing.         *)
Under(l, k) ==
  \/ Usual(l) = k
  \/ Present(l) /\ Shown(l) = k /\ (Renamed(l) \/ Borrowed(l) \/ TakenForEmpty(l))

(* No list, complete or not, opens a direction of a key that the exchange has       *)
(* closed on each rail of the key, except where a missing field is read as open, or *)
(* where a rail stands there with the status of another network (Borrowed) or of    *)
(* its whole asset (TakenForEmpty).                                                 *)
OpenWasSaid ==
  \A k \in DOMAIN merged, d \in Directions :
    merged[k][d] =>
      \E l \in Listed :
        Under(l, k) /\ (TakenForEmpty(l) \/ Borrowed(l) \/ TakenForOpen(l, d) \/ Open(l, d))

(* A complete list keeps open each direction that the exchange has open, under the *)
(* key of the rail's names, except where a missing field is read as closed, where  *)
(* its record is taken for empty, where whitebit no longer mentions it, or where   *)
(* bithumb gives it the status of another network.                                 *)
ClosedWasSaid ==
  Fetched /\ complete =>
    \A l \in Listed, d \in Directions :
      \/ TakenForClosed(l, d) \/ TakenForEmpty(l) \/ Unmentioned(l) \/ Borrowed(l)
      \/ Open(l, d) => Shown(l) \in DOMAIN merged /\ merged[Shown(l)][d]

(* The fee type of a merged rail names the fees that the rail has.              *)
FeeTypeTellsTheFee ==
  \A k \in DOMAIN merged : merged[k].type = FeeType(merged[k].fee, merged[k].rate)

===============================================================================
