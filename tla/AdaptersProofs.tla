----------------------------- MODULE AdaptersProofs -----------------------------
(***************************************************************************)
(* What FetchRails tells, for every market, every set of adapters and any  *)
(* number of lost or spoiled fields, and what merging does to it.  A list  *)
(* that is complete has told each rail of each record that it read, so a   *)
(* rail that is missing, open or closed against what the exchange means is *)
(* one that some adapter misreads, in a way that Adapters names.  The laws *)
(* of merging come first: what the rails of a key merge to depends neither *)
(* on the order of the answer nor on how often a rail is listed.           *)
(***************************************************************************)
EXTENDS Adapters, SequenceTheorems, TLAPS

-----------------------------------------------------------------------------
(* Merging the rails of a key *)

LEMMA AmountsAreNumbers == NoAmount \notin Nat /\ Amounts \subseteq Nat
  <1>1. \A n \in Nat : n \in Int
    OBVIOUS
  <1>2. QED BY <1>1, AmountAssumption

LEMMA LeastAmount ==
  ASSUME NEW x \in AnyAmount, NEW y \in AnyAmount
  PROVE  /\ MinAmount(x, y) \in AnyAmount
         /\ MinAmount(x, y) = MinAmount(y, x)
         /\ MinAmount(x, x) = x
         /\ MinAmount(x, y) = NoAmount <=> x = NoAmount /\ y = NoAmount
  <1>1. CASE x = NoAmount \/ y = NoAmount
    BY <1>1, AmountsAreNumbers DEF MinAmount, AnyAmount
  <1>2. CASE x \in Nat /\ y \in Nat /\ x # NoAmount /\ y # NoAmount
    BY <1>2, AmountsAreNumbers DEF MinAmount, AnyAmount
  <1>3. QED BY <1>1, <1>2, AmountsAreNumbers DEF AnyAmount

LEMMA LeastOfThree ==
  ASSUME NEW x \in AnyAmount, NEW y \in AnyAmount, NEW z \in AnyAmount
  PROVE  MinAmount(MinAmount(x, y), z) = MinAmount(x, MinAmount(y, z))
  <1>1. CASE x = NoAmount \/ y = NoAmount \/ z = NoAmount
    BY <1>1, LeastAmount DEF MinAmount
  <1>2. CASE x # NoAmount /\ y # NoAmount /\ z # NoAmount
    <2>1. x \in Nat /\ y \in Nat /\ z \in Nat
      BY <1>2, AmountsAreNumbers DEF AnyAmount
    <2>2. QED BY <1>2, <2>1 DEF MinAmount
  <1>3. QED BY <1>1, <1>2

LEMMA MergedType ==
  ASSUME NEW x \in FeeTypes, NEW y \in FeeTypes, NEW z \in FeeTypes
  PROVE  /\ MergeFeeType(x, y) \in FeeTypes
         /\ MergeFeeType(x, y) = MergeFeeType(y, x)
         /\ MergeFeeType(x, x) = x
         /\ MergeFeeType(MergeFeeType(x, y), z) = MergeFeeType(x, MergeFeeType(y, z))
  BY DEF FeeTypes, MergeFeeType

(* mergeRail, field by field. *)
LEMMA MergedTerms ==
  ASSUME NEW r \in Terms, NEW s \in Terms
  PROVE  MergeRail(r, s) \in Terms
  <1>1. /\ r.dep \in BOOLEAN /\ s.dep \in BOOLEAN /\ r.wd \in BOOLEAN /\ s.wd \in BOOLEAN
        /\ r.fee \in AnyAmount /\ s.fee \in AnyAmount /\ r.rate \in AnyAmount /\ s.rate \in AnyAmount
        /\ r.type \in FeeTypes /\ s.type \in FeeTypes
    BY DEF Terms
  <1>2. /\ MinAmount(r.fee, s.fee) \in AnyAmount /\ MinAmount(r.rate, s.rate) \in AnyAmount
        /\ MergeFeeType(r.type, s.type) \in FeeTypes
    BY <1>1, LeastAmount, MergedType
  <1>3. QED BY <1>1, <1>2 DEF Terms, MergeRail

(* It does not matter which of two rails of a key the exchange lists first.  *)
THEOREM MergeCommutes ==
  \A r, s \in Terms : MergeRail(r, s) = MergeRail(s, r)
  <1>1. TAKE r, s \in Terms
  <1>2. /\ MinAmount(r.fee, s.fee) = MinAmount(s.fee, r.fee)
        /\ MinAmount(r.rate, s.rate) = MinAmount(s.rate, r.rate)
        /\ MergeFeeType(r.type, s.type) = MergeFeeType(s.type, r.type)
    BY LeastAmount, MergedType DEF Terms
  <1>3. (r.dep \/ s.dep) = (s.dep \/ r.dep) /\ (r.wd \/ s.wd) = (s.wd \/ r.wd)
    OBVIOUS
  <1>4. QED BY <1>2, <1>3 DEF MergeRail

(* Nor in which order any number of them is folded.                          *)
THEOREM MergeAssociates ==
  \A r, s, t \in Terms : MergeRail(MergeRail(r, s), t) = MergeRail(r, MergeRail(s, t))
  <1>1. TAKE r, s, t \in Terms
  <1>2. /\ MinAmount(MinAmount(r.fee, s.fee), t.fee) = MinAmount(r.fee, MinAmount(s.fee, t.fee))
        /\ MinAmount(MinAmount(r.rate, s.rate), t.rate)
             = MinAmount(r.rate, MinAmount(s.rate, t.rate))
    BY LeastOfThree DEF Terms
  <1>3. MergeFeeType(MergeFeeType(r.type, s.type), t.type)
          = MergeFeeType(r.type, MergeFeeType(s.type, t.type))
    BY MergedType DEF Terms
  <1>4. /\ ((r.dep \/ s.dep) \/ t.dep) = (r.dep \/ (s.dep \/ t.dep))
        /\ ((r.wd \/ s.wd) \/ t.wd) = (r.wd \/ (s.wd \/ t.wd))
    OBVIOUS
  <1>5. QED BY <1>2, <1>3, <1>4 DEF MergeRail

(* A rail that is listed twice counts once. *)
THEOREM MergeIsIdempotent ==
  \A r \in Terms : MergeRail(r, r) = r
  <1>1. TAKE r \in Terms
  <1>2. /\ MinAmount(r.fee, r.fee) = r.fee /\ MinAmount(r.rate, r.rate) = r.rate
        /\ MergeFeeType(r.type, r.type) = r.type
    BY LeastAmount, MergedType DEF Terms
  <1>3. (r.dep \/ r.dep) = r.dep /\ (r.wd \/ r.wd) = r.wd
    BY DEF Terms
  <1>4. r = [dep |-> r.dep, wd |-> r.wd, fee |-> r.fee, rate |-> r.rate, type |-> r.type]
    BY DEF Terms
  <1>5. QED BY <1>2, <1>3, <1>4 DEF MergeRail

(* The adapters set the type by the fees that they read (FeeType).  Merging  *)
(* keeps it so, although it never looks at the fees when it merges the type: *)
(* estimates, which go by the type, then leave out no part of the fee.       *)
THEOREM MergeKeepsTheFeeType ==
  \A r, s \in Terms :
    r.type = FeeType(r.fee, r.rate) /\ s.type = FeeType(s.fee, s.rate)
    => LET sum == MergeRail(r, s) IN sum.type = FeeType(sum.fee, sum.rate)
  <1>1. TAKE r, s \in Terms
  <1>2. HAVE r.type = FeeType(r.fee, r.rate) /\ s.type = FeeType(s.fee, s.rate)
  <1>3. /\ MinAmount(r.fee, s.fee) = NoAmount <=> r.fee = NoAmount /\ s.fee = NoAmount
        /\ MinAmount(r.rate, s.rate) = NoAmount <=> r.rate = NoAmount /\ s.rate = NoAmount
    BY LeastAmount DEF Terms
  <1>4. MergeFeeType(FeeType(r.fee, r.rate), FeeType(s.fee, s.rate))
          = FeeType(MinAmount(r.fee, s.fee), MinAmount(r.rate, s.rate))
    BY <1>3 DEF FeeType, MergeFeeType
  <1>5. QED BY <1>2, <1>4 DEF MergeRail

-----------------------------------------------------------------------------
(* Sequences and the sets of their elements *)

LEMMA Elements ==
  ASSUME NEW S, NEW s \in Seq(S)
  PROVE  /\ ToSet(s) \subseteq S
         /\ \A i \in DOMAIN s : s[i] \in ToSet(s) /\ s[i] \in S
         /\ \A x \in ToSet(s) : \E i \in DOMAIN s : x = s[i]
  BY DEF ToSet

LEMMA NoElements == ToSet(<<>>) = {}
  BY EmptySeq DEF ToSet

LEMMA HeadAndTail ==
  ASSUME NEW S, NEW s \in Seq(S), s # <<>>
  PROVE  /\ Head(s) \in S /\ Tail(s) \in Seq(S)
         /\ ToSet(s) = {Head(s)} \cup ToSet(Tail(s))
  <1>1. Len(s) \in Nat /\ Len(s) # 0 /\ DOMAIN s = 1..Len(s)
    BY EmptySeq
  <1>2. /\ Head(s) = s[1] /\ Tail(s) \in Seq(S) /\ Len(Tail(s)) = Len(s) - 1
        /\ \A i \in 1..Len(s) - 1 : Tail(s)[i] = s[i + 1]
    BY <1>1, HeadTailProperties
  <1>3. DOMAIN Tail(s) = 1..Len(s) - 1
    BY <1>1, <1>2
  <1>4. ASSUME NEW x \in ToSet(s) PROVE x = Head(s) \/ x \in ToSet(Tail(s))
    <2>1. PICK i \in 1..Len(s) : x = s[i]
      BY <1>1 DEF ToSet
    <2>2. CASE i = 1
      BY <2>1, <2>2, <1>2
    <2>3. CASE i # 1
      <3>1. i - 1 \in 1..Len(s) - 1 /\ (i - 1) + 1 = i
        BY <2>1, <2>3, <1>1
      <3>2. x = Tail(s)[i - 1]
        BY <2>1, <3>1, <1>2
      <3>3. QED BY <3>1, <3>2, <1>3 DEF ToSet
    <2>4. QED BY <2>2, <2>3
  <1>5. ASSUME NEW x \in ToSet(Tail(s)) PROVE x \in ToSet(s)
    <2>1. PICK i \in 1..Len(s) - 1 : x = Tail(s)[i]
      BY <1>3 DEF ToSet
    <2>2. x = s[i + 1] /\ i + 1 \in 1..Len(s)
      BY <2>1, <1>1, <1>2
    <2>3. QED BY <2>2, <1>1 DEF ToSet
  <1>6. Head(s) \in ToSet(s) /\ Head(s) \in S
    <2>1. 1 \in 1..Len(s)
      BY <1>1
    <2>2. QED BY <2>1, <1>1, <1>2 DEF ToSet
  <1>7. QED BY <1>2, <1>4, <1>5, <1>6

LEMMA Appended ==
  ASSUME NEW S, NEW s \in Seq(S), NEW t \in Seq(S)
  PROVE  s \o t \in Seq(S) /\ ToSet(s \o t) = ToSet(s) \cup ToSet(t)
  <1>1. /\ s \o t \in Seq(S) /\ Len(s \o t) = Len(s) + Len(t)
        /\ DOMAIN (s \o t) = 1..Len(s) + Len(t) /\ Len(s) \in Nat /\ Len(t) \in Nat
        /\ DOMAIN s = 1..Len(s) /\ DOMAIN t = 1..Len(t)
    BY ConcatProperties
  <1>2. \A i \in 1..Len(s) + Len(t) : (s \o t)[i] = IF i <= Len(s) THEN s[i] ELSE t[i - Len(s)]
    BY ConcatProperties
  <1>3. ASSUME NEW x \in ToSet(s \o t) PROVE x \in ToSet(s) \/ x \in ToSet(t)
    <2>1. PICK i \in 1..Len(s) + Len(t) : x = (s \o t)[i]
      BY <1>1 DEF ToSet
    <2>2. CASE i <= Len(s)
      <3>1. i \in 1..Len(s) /\ x = s[i]
        BY <2>1, <2>2, <1>1, <1>2
      <3>2. QED BY <3>1, <1>1 DEF ToSet
    <2>3. CASE ~(i <= Len(s))
      <3>1. i - Len(s) \in 1..Len(t) /\ x = t[i - Len(s)]
        BY <2>1, <2>3, <1>1, <1>2
      <3>2. QED BY <3>1, <1>1 DEF ToSet
    <2>4. QED BY <2>2, <2>3
  <1>4. ASSUME NEW x \in ToSet(s) PROVE x \in ToSet(s \o t)
    <2>1. PICK i \in 1..Len(s) : x = s[i]
      BY <1>1 DEF ToSet
    <2>2. i \in 1..Len(s) + Len(t) /\ x = (s \o t)[i]
      BY <2>1, <1>1, <1>2
    <2>3. QED BY <2>2, <1>1 DEF ToSet
  <1>5. ASSUME NEW x \in ToSet(t) PROVE x \in ToSet(s \o t)
    <2>1. PICK i \in 1..Len(t) : x = t[i]
      BY <1>1 DEF ToSet
    <2>2. /\ Len(s) + i \in 1..Len(s) + Len(t) /\ ~(Len(s) + i <= Len(s))
          /\ (Len(s) + i) - Len(s) = i
      BY <2>1, <1>1
    <2>3. x = (s \o t)[Len(s) + i]
      BY <2>1, <2>2, <1>2
    <2>4. QED BY <2>2, <2>3, <1>1 DEF ToSet
  <1>6. QED BY <1>1, <1>3, <1>4, <1>5

-----------------------------------------------------------------------------
(* What an adapter makes of one network *)

Call ==
  [coin : Coins, title : Titles, symbol : Tags, name : Tags, id : Tags, address : Names]

(* What a snapshot is: its rail's type tells the fees that it has.           *)
Snapshot ==
  {r \in [called : Call, sure : BOOLEAN, rail : Terms] :
     r.rail.type = FeeType(r.rail.fee, r.rail.rate)}

LEMMA RowIsSnapshot ==
  ASSUME NEW called \in Call, NEW dep \in BOOLEAN, NEW wd \in BOOLEAN,
         NEW fee \in AnyAmount, NEW rate \in AnyAmount, NEW sure \in BOOLEAN
  PROVE  Row(called, dep, wd, fee, rate, sure) \in Snapshot
  <1>1. FeeType(fee, rate) \in FeeTypes
    BY DEF FeeType, FeeTypes
  <1>2. QED BY <1>1 DEF Row, Snapshot, Terms

LEMMA NamesAreCalled ==
  ASSUME NEW coin \in Coins, NEW title \in Titles, NEW symbol \in Tags, NEW name \in Tags,
         NEW id \in Tags, NEW address \in Names
  PROVE  Called(coin, title, symbol, name, id, address) \in Call
  BY DEF Called, Call

LEMMA PlainlyCalled ==
  ASSUME NEW coin \in Coins, NEW title \in Titles, NEW net \in Tags
  PROVE  Plainly(coin, title, net) \in Call
  BY NamesAreCalled DEF Plainly, Names

LEMMA AmountsRead ==
  ASSUME NEW x \in Amount
  PROVE  x \in AnyAmount /\ NonZero(x) \in AnyAmount /\ Percent(x) \in AnyAmount
  <1>1. CASE x = NoAmount
    BY <1>1, AmountsAreNumbers DEF AnyAmount, NonZero, Percent
  <1>2. CASE x \in Nat /\ x # NoAmount
    <2>1. 100 * x \in Nat
      BY <1>2
    <2>2. QED BY <1>2, <2>1 DEF AnyAmount, NonZero, Percent
  <1>3. QED BY <1>1, <1>2, AmountsAreNumbers DEF Amount

LEMMA FieldsRead ==
  ASSUME NEW a \in Asset, a.name # NoName
  PROVE  /\ a.name \in Coins /\ a.title \in Titles /\ a.other \in Titles
         /\ a.net \in Names /\ a.delisted \in BOOLEAN /\ a.networks \in Seq(Network)
         /\ \A n \in Names : ShortName[a.name][n] \in Coins /\ WrappedAs[a.name][n] \in Coins
         /\ \A n \in Names : BareNet[a.name][n] \in Names
         /\ NoName \in Names /\ Names \subseteq Tags /\ Coins \subseteq Titles /\ Coins \subseteq Tags
  <1>1. a.name \in Coins
    BY DEF Asset, Titles
  <1>2. /\ NoName \in Names /\ Names \subseteq Tags /\ Coins \subseteq Titles
        /\ Coins \subseteq Tags
    BY DEF Names, Tags, Titles
  <1>3. /\ \A n \in Names : ShortName[a.name][n] \in Coins /\ WrappedAs[a.name][n] \in Coins
        /\ \A n \in Names : BareNet[a.name][n] \in Names
    BY <1>1, AdapterAssumption
  <1>4. QED BY <1>1, <1>2, <1>3 DEF Asset

LEMMA StatusIsNetwork ==
  ASSUME NEW a \in Asset, NEW c \in Network, StatusOf(a, c) # {}
  PROVE  (CHOOSE d \in StatusOf(a, c) : TRUE) \in Network
  <1>1. \A j \in DOMAIN a.networks : a.networks[j] \in Network
    BY DEF Asset
  <1>2. StatusOf(a, c) \subseteq Network
    BY <1>1 DEF StatusOf
  <1>3. QED BY <1>2

LEMMA GateIsSnapshot ==
  ASSUME NEW a \in Asset, a.name # NoName, NEW net \in Tags, NEW dep, NEW wd
  PROVE  GateStatus(a, net, dep, wd) \in Snapshot
  <1>1. NoAmount \in AnyAmount
    BY DEF AnyAmount
  <1>2. (~a.delisted /\ dep # "off") \in BOOLEAN /\ (~a.delisted /\ wd # "off") \in BOOLEAN
    OBVIOUS
  <1>3. PICK coin \in Coins : coin = ShortName[a.name][NoName]
    BY FieldsRead
  <1>4. First(a.title, coin) \in Titles
    BY FieldsRead DEF First
  <1>5. Plainly(coin, First(a.title, coin), net) \in Call
    BY <1>4, PlainlyCalled
  <1>6. QED BY <1>1, <1>2, <1>3, <1>5, RowIsSnapshot DEF GateStatus

(* The names that each adapter gives a network. *)
LEMMA CallsAreRead ==
  ASSUME NEW a \in Asset, a.name # NoName, NEW c \in Network
  PROVE  /\ Called(a.name, a.title, c.net, First(c.label, c.net), c.net, NoName) \in Call
         /\ Called(a.name, a.title, c.net, c.label, c.net, c.address) \in Call
         /\ Called(a.name, NoName, c.net, c.label, c.net, NoName) \in Call
         /\ Called(a.name, a.title, c.net, c.net, c.net, c.address) \in Call
         /\ \A n \in Names : Called(a.name, a.title, n, c.net, n, NoName) \in Call
         /\ \A n \in Names : Called(a.name, a.title, n, n, c.net, c.address) \in Call
         /\ Plainly(a.name, a.title, c.net) \in Call
         /\ Plainly(a.name, a.name, c.net) \in Call
         /\ Plainly(a.name, First(a.title, a.name), c.net) \in Call
         /\ HtxNames(a, c) \in Call
  <1>1. /\ c.net \in Names /\ c.code \in Names /\ c.label \in Names /\ c.display \in Names
        /\ c.protocol \in Names /\ c.address \in Names
    BY DEF Network
  <1>2. First(c.label, c.net) \in Names /\ First(a.title, a.name) \in Titles /\ NoName \in Titles
    BY <1>1, FieldsRead DEF First, Titles
  <1>3. HtxNames(a, c) \in Call
    <2>1. PICK chain \in Names : chain = First(c.net, First(c.display, First(c.protocol, c.code)))
      BY <1>1 DEF First
    <2>2. PICK coin \in Coins :
            coin = Wrapped(a.name, c.label, Wrapped(a.name, c.display, WrappedAs[a.name][c.code]))
      <3>1. \A n \in Names, x \in Coins : Wrapped(a.name, n, x) \in Coins
        BY FieldsRead DEF Wrapped
      <3>2. QED BY <1>1, <3>1, FieldsRead
    <2>3. First(c.label, First(c.display, chain)) \in Names /\ First(c.code, chain) \in Names
      BY <1>1, <2>1 DEF First
    <2>4. Called(coin, a.name, chain, First(c.label, First(c.display, chain)),
                 First(c.code, chain), NoName) \in Call
      BY <2>3, FieldsRead, NamesAreCalled
    <2>5. QED BY <2>1, <2>2, <2>4 DEF HtxNames
  <1>4. QED BY <1>1, <1>2, <1>3, FieldsRead, NamesAreCalled, PlainlyCalled

LEMMA ReadIsSnapshot ==
  ASSUME venue \in Venues, NEW a \in Asset, a.name # NoName, NEW c \in Network
  PROVE  Read(a, c) \in Snapshot
  <1>1. c.net \in Tags /\ c.net \in Names /\ a.name \in Coins
    BY FieldsRead DEF Network
  <1>2. /\ c.fee \in AnyAmount /\ c.rate \in AnyAmount /\ NoAmount \in AnyAmount
        /\ NonZero(c.rate) \in AnyAmount /\ Percent(c.rate) \in AnyAmount
    BY AmountsRead DEF Network, AnyAmount
  <1>3. /\ \A x, y : (x # "off" /\ On(y)) \in BOOLEAN
        /\ \A x, y : (On(x) /\ On(y)) \in BOOLEAN
        /\ \A x : On(x) \in BOOLEAN /\ (On(x) /\ c.fee # NoAmount) \in BOOLEAN
        /\ \A x : (On(x) /\ ~a.delisted) \in BOOLEAN
        /\ Sure(c) \in BOOLEAN /\ \A x : (Sure(c) /\ On(x)) \in BOOLEAN
    BY DEF On, Sure, Clear
  <1>4. Binance(a, c) \in Snapshot
    BY <1>2, <1>3, CallsAreRead, RowIsSnapshot DEF Binance
  <1>5. Bybit(a, c) \in Snapshot
    BY <1>2, <1>3, CallsAreRead, RowIsSnapshot DEF Bybit
  <1>6. Okx(a, c) \in Snapshot
    <2>1. PICK bare \in Names : bare = BareNet[a.name][c.net]
      BY <1>1, FieldsRead
    <2>2. Called(a.name, a.title, bare, bare, c.net, c.address) \in Call
      BY CallsAreRead
    <2>3. QED BY <1>2, <1>3, <2>1, <2>2, RowIsSnapshot DEF Okx
  <1>7. Upbit(a, c) \in Snapshot
    BY <1>2, <1>3, CallsAreRead, RowIsSnapshot DEF Upbit
  <1>8. Htx(a, c) \in Snapshot
    BY <1>2, <1>3, CallsAreRead, RowIsSnapshot DEF Htx
  <1>9. Bitget(a, c) \in Snapshot
    BY <1>2, <1>3, CallsAreRead, RowIsSnapshot DEF Bitget
  <1>10. Kucoin(a, c) \in Snapshot
    <2>1. PICK chain \in Names : chain = First(c.net, c.code)
      BY DEF First, Network
    <2>2. First(a.title, a.other) \in Titles /\ First(c.code, chain) \in Names /\ c.address \in Names
      BY FieldsRead DEF First, Network
    <2>3. Called(a.name, First(a.title, a.other), chain, chain, First(c.code, chain), c.address) \in Call
      BY <1>1, <2>2, FieldsRead, NamesAreCalled
    <2>4. QED BY <1>2, <1>3, <2>1, <2>3, RowIsSnapshot DEF Kucoin
  <1>11. Gate(a, c) \in Snapshot
    BY <1>1, GateIsSnapshot DEF Gate
  <1>12. Coinex(a, c) \in Snapshot
    BY <1>2, <1>3, CallsAreRead, RowIsSnapshot DEF Coinex
  <1>13. Whitebit(a, c) \in Snapshot
    BY <1>2, <1>3, CallsAreRead, RowIsSnapshot DEF Whitebit
  <1>14. Bitmart(a, c) \in Snapshot
    <2>1. PICK coin \in Coins : coin = ShortName[a.name][c.net]
      BY <1>1, FieldsRead
    <2>2. PICK title \in Titles :
            title = IF a.title = NoName THEN coin ELSE ShortName[a.title][c.net]
      <3>1. a.title \in Titles /\ Titles = Coins \cup {NoName}
        BY FieldsRead DEF Titles
      <3>2. \A x \in Coins, n \in Names : ShortName[x][n] \in Coins
        BY AdapterAssumption
      <3>3. QED BY <1>1, <2>1, <3>1, <3>2
    <2>3. Plainly(coin, title, c.net) \in Call
      BY <1>1, PlainlyCalled
    <2>4. QED BY <1>2, <1>3, <2>1, <2>2, <2>3, RowIsSnapshot DEF Bitmart
  <1>15. Bithumb(a, c) \in Snapshot
    <2>1. CASE StatusOf(a, c) = {}
      BY <2>1, <1>2, CallsAreRead, RowIsSnapshot DEF Bithumb
    <2>2. CASE StatusOf(a, c) # {}
      <3>1. PICK d \in Network :
              Bithumb(a, c) = Row(Called(a.name, a.title, d.code, c.net, d.code, NoName),
                                  On(d.dep), On(d.wd), c.fee, c.rate,
                                  d.dep # "odd" /\ d.wd # "odd")
        BY <2>2, StatusIsNetwork DEF Bithumb
      <3>2. Called(a.name, a.title, d.code, c.net, d.code, NoName) \in Call
        BY CallsAreRead DEF Network
      <3>3. /\ (d.dep # "odd" /\ d.wd # "odd") \in BOOLEAN
            /\ On(d.dep) \in BOOLEAN /\ On(d.wd) \in BOOLEAN
        BY DEF On
      <3>4. Row(Called(a.name, a.title, d.code, c.net, d.code, NoName), On(d.dep), On(d.wd),
                c.fee, c.rate, d.dep # "odd" /\ d.wd # "odd") \in Snapshot
        BY <3>2, <3>3, <1>2, RowIsSnapshot
      <3>5. QED BY <3>1, <3>4
    <2>3. QED BY <2>1, <2>2
  <1>16. venue \in Adapter
    BY AdapterAssumption
  <1>17. QED
    BY <1>4, <1>5, <1>6, <1>7, <1>8, <1>9, <1>10, <1>11, <1>12, <1>13, <1>14, <1>15, <1>16
    DEF Read, Adapter

LEMMA AloneIsSnapshot ==
  ASSUME NEW a \in Asset, a.name # NoName
  PROVE  GateAlone(a) \in Snapshot
  <1>1. First(a.net, a.name) \in Tags
    BY FieldsRead DEF First
  <1>2. QED BY <1>1, GateIsSnapshot DEF GateAlone

-----------------------------------------------------------------------------
(* Types *)

Types ==
  /\ venue \in Venues
  /\ phase \in {"asking", "reading", "merging", "failed"}
  /\ meant \in Seq(Asset) /\ answer \in Seq(Asset)
  /\ assets \in Seq(Asset) /\ networks \in Seq(Network)
  /\ rows \in Seq(Snapshot) /\ complete \in BOOLEAN
  /\ left \in Seq(Snapshot)
  /\ merged \in [DOMAIN merged -> Terms]

(* The exchange.  What is left of a network and of an asset that it means.   *)
NameFields == {"net", "code", "label", "display", "protocol", "address"}

Lost(c, d) ==
  /\ \A n \in NameFields : c[n] \in {d[n], NoName}
  /\ c.dep \in {d.dep, "none", "odd"} /\ c.wd \in {d.wd, "none", "odd"}
  /\ c.fee \in {d.fee, NoAmount}
  /\ c.also => d.also

LostAsset(a, b) ==
  /\ \A n \in {"name", "title", "other", "net"} : a[n] \in {b[n], NoName}
  /\ a.dep \in {b.dep, "none", "odd"} /\ a.wd \in {b.wd, "none", "odd"}
  /\ a.delisted => b.delisted
  /\ a.networks # <<>> =>
       /\ DOMAIN a.networks = DOMAIN b.networks
       /\ \A j \in DOMAIN b.networks : Lost(a.networks[j], b.networks[j])

AnswerFits ==
  /\ DOMAIN answer = DOMAIN meant
  /\ \A i \in DOMAIN meant : LostAsset(answer[i], meant[i])

(* The reader.  What a network and an asset have become, once they are told. *)
NetworkTold(a, c) ==
  Mentioned(c) => Read(a, c) \in ToSet(rows) /\ Named(c) /\ Read(a, c).sure

AssetTold(a) ==
  /\ a.name # NoName
  /\ a.networks = <<>> =>
       venue \in Netless \/ (venue = "gate" /\ GateAlone(a) \in ToSet(rows))
  /\ \A c \in ToSet(a.networks) : NetworkTold(a, c)

(* Where a row comes from.                                                   *)
ReadFrom(a, r) ==
  /\ a.name # NoName
  /\ \/ venue = "gate" /\ a.networks = <<>> /\ r = GateAlone(a)
     \/ \E c \in ToSet(a.networks) : Mentioned(c) /\ Named(c) /\ r = Read(a, c)

(* Between its steps, the reader is within the first asset that it has left. *)
Place ==
  /\ ToSet(assets) \subseteq ToSet(answer)
  /\ networks # <<>> =>
       /\ assets # <<>> /\ Head(assets).name # NoName
       /\ ToSet(networks) \subseteq ToSet(Head(assets).networks)

(* Whatever a list that is complete has behind it, it has told.              *)
Behind ==
  complete =>
    /\ \A a \in ToSet(answer) : a \in ToSet(assets) \/ AssetTold(a)
    /\ networks # <<>> =>
         \A c \in ToSet(Head(assets).networks) :
           c \in ToSet(networks) \/ NetworkTold(Head(assets), c)

Sourced == \A r \in ToSet(rows) : \E a \in ToSet(answer) : ReadFrom(a, r)

Reading ==
  /\ phase = "asking" => assets = <<>> /\ networks = <<>> /\ rows = <<>>
  /\ phase = "failed" => assets = <<>> /\ networks = <<>> /\ rows = <<>> /\ ~complete
  /\ phase = "merging" => assets = <<>> /\ networks = <<>>
  /\ phase \in {"reading", "merging"} => Decodable /\ Place /\ Behind
  /\ Sourced

(* The merger.  A rail that is merged has what a row of its key brought, and *)
(* all that the rows that are not left have brought.                         *)
Brought(k, d) == \E r \in ToSet(rows) : Key(r) = k /\ r.rail[d]

Merging ==
  /\ phase # "merging" => left = <<>> /\ DOMAIN merged = {}
  /\ ToSet(left) \subseteq ToSet(rows)
  /\ phase = "merging" =>
       \A r \in ToSet(rows) : r \in ToSet(left) \/
         /\ Key(r) \in DOMAIN merged
         /\ \A d \in Directions : r.rail[d] => merged[Key(r)][d]
  /\ \A k \in DOMAIN merged :
       /\ \E r \in ToSet(rows) : Key(r) = k
       /\ \A d \in Directions : merged[k][d] => Brought(k, d)
       /\ merged[k].type = FeeType(merged[k].fee, merged[k].rate)

IInv == Types /\ AnswerFits /\ Reading /\ Merging

LEMMA InitInv == Init => IInv
  <1> SUFFICES ASSUME Init PROVE IInv
    OBVIOUS
  <1>1. meant \in Seq(Asset)
    BY AdapterAssumption DEF Init
  <1>2. Types
    <2>1. /\ assets \in Seq(Asset) /\ networks \in Seq(Network) /\ rows \in Seq(Snapshot)
          /\ left \in Seq(Snapshot)
      BY EmptySeq DEF Init
    <2>2. merged \in [DOMAIN merged -> Terms]
      BY DEF Init
    <2>3. QED BY <1>1, <2>1, <2>2 DEF Init, Types
  <1>3. AnswerFits
    BY DEF Init, AnswerFits, LostAsset, Lost
  <1>4. Reading
    BY NoElements DEF Init, Reading, Sourced
  <1>5. Merging
    BY NoElements DEF Init, Merging
  <1>6. QED BY <1>2, <1>3, <1>4, <1>5 DEF IInv

-----------------------------------------------------------------------------
(* What the exchange loses *)

LEMMA Unchanged ==
  ASSUME venue' = venue
  PROVE  /\ \A a, c : Read(a, c)' = Read(a, c)
         /\ \A c : Mentioned(c)' = Mentioned(c) /\ Named(c)' = Named(c)
  BY DEF Read, Mentioned, Named, Leading

LEMMA UnchangedSource ==
  ASSUME venue' = venue
  PROVE  \A a, r : ReadFrom(a, r)' = ReadFrom(a, r)
  BY Unchanged DEF ReadFrom

LEMMA SlipKeepsIInv ==
  ASSUME IInv, NEW i \in DOMAIN answer, NEW a \in Asset, LostAsset(a, meant[i]),
         Slip([answer EXCEPT ![i] = a])
  PROVE  IInv'
  <1>1. /\ answer \in Seq(Asset) /\ answer' = [answer EXCEPT ![i] = a] /\ phase = "asking"
        /\ UNCHANGED <<venue, meant, phase, assets, networks, rows, complete, left, merged>>
    BY DEF IInv, Types, Slip, told, merger
  <1>2. answer' \in Seq(Asset) /\ DOMAIN answer' = DOMAIN answer
    BY <1>1, ExceptSeq
  <1>3. Types'
    BY <1>1, <1>2 DEF IInv, Types
  <1>4. AnswerFits'
    <2>1. ASSUME NEW n \in DOMAIN meant PROVE LostAsset(answer'[n], meant[n])
      BY <1>1 DEF IInv, AnswerFits
    <2>2. QED BY <1>1, <1>2, <2>1 DEF IInv, AnswerFits
  <1>5. Reading'
    BY <1>1, NoElements DEF IInv, Reading, Sourced
  <1>6. Merging'
    BY <1>1 DEF IInv, Merging, Brought
  <1>7. QED BY <1>3, <1>4, <1>5, <1>6 DEF IInv

LEMMA SpoilAssetKeepsIInv ==
  ASSUME IInv, NEW i \in DOMAIN answer, SpoilAsset(i)
  PROVE  IInv'
  <1> DEFINE a == answer[i]
  <1>1. a \in Asset /\ LostAsset(a, meant[i])
    BY Elements DEF IInv, Types, AnswerFits
  <1>2. ASSUME NEW n \in LongNames \cup {"name"}, Slip([answer EXCEPT ![i][n] = NoName]) PROVE IInv'
    <2>1. n \in {"name", "title", "other"}
      BY DEF LongNames
    <2>2. [a EXCEPT ![n] = NoName] \in Asset
      BY <1>1, <2>1 DEF Asset, Titles
    <2>3. LostAsset([a EXCEPT ![n] = NoName], meant[i])
      BY <1>1, <2>1 DEF LostAsset, Asset
    <2>4. [answer EXCEPT ![i][n] = NoName] = [answer EXCEPT ![i] = [a EXCEPT ![n] = NoName]]
      OBVIOUS
    <2>5. QED BY <1>2, <2>2, <2>3, <2>4, SlipKeepsIInv
  <1>8. ASSUME Slip([answer EXCEPT ![i].net = NoName]) PROVE IInv'
    <2>1. [a EXCEPT !.net = NoName] \in Asset /\ LostAsset([a EXCEPT !.net = NoName], meant[i])
      BY <1>1 DEF Asset, LostAsset, Names
    <2>2. [answer EXCEPT ![i].net = NoName] = [answer EXCEPT ![i] = [a EXCEPT !.net = NoName]]
      OBVIOUS
    <2>3. QED BY <1>8, <2>1, <2>2, SlipKeepsIInv
  <1>3. ASSUME Slip([answer EXCEPT ![i].networks = <<>>]) PROVE IInv'
    <2>1. [a EXCEPT !.networks = <<>>] \in Asset /\ LostAsset([a EXCEPT !.networks = <<>>], meant[i])
      BY <1>1, EmptySeq DEF Asset, LostAsset
    <2>2. [answer EXCEPT ![i].networks = <<>>] = [answer EXCEPT ![i] = [a EXCEPT !.networks = <<>>]]
      OBVIOUS
    <2>3. QED BY <1>3, <2>1, <2>2, SlipKeepsIInv
  <1>4. ASSUME Slip([answer EXCEPT ![i].delisted = FALSE]) PROVE IInv'
    <2>1. [a EXCEPT !.delisted = FALSE] \in Asset /\ LostAsset([a EXCEPT !.delisted = FALSE], meant[i])
      BY <1>1 DEF Asset, LostAsset
    <2>2. [answer EXCEPT ![i].delisted = FALSE] = [answer EXCEPT ![i] = [a EXCEPT !.delisted = FALSE]]
      OBVIOUS
    <2>3. QED BY <1>4, <2>1, <2>2, SlipKeepsIInv
  <1>5. ASSUME NEW flag \in {"none", "odd"}, Slip([answer EXCEPT ![i]["dep"] = flag]) PROVE IInv'
    <2>1. [a EXCEPT !.dep = flag] \in Asset /\ LostAsset([a EXCEPT !.dep = flag], meant[i])
      BY <1>1 DEF Asset, LostAsset, Flags
    <2>2. [answer EXCEPT ![i]["dep"] = flag] = [answer EXCEPT ![i] = [a EXCEPT !.dep = flag]]
      OBVIOUS
    <2>3. QED BY <1>5, <2>1, <2>2, SlipKeepsIInv
  <1>6. ASSUME NEW flag \in {"none", "odd"}, Slip([answer EXCEPT ![i]["wd"] = flag]) PROVE IInv'
    <2>1. [a EXCEPT !.wd = flag] \in Asset /\ LostAsset([a EXCEPT !.wd = flag], meant[i])
      BY <1>1 DEF Asset, LostAsset, Flags
    <2>2. [answer EXCEPT ![i]["wd"] = flag] = [answer EXCEPT ![i] = [a EXCEPT !.wd = flag]]
      OBVIOUS
    <2>3. QED BY <1>6, <2>1, <2>2, SlipKeepsIInv
  <1>7. QED BY <1>2, <1>3, <1>4, <1>5, <1>6, <1>8 DEF SpoilAsset

LEMMA SlipNetworkKeepsIInv ==
  ASSUME IInv, NEW i \in DOMAIN answer, NEW j \in DOMAIN answer[i].networks,
         NEW c \in Network, Lost(c, meant[i].networks[j]),
         Slip([answer EXCEPT ![i].networks[j] = c])
  PROVE  IInv'
  <1> DEFINE a == answer[i]
             b == [a EXCEPT !.networks = [a.networks EXCEPT ![j] = c]]
  <1>1. a \in Asset /\ LostAsset(a, meant[i])
    BY Elements DEF IInv, Types, AnswerFits
  <1>2. a.networks \in Seq(Network) /\ a.networks # <<>>
    BY <1>1, EmptySeq DEF Asset
  <1>3. /\ [a.networks EXCEPT ![j] = c] \in Seq(Network)
        /\ DOMAIN [a.networks EXCEPT ![j] = c] = DOMAIN a.networks
    BY <1>2, ExceptSeq
  <1>4. b \in Asset
    BY <1>1, <1>3 DEF Asset
  <1>5. LostAsset(b, meant[i])
    <2>1. ASSUME NEW n \in DOMAIN meant[i].networks
          PROVE  Lost([a.networks EXCEPT ![j] = c][n], meant[i].networks[n])
      BY <1>1, <1>2 DEF LostAsset
    <2>2. QED BY <1>1, <1>2, <1>3, <2>1 DEF LostAsset, Asset
  <1>6. [answer EXCEPT ![i].networks[j] = c] = [answer EXCEPT ![i] = b]
    OBVIOUS
  <1>7. QED BY <1>4, <1>5, <1>6, SlipKeepsIInv

LEMMA SpoilNetworkKeepsIInv ==
  ASSUME IInv, NEW i \in DOMAIN answer, NEW j \in DOMAIN answer[i].networks, SpoilNetwork(i, j)
  PROVE  IInv'
  <1> DEFINE c == answer[i].networks[j]
             d == meant[i].networks[j]
  <1>1. c \in Network /\ Lost(c, d)
    <2>1. answer[i] \in Asset /\ LostAsset(answer[i], meant[i])
      BY Elements DEF IInv, Types, AnswerFits
    <2>2. answer[i].networks \in Seq(Network) /\ answer[i].networks # <<>>
      BY <2>1, EmptySeq DEF Asset
    <2>3. QED BY <2>1, <2>2, Elements DEF LostAsset
  <1>2. ASSUME NEW n \in NetNames, Slip([answer EXCEPT ![i].networks[j][n] = NoName]) PROVE IInv'
    <2>1. n \in NameFields
      BY DEF NetNames, NameFields
    <2>2. [c EXCEPT ![n] = NoName] \in Network
      BY <1>1, <2>1 DEF Network, Names, NameFields
    <2>3. Lost([c EXCEPT ![n] = NoName], d)
      BY <1>1, <2>1 DEF Lost, NameFields, Network
    <2>4. [answer EXCEPT ![i].networks[j][n] = NoName]
            = [answer EXCEPT ![i].networks[j] = [c EXCEPT ![n] = NoName]]
      OBVIOUS
    <2>5. QED BY <1>2, <2>2, <2>3, <2>4, SlipNetworkKeepsIInv
  <1>4. ASSUME NEW flag \in {"none", "odd"}, Slip([answer EXCEPT ![i].networks[j]["dep"] = flag])
        PROVE  IInv'
    <2>1. [c EXCEPT !.dep = flag] \in Network /\ Lost([c EXCEPT !.dep = flag], d)
      BY <1>1 DEF Network, NameFields, Lost, Flags
    <2>2. [answer EXCEPT ![i].networks[j]["dep"] = flag]
            = [answer EXCEPT ![i].networks[j] = [c EXCEPT !.dep = flag]]
      OBVIOUS
    <2>3. QED BY <1>4, <2>1, <2>2, SlipNetworkKeepsIInv
  <1>5. ASSUME NEW flag \in {"none", "odd"}, Slip([answer EXCEPT ![i].networks[j]["wd"] = flag])
        PROVE  IInv'
    <2>1. [c EXCEPT !.wd = flag] \in Network /\ Lost([c EXCEPT !.wd = flag], d)
      BY <1>1 DEF Network, NameFields, Lost, Flags
    <2>2. [answer EXCEPT ![i].networks[j]["wd"] = flag]
            = [answer EXCEPT ![i].networks[j] = [c EXCEPT !.wd = flag]]
      OBVIOUS
    <2>3. QED BY <1>5, <2>1, <2>2, SlipNetworkKeepsIInv
  <1>6. ASSUME Slip([answer EXCEPT ![i].networks[j].fee = NoAmount]) PROVE IInv'
    <2>1. [c EXCEPT !.fee = NoAmount] \in Network /\ Lost([c EXCEPT !.fee = NoAmount], d)
      BY <1>1 DEF Network, NameFields, Lost, Amount
    <2>2. [answer EXCEPT ![i].networks[j].fee = NoAmount]
            = [answer EXCEPT ![i].networks[j] = [c EXCEPT !.fee = NoAmount]]
      OBVIOUS
    <2>3. QED BY <1>6, <2>1, <2>2, SlipNetworkKeepsIInv
  <1>7. ASSUME Slip([answer EXCEPT ![i].networks[j].sound = FALSE]) PROVE IInv'
    <2>1. [c EXCEPT !.sound = FALSE] \in Network /\ Lost([c EXCEPT !.sound = FALSE], d)
      BY <1>1 DEF Network, NameFields, Lost
    <2>2. [answer EXCEPT ![i].networks[j].sound = FALSE]
            = [answer EXCEPT ![i].networks[j] = [c EXCEPT !.sound = FALSE]]
      OBVIOUS
    <2>3. QED BY <1>7, <2>1, <2>2, SlipNetworkKeepsIInv
  <1>8. ASSUME Slip([answer EXCEPT ![i].networks[j].also = FALSE]) PROVE IInv'
    <2>1. [c EXCEPT !.also = FALSE] \in Network /\ Lost([c EXCEPT !.also = FALSE], d)
      BY <1>1 DEF Network, NameFields, Lost
    <2>2. [answer EXCEPT ![i].networks[j].also = FALSE]
            = [answer EXCEPT ![i].networks[j] = [c EXCEPT !.also = FALSE]]
      OBVIOUS
    <2>3. QED BY <1>8, <2>1, <2>2, SlipNetworkKeepsIInv
  <1>9. QED BY <1>2, <1>4, <1>5, <1>6, <1>7, <1>8 DEF SpoilNetwork

-----------------------------------------------------------------------------
(* What the reader tells *)

LEMMA FailKeepsIInv ==
  ASSUME IInv, Fail, phase \in {"asking", "reading"}
  PROVE  IInv'
  <1>1. /\ phase' = "failed" /\ assets' = <<>> /\ networks' = <<>> /\ rows' = <<>> /\ complete' = FALSE
        /\ UNCHANGED <<venue, meant, answer, left, merged>>
    BY DEF Fail, merger
  <1>2. Types'
    BY <1>1, EmptySeq DEF IInv, Types
  <1>3. AnswerFits'
    BY <1>1 DEF IInv, AnswerFits
  <1>4. Reading'
    BY <1>1, NoElements DEF Reading, Sourced
  <1>5. Merging'
    BY <1>1, NoElements DEF IInv, Merging
  <1>6. QED BY <1>2, <1>3, <1>4, <1>5 DEF IInv

LEMMA RequestKeepsIInv ==
  ASSUME IInv, Request
  PROVE  IInv'
  <1>1. /\ phase = "asking" /\ Decodable /\ phase' = "reading" /\ assets' = answer
        /\ UNCHANGED <<venue, meant, answer, networks, rows, complete, left, merged>>
    BY DEF Request, told, merger
  <1>2. networks = <<>> /\ rows = <<>>
    BY <1>1 DEF IInv, Reading
  <1>3. Types'
    BY <1>1 DEF IInv, Types
  <1>4. AnswerFits'
    BY <1>1 DEF IInv, AnswerFits
  <1>5. Reading'
    <2>1. Decodable'
      BY <1>1 DEF Decodable
    <2>2. Place' /\ Behind' /\ Sourced'
      BY <1>1, <1>2, NoElements DEF Place, Behind, Sourced
    <2>3. QED BY <1>1, <2>1, <2>2 DEF Reading
  <1>6. Merging'
    BY <1>1 DEF IInv, Merging
  <1>7. QED BY <1>3, <1>4, <1>5, <1>6 DEF IInv

LEMMA EnterKeepsIInv ==
  ASSUME IInv, EnterAsset
  PROVE  IInv'
  <1>1. /\ phase = "reading" /\ assets # <<>> /\ networks = <<>>
        /\ Head(assets).name # NoName /\ networks' = Head(assets).networks
        /\ UNCHANGED <<venue, meant, answer, phase, assets, rows, complete, left, merged>>
    BY DEF EnterAsset, AtAsset, told, merger
  <1>2. Head(assets) \in Asset /\ Head(assets).networks \in Seq(Network)
    <2>1. Head(assets) \in Asset
      BY <1>1, HeadAndTail DEF IInv, Types
    <2>2. QED BY <2>1 DEF Asset
  <1>3. Types'
    BY <1>1, <1>2 DEF IInv, Types
  <1>4. AnswerFits'
    BY <1>1 DEF IInv, AnswerFits
  <1>5. Reading'
    <2>1. Decodable'
      BY <1>1 DEF IInv, Reading, Decodable
    <2>2. Place'
      BY <1>1 DEF IInv, Reading, Place
    <2>3. Behind'
      BY <1>1, Unchanged DEF IInv, Reading, Behind, AssetTold, NetworkTold
    <2>4. Sourced'
      BY <1>1, UnchangedSource DEF IInv, Reading, Sourced
    <2>5. QED BY <1>1, <2>1, <2>2, <2>3, <2>4 DEF Reading
  <1>6. Merging'
    BY <1>1 DEF IInv, Merging
  <1>7. QED BY <1>3, <1>4, <1>5, <1>6 DEF IInv

LEMMA OnwardKeepsIInv ==
  ASSUME IInv, phase = "reading", assets # <<>>,
         NEW a, a = Head(assets),
         NEW rest \in Seq(Network), NEW more \in Seq(Snapshot), NEW whole \in BOOLEAN,
         Onward(rest, more, whole),
         \A r \in ToSet(more) : ReadFrom(a, r),
         rest # <<>> => a.name # NoName /\ ToSet(rest) \subseteq ToSet(a.networks),
         complete' /\ rest = <<>> => AssetTold(a)',
         complete' /\ rest # <<>> =>
           \A c \in ToSet(a.networks) : c \in ToSet(rest) \/ NetworkTold(a, c)'
  PROVE  IInv'
  <1>1. /\ rows' = rows \o more /\ complete' = (complete /\ whole) /\ networks' = rest
        /\ assets' = IF rest = <<>> THEN Tail(assets) ELSE assets
        /\ UNCHANGED <<venue, meant, answer, phase, left, merged>>
    BY DEF Onward, merger
  <1>2. /\ assets \in Seq(Asset) /\ Tail(assets) \in Seq(Asset)
        /\ ToSet(assets) = {a} \cup ToSet(Tail(assets))
    BY HeadAndTail DEF IInv, Types
  <1>3. /\ rows \o more \in Seq(Snapshot)
        /\ ToSet(rows') = ToSet(rows) \cup ToSet(more)
    BY <1>1, Appended DEF IInv, Types
  <1>4. Types'
    BY <1>1, <1>2, <1>3 DEF IInv, Types
  <1>5. AnswerFits'
    BY <1>1 DEF IInv, AnswerFits
  <1>6. Reading'
    <2>1. Decodable'
      BY <1>1 DEF IInv, Reading, Decodable
    <2>2. Place'
      BY <1>1, <1>2 DEF IInv, Reading, Place
    <2>3. Behind'
      <3>1. ASSUME complete', NEW b \in ToSet(answer), AssetTold(b) PROVE AssetTold(b)'
        BY <1>1, <1>3, <3>1, Unchanged DEF AssetTold, NetworkTold
      <3>2. ASSUME complete' PROVE \A b \in ToSet(answer) : b \in ToSet(assets') \/ AssetTold(b)'
        BY <1>1, <1>2, <3>1, <3>2 DEF IInv, Reading, Behind
      <3>3. ASSUME complete', rest # <<>>
            PROVE  \A c \in ToSet(a.networks) : c \in ToSet(rest) \/ NetworkTold(a, c)'
        BY <3>3
      <3>4. rest # <<>> => Head(assets') = a
        BY <1>1
      <3>5. complete' /\ rest # <<>> =>
              \A c \in ToSet(Head(assets').networks) :
                c \in ToSet(rest) \/ NetworkTold(Head(assets), c)'
        BY <3>3, <3>4 DEF NetworkTold
      <3>6. QED BY <1>1, <3>2, <3>5 DEF Behind
    <2>4. Sourced'
      <3>1. a \in ToSet(answer)
        BY <1>2 DEF IInv, Reading, Place
      <3>2. QED BY <1>1, <1>3, <3>1, UnchangedSource DEF IInv, Reading, Sourced
    <2>5. QED BY <1>1, <2>1, <2>2, <2>3, <2>4 DEF Reading
  <1>7. Merging'
    BY <1>1, <1>3 DEF IInv, Merging
  <1>8. QED BY <1>4, <1>5, <1>6, <1>7 DEF IInv

LEMMA AssetsKeepIInv ==
  ASSUME IInv, SkipAsset \/ SkipNetless \/ ReadAlone
  PROVE  IInv'
  <1> PICK a : a = Head(assets)
    OBVIOUS
  <1>1. /\ phase = "reading" /\ assets # <<>> /\ networks = <<>>
        /\ <<>> \in Seq(Network) /\ <<>> \in Seq(Snapshot) /\ venue \in Venues /\ a \in Asset
    BY EmptySeq, HeadAndTail DEF SkipAsset, SkipNetless, ReadAlone, AtAsset, IInv, Types
  <1>2. CASE SkipAsset
    <2>1. Onward(<<>>, <<>>, FALSE) /\ ~complete'
      BY <1>2 DEF SkipAsset, Onward
    <2>2. QED BY <1>1, <2>1, NoElements, OnwardKeepsIInv
  <1>3. CASE SkipNetless
    <2>1. /\ a.name # NoName /\ a.networks = <<>> /\ Onward(<<>>, <<>>, venue \in Netless)
          /\ venue' = venue
      BY <1>3 DEF SkipNetless, Onward
    <2>2. CASE venue \in Netless
      <3>1. Onward(<<>>, <<>>, TRUE) /\ AssetTold(a)'
        BY <2>1, <2>2, NoElements DEF AssetTold, Onward
      <3>2. QED BY <1>1, <3>1, NoElements, OnwardKeepsIInv
    <2>3. CASE venue \notin Netless
      <3>1. Onward(<<>>, <<>>, FALSE) /\ ~complete'
        BY <2>1, <2>3 DEF Onward
      <3>2. QED BY <1>1, <3>1, NoElements, OnwardKeepsIInv
    <2>4. QED BY <2>2, <2>3
  <1>4. CASE ReadAlone
    <2>1. /\ a.name # NoName /\ a.networks = <<>> /\ venue = "gate"
          /\ Onward(<<>>, <<GateAlone(a)>>, TRUE) /\ venue' = venue
          /\ rows' = rows \o <<GateAlone(a)>>
      BY <1>4 DEF ReadAlone, Onward
    <2>2. PICK row \in Snapshot : row = GateAlone(a) /\ row = GateAlone(a)'
      BY <1>1, <2>1, AloneIsSnapshot DEF GateAlone
    <2>3. <<row>> \in Seq(Snapshot) /\ ToSet(<<row>>) = {row}
      BY <2>2 DEF ToSet
    <2>4. rows' = rows \o <<row>>
      BY <2>1, <2>2
    <2>5. ToSet(rows') = ToSet(rows) \cup {row}
      <3>1. rows \in Seq(Snapshot) /\ <<row>> \in Seq(Snapshot)
        BY <2>3 DEF IInv, Types
      <3>2. ToSet(rows \o <<row>>) = ToSet(rows) \cup ToSet(<<row>>)
        BY <3>1, Appended
      <3>3. QED BY <2>3, <2>4, <3>2
    <2>6. AssetTold(a)' /\ ReadFrom(a, row)
      BY <2>1, <2>2, <2>5, NoElements DEF AssetTold, ReadFrom
    <2>7. Onward(<<>>, <<row>>, TRUE)
      BY <2>1, <2>2
    <2>8. QED BY <1>1, <2>3, <2>6, <2>7, OnwardKeepsIInv
  <1>5. QED BY <1>2, <1>3, <1>4

LEMMA NetworksKeepIInv ==
  ASSUME IInv, PassNetwork \/ SkipNetwork \/ ReadNetwork
  PROVE  IInv'
  <1> PICK a, c, rest : a = Head(assets) /\ c = Head(networks) /\ rest = Tail(networks)
    OBVIOUS
  <1>1. phase = "reading" /\ networks # <<>> /\ RowNow = Read(a, c)
    BY DEF PassNetwork, SkipNetwork, ReadNetwork, AtNetwork, RowNow
  <1>2. /\ assets # <<>> /\ assets \in Seq(Asset) /\ networks \in Seq(Network)
        /\ a.name # NoName /\ ToSet(networks) \subseteq ToSet(a.networks)
        /\ venue \in Venues /\ rows \in Seq(Snapshot)
    BY <1>1 DEF IInv, Types, Reading, Place
  <1>3. /\ c \in Network /\ rest \in Seq(Network) /\ ToSet(networks) = {c} \cup ToSet(rest)
        /\ a \in Asset
    BY <1>1, <1>2, HeadAndTail
  <1>4. ASSUME complete
        PROVE  \A d \in ToSet(a.networks) : d = c \/ d \in ToSet(rest) \/ NetworkTold(a, d)
    BY <1>1, <1>3, <1>4 DEF IInv, Reading, Behind
  <1>5. ASSUME NEW more \in Seq(Snapshot), NEW whole \in BOOLEAN, Onward(rest, more, whole),
               \A r \in ToSet(more) : ReadFrom(a, r),
               complete' => NetworkTold(a, c)'
        PROVE  IInv'
    <2>1. /\ rows' = rows \o more /\ complete' = (complete /\ whole) /\ venue' = venue
      BY <1>5 DEF Onward
    <2>2. ToSet(rows) \subseteq ToSet(rows')
      BY <1>2, <1>5, <2>1, Appended
    <2>3. ASSUME NEW d, NetworkTold(a, d) PROVE NetworkTold(a, d)'
      BY <2>1, <2>2, <2>3, Unchanged DEF NetworkTold
    <2>4. complete' => \A d \in ToSet(a.networks) : d \in ToSet(rest) \/ NetworkTold(a, d)'
      BY <1>4, <1>5, <2>1, <2>3
    <2>5. complete' /\ rest = <<>> => AssetTold(a)'
      <3>1. a.networks # <<>>
        BY <1>2, <1>3, NoElements
      <3>2. QED BY <1>2, <2>4, <3>1, NoElements DEF AssetTold
    <2>6. rest # <<>> => a.name # NoName /\ ToSet(rest) \subseteq ToSet(a.networks)
      BY <1>2, <1>3
    <2>7. complete' /\ rest # <<>> =>
            \A d \in ToSet(a.networks) : d \in ToSet(rest) \/ NetworkTold(a, d)'
      BY <2>4
    <2>8. QED BY <1>1, <1>2, <1>3, <1>5, <2>5, <2>6, <2>7, OnwardKeepsIInv
  <1>6. CASE PassNetwork
    <2>1. Onward(rest, <<>>, TRUE) /\ ~Mentioned(c) /\ venue' = venue
      BY <1>6 DEF PassNetwork, Onward
    <2>2. NetworkTold(a, c)'
      BY <2>1, Unchanged DEF NetworkTold
    <2>3. <<>> \in Seq(Snapshot)
      BY EmptySeq
    <2>4. QED BY <1>5, <2>1, <2>2, <2>3, NoElements
  <1>7. CASE SkipNetwork
    <2>1. Onward(rest, <<>>, FALSE) /\ ~complete'
      BY <1>7 DEF SkipNetwork, Onward
    <2>2. <<>> \in Seq(Snapshot)
      BY EmptySeq
    <2>3. QED BY <1>5, <2>1, <2>2, NoElements
  <1>8. CASE ReadNetwork
    <2>1. PICK row \in Snapshot : row = Read(a, c)
      BY <1>2, <1>3, ReadIsSnapshot
    <2>2. /\ Mentioned(c) /\ Named(c) /\ Onward(rest, <<row>>, row.sure)
          /\ venue' = venue /\ rows' = rows \o <<row>> /\ complete' = (complete /\ row.sure)
      BY <1>1, <1>8, <2>1 DEF ReadNetwork, Onward
    <2>3. <<row>> \in Seq(Snapshot) /\ ToSet(<<row>>) = {row} /\ row.sure \in BOOLEAN
      BY <2>1 DEF ToSet, Snapshot
    <2>4. row \in ToSet(rows')
      <3>1. rows \in Seq(Snapshot) /\ <<row>> \in Seq(Snapshot)
        BY <1>2, <2>3
      <3>2. ToSet(rows \o <<row>>) = ToSet(rows) \cup ToSet(<<row>>)
        BY <3>1, Appended
      <3>3. QED BY <2>2, <2>3, <3>2
    <2>5. complete' => NetworkTold(a, c)'
      BY <2>1, <2>2, <2>4, Unchanged DEF NetworkTold
    <2>6. \A r \in ToSet(<<row>>) : ReadFrom(a, r)
      BY <1>2, <1>3, <2>1, <2>2, <2>3 DEF ReadFrom
    <2>7. QED BY <1>5, <2>2, <2>3, <2>5, <2>6
  <1>9. QED BY <1>6, <1>7, <1>8

-----------------------------------------------------------------------------
(* What the merger makes of it *)

LEMMA ReturnKeepsIInv ==
  ASSUME IInv, Return
  PROVE  IInv'
  <1>1. /\ phase = "reading" /\ assets = <<>> /\ phase' = "merging" /\ left' = rows
        /\ UNCHANGED <<venue, meant, answer, assets, networks, rows, complete, merged>>
    BY DEF Return, AtEnd, told
  <1>2. networks = <<>>
    BY <1>1 DEF IInv, Reading, Place
  <1>3. Types'
    BY <1>1 DEF IInv, Types
  <1>4. AnswerFits'
    BY <1>1 DEF IInv, AnswerFits
  <1>5. Reading'
    <2>1. Decodable' /\ Place'
      BY <1>1 DEF IInv, Reading, Decodable, Place
    <2>2. Behind'
      BY <1>1, <1>2, Unchanged DEF IInv, Reading, Behind, AssetTold, NetworkTold, GateAlone
    <2>3. Sourced'
      BY <1>1, UnchangedSource DEF IInv, Reading, Sourced
    <2>4. QED BY <1>1, <1>2, <2>1, <2>2, <2>3 DEF Reading
  <1>6. Merging'
    BY <1>1 DEF IInv, Merging
  <1>7. QED BY <1>3, <1>4, <1>5, <1>6 DEF IInv

LEMMA MergesKeepIInv ==
  ASSUME IInv, FirstOfKey \/ Duplicate
  PROVE  IInv'
  <1> DEFINE row == Head(left)
  <1>1. /\ phase = "merging" /\ left # <<>> /\ left' = Tail(left)
        /\ UNCHANGED <<venue, meant, answer, phase, assets, networks, rows, complete>>
    BY DEF FirstOfKey, Duplicate, told
  <1>2. row \in Snapshot /\ Tail(left) \in Seq(Snapshot) /\ ToSet(left) = {row} \cup ToSet(Tail(left))
    BY <1>1, HeadAndTail DEF IInv, Types
  <1>3. /\ row.rail \in Terms /\ row.rail.type = FeeType(row.rail.fee, row.rail.rate)
        /\ row \in ToSet(rows)
    BY <1>2 DEF Snapshot, IInv, Merging
  <1>4. /\ Key(row) \in DOMAIN merged' /\ merged' \in [DOMAIN merged' -> Terms]
        /\ DOMAIN merged \subseteq DOMAIN merged'
        /\ \A k \in DOMAIN merged' : k # Key(row) => k \in DOMAIN merged /\ merged'[k] = merged[k]
        /\ \A d \in Directions :
             /\ row.rail[d] => merged'[Key(row)][d]
             /\ Key(row) \in DOMAIN merged /\ merged[Key(row)][d] => merged'[Key(row)][d]
             /\ merged'[Key(row)][d] =>
                  row.rail[d] \/ (Key(row) \in DOMAIN merged /\ merged[Key(row)][d])
        /\ merged'[Key(row)].type = FeeType(merged'[Key(row)].fee, merged'[Key(row)].rate)
    <2>1. CASE FirstOfKey
      <3>1. /\ Key(row) \notin DOMAIN merged
            /\ merged' = [k \in DOMAIN merged \cup {Key(row)} |->
                            IF k = Key(row) THEN row.rail ELSE merged[k]]
        BY <2>1 DEF FirstOfKey
      <3>2. merged \in [DOMAIN merged -> Terms]
        BY DEF IInv, Types
      <3>3. QED BY <3>1, <3>2, <1>3
    <2>2. CASE Duplicate
      <3> DEFINE old == merged[Key(row)]
      <3>1. /\ Key(row) \in DOMAIN merged
            /\ merged' = [merged EXCEPT ![Key(row)] = MergeRail(old, row.rail)]
        BY <2>2 DEF Duplicate
      <3>2. merged \in [DOMAIN merged -> Terms] /\ old \in Terms
        BY <3>1 DEF IInv, Types
      <3>3. old.type = FeeType(old.fee, old.rate)
        BY <3>1 DEF IInv, Merging
      <3>4. MergeRail(old, row.rail) \in Terms
        BY <3>2, <1>3, MergedTerms
      <3>5. MergeRail(old, row.rail).type
              = FeeType(MergeRail(old, row.rail).fee, MergeRail(old, row.rail).rate)
        BY <3>2, <3>3, <1>3, MergeKeepsTheFeeType
      <3>6. \A d \in Directions : MergeRail(old, row.rail)[d] = (old[d] \/ row.rail[d])
        BY DEF Directions, MergeRail
      <3>7. DOMAIN merged' = DOMAIN merged /\ merged'[Key(row)] = MergeRail(old, row.rail)
        BY <3>1, <3>2
      <3>8. /\ merged' \in [DOMAIN merged' -> Terms]
            /\ \A k \in DOMAIN merged' : k # Key(row) => k \in DOMAIN merged /\ merged'[k] = merged[k]
        BY <3>1, <3>2, <3>4
      <3>9. QED BY <3>1, <3>5, <3>6, <3>7, <3>8
    <2>3. QED BY <2>1, <2>2
  <1> HIDE DEF row
  <1>5. Types'
    BY <1>1, <1>2, <1>4 DEF IInv, Types
  <1>6. AnswerFits'
    BY <1>1 DEF IInv, AnswerFits
  <1>7. Reading'
    <2>1. Decodable' /\ Place'
      BY <1>1 DEF IInv, Reading, Decodable, Place
    <2>2. Behind'
      BY <1>1, Unchanged DEF IInv, Reading, Behind, AssetTold, NetworkTold, GateAlone
    <2>3. Sourced'
      BY <1>1, UnchangedSource DEF IInv, Reading, Sourced
    <2>4. QED BY <1>1, <2>1, <2>2, <2>3 DEF IInv, Reading
  <1>8. Merging'
    <2>1. ToSet(left') \subseteq ToSet(rows)
      BY <1>1, <1>2 DEF IInv, Merging
    <2>2. ASSUME NEW r \in ToSet(rows), r \notin ToSet(left')
          PROVE  /\ Key(r) \in DOMAIN merged'
                 /\ \A d \in Directions : r.rail[d] => merged'[Key(r)][d]
      <3>1. CASE r = row
        BY <3>1, <1>4
      <3>2. CASE r # row
        <4>1. r \notin ToSet(left)
          BY <1>1, <1>2, <2>2, <3>2
        <4>2. /\ Key(r) \in DOMAIN merged
              /\ \A d \in Directions : r.rail[d] => merged[Key(r)][d]
          BY <1>1, <4>1 DEF IInv, Merging
        <4>3. QED BY <1>4, <4>2
      <3>3. QED BY <3>1, <3>2
    <2>3. ASSUME NEW k \in DOMAIN merged'
          PROVE  /\ \E r \in ToSet(rows) : Key(r) = k
                 /\ \A d \in Directions : merged'[k][d] => Brought(k, d)
                 /\ merged'[k].type = FeeType(merged'[k].fee, merged'[k].rate)
      BY <1>3, <1>4 DEF IInv, Merging, Brought
    <2>4. \A k, d : Brought(k, d)' = Brought(k, d)
      BY <1>1 DEF Brought, Key
    <2>5. QED BY <1>1, <2>1, <2>2, <2>3, <2>4 DEF Merging, Key
  <1>9. QED BY <1>5, <1>6, <1>7, <1>8 DEF IInv

LEMMA NextKeepsIInv == IInv /\ [Next]_vars => IInv'
  <1> SUFFICES ASSUME IInv, [Next]_vars PROVE IInv'
    OBVIOUS
  <1>1. ASSUME NEW i \in DOMAIN answer,
               SpoilAsset(i) \/ \E j \in DOMAIN answer[i].networks : SpoilNetwork(i, j)
        PROVE  IInv'
    BY <1>1, SpoilAssetKeepsIInv, SpoilNetworkKeepsIInv
  <1>2. CASE RequestFails \/ NumberFails \/ NoRails
    <2>1. Fail /\ phase \in {"asking", "reading"}
      BY <1>2 DEF RequestFails, NumberFails, NoRails, AtNetwork, AtEnd
    <2>2. QED BY <2>1, FailKeepsIInv
  <1>3. CASE Request
    BY <1>3, RequestKeepsIInv
  <1>4. CASE SkipAsset \/ SkipNetless \/ ReadAlone
    BY <1>4, AssetsKeepIInv
  <1>5. CASE EnterAsset
    BY <1>5, EnterKeepsIInv
  <1>6. CASE PassNetwork \/ SkipNetwork \/ ReadNetwork
    BY <1>6, NetworksKeepIInv
  <1>7. CASE Return
    BY <1>7, ReturnKeepsIInv
  <1>8. CASE FirstOfKey \/ Duplicate
    BY <1>8, MergesKeepIInv
  <1>9. CASE UNCHANGED vars
    <2>1. UNCHANGED <<venue, meant, answer, phase, assets, networks, rows, complete, left, merged>>
      BY <1>9 DEF vars, told, merger
    <2>2. Types' /\ AnswerFits'
      BY <2>1 DEF IInv, Types, AnswerFits
    <2>3. Reading'
      BY <2>1, Unchanged, UnchangedSource
      DEF IInv, Reading, Decodable, Place, Behind, Sourced, AssetTold, NetworkTold, GateAlone
    <2>4. Merging'
      BY <2>1 DEF IInv, Merging, Brought, Key
    <2>5. QED BY <2>2, <2>3, <2>4 DEF IInv
  <1>10. QED
    BY <1>1, <1>2, <1>3, <1>4, <1>5, <1>6, <1>7, <1>8, <1>9 DEF Next

LEMMA Invariance == Spec => []IInv
  <1>1. QED BY InitInv, NextKeepsIInv, PTL DEF Spec

(* FeeTypeTellsTheFee: mergeFeeType never looks at a fee, and still leaves a *)
(* type that says which fees the rail has.                                   *)
THEOREM FeeTypesAreTold == Spec => []FeeTypeTellsTheFee
  <1>1. IInv => FeeTypeTellsTheFee
    BY DEF IInv, Merging, FeeTypeTellsTheFee
  <1>2. QED BY Invariance, <1>1, PTL

-----------------------------------------------------------------------------
(* What a complete list says of what the exchange means *)

(* A rail that the exchange lists, and what is left of its record.           *)
LEMMA Recorded ==
  ASSUME IInv, NEW l \in Listed
  PROVE  /\ l[1] \in DOMAIN meant /\ l[1] \in DOMAIN answer /\ venue \in Adapter
         /\ Record(l) \in Asset /\ Record(l) \in ToSet(answer)
         /\ meant[l[1]] \in Asset /\ LostAsset(Record(l), meant[l[1]])
         /\ l[2] = 0 => venue = "gate" /\ meant[l[1]].networks = <<>> /\ Record(l).networks = <<>>
         /\ l[2] # 0 =>
              /\ l[2] \in DOMAIN meant[l[1]].networks
              /\ ~Alone(l[1])
              /\ meant[l[1]].networks[l[2]] \in Network
         /\ l[2] # 0 /\ ~Emptied(l) =>
              /\ l[2] \in DOMAIN Record(l).networks
              /\ RecordedNetwork(l) \in Network /\ RecordedNetwork(l) \in ToSet(Record(l).networks)
              /\ Lost(RecordedNetwork(l), meant[l[1]].networks[l[2]])
  <1>1. PICK i \in DOMAIN meant : l \in {i} \X (IF Alone(i) THEN {0} ELSE DOMAIN meant[i].networks)
    BY DEF Listed
  <1>2. l[1] = i /\ l[2] \in IF Alone(i) THEN {0} ELSE DOMAIN meant[i].networks
    BY <1>1
  <1>3. i \in DOMAIN answer /\ LostAsset(answer[i], meant[i]) /\ venue \in Adapter
    BY AdapterAssumption DEF IInv, AnswerFits, Types
  <1>4. answer[i] \in Asset /\ answer[i] \in ToSet(answer) /\ meant[i] \in Asset
    BY <1>3, Elements DEF IInv, Types
  <1>5. meant[i].networks \in Seq(Network) /\ answer[i].networks \in Seq(Network)
    BY <1>4 DEF Asset
  <1>6. 0 \notin DOMAIN meant[i].networks
    BY <1>5
  <1>7. CASE l[2] = 0
    <2>1. venue = "gate" /\ meant[i].networks = <<>>
      BY <1>2, <1>6, <1>7 DEF Alone
    <2>2. answer[i].networks = <<>>
      <3>1. ASSUME answer[i].networks # <<>> PROVE FALSE
        <4>1. DOMAIN answer[i].networks = DOMAIN meant[i].networks
          BY <1>3, <3>1 DEF LostAsset
        <4>2. Len(<<>>) = 0 /\ DOMAIN meant[i].networks = 1..0
          BY <2>1, EmptySeq
        <4>3. 1 \notin DOMAIN answer[i].networks
          BY <4>1, <4>2
        <4>4. DOMAIN answer[i].networks = 1..Len(answer[i].networks) /\ Len(answer[i].networks) \in Nat
          BY <1>5
        <4>5. Len(answer[i].networks) = 0
          BY <4>3, <4>4
        <4>6. QED BY <1>5, <3>1, <4>5, EmptySeq
      <3>2. QED BY <3>1
    <2>3. QED BY <1>2, <1>3, <1>4, <1>7, <2>1, <2>2 DEF Record
  <1>8. CASE l[2] # 0
    <2>1. l[2] \in DOMAIN meant[i].networks /\ ~Alone(i)
      BY <1>2, <1>8
    <2>2. meant[i].networks[l[2]] \in Network
      BY <1>5, <2>1
    <2>3. ASSUME ~Emptied(l)
          PROVE  /\ l[2] \in DOMAIN answer[i].networks
                 /\ answer[i].networks[l[2]] \in Network
                 /\ answer[i].networks[l[2]] \in ToSet(answer[i].networks)
                 /\ Lost(answer[i].networks[l[2]], meant[i].networks[l[2]])
      <3>1. answer[i].networks # <<>>
        BY <1>2, <1>8, <2>3 DEF Emptied, Record
      <3>2. QED BY <1>3, <1>5, <2>1, <3>1, Elements DEF LostAsset
    <2>4. QED BY <1>2, <1>3, <1>4, <1>8, <2>1, <2>2, <2>3 DEF Record, RecordedNetwork
  <1>9. QED BY <1>7, <1>8

LEMMA ListedNetwork ==
  ASSUME IInv, NEW i \in DOMAIN meant, NEW j \in DOMAIN meant[i].networks
  PROVE  <<i, j>> \in Listed
  <1>1. meant[i].networks # <<>>
    BY EmptySeq
  <1>2. <<i, j>> \in {i} \X (IF Alone(i) THEN {0} ELSE DOMAIN meant[i].networks)
    BY <1>1 DEF Alone
  <1>3. QED BY <1>2 DEF Listed

LEMMA ListedAlone ==
  ASSUME NEW i \in DOMAIN meant, Alone(i)
  PROVE  <<i, 0>> \in Listed
  <1>1. <<i, 0>> \in {i} \X (IF Alone(i) THEN {0} ELSE DOMAIN meant[i].networks)
    OBVIOUS
  <1>2. QED BY <1>1 DEF Listed

(* Records that have kept the names that an adapter reads give the same names. *)
LEMMA SameNames ==
  ASSUME venue \in Adapter, NEW a, NEW b, NEW c, NEW d,
         a.name = b.name, \A n \in LongNames : a[n] = b[n], \A n \in NetNames : c[n] = d[n],
         venue = "bithumb" => StatusOf(a, c) = {c} /\ StatusOf(b, d) = {d}
  PROVE  Read(a, c).called = Read(b, d).called
  <1>1. CASE venue = "bithumb"
    <2>1. /\ (CHOOSE s \in StatusOf(a, c) : TRUE) = c /\ (CHOOSE s \in StatusOf(b, d) : TRUE) = d
          /\ StatusOf(a, c) # {} /\ StatusOf(b, d) # {}
      BY <1>1
    <2>2. a.title = b.title /\ c.net = d.net /\ c.code = d.code
      BY <1>1 DEF LongNames, NetNames
    <2>3. /\ Bithumb(a, c).called = Called(a.name, a.title, c.code, c.net, c.code, NoName)
          /\ Bithumb(b, d).called = Called(b.name, b.title, d.code, d.net, d.code, NoName)
      BY <2>1 DEF Bithumb, Row
    <2>4. QED BY <1>1, <2>2, <2>3 DEF Read
  <1>2. CASE venue \in {"binance", "upbit"}
    <2>1. c.net = d.net /\ c.label = d.label /\ (venue = "binance" => a.title = b.title)
      BY <1>2 DEF LongNames, NetNames
    <2>2. QED BY <1>2, <2>1 DEF Read, Row, Binance, Upbit
  <1>3. CASE venue = "bybit"
    <2>1. c.net = d.net /\ c.label = d.label /\ c.address = d.address /\ a.title = b.title
      BY <1>3 DEF LongNames, NetNames
    <2>2. QED BY <1>3, <2>1 DEF Read, Row, Bybit
  <1>4. CASE venue \in {"okx", "bitget"}
    <2>1. c.net = d.net /\ c.address = d.address /\ a.title = b.title
      BY <1>4 DEF LongNames, NetNames
    <2>2. QED BY <1>4, <2>1 DEF Read, Row, Okx, Bitget
  <1>5. CASE venue = "htx"
    <2>1. /\ c.net = d.net /\ c.display = d.display /\ c.protocol = d.protocol
          /\ c.code = d.code /\ c.label = d.label
      BY <1>5 DEF NetNames
    <2>2. QED BY <1>5, <2>1 DEF Read, Row, Htx, HtxNames
  <1>6. CASE venue = "kucoin"
    <2>1. c.net = d.net /\ c.code = d.code /\ c.address = d.address /\ a.title = b.title
          /\ a.other = b.other
      BY <1>6 DEF LongNames, NetNames
    <2>2. QED BY <1>6, <2>1 DEF Read, Row, Kucoin
  <1>7. CASE venue \in {"gate", "coinex", "whitebit", "bitmart"}
    <2>1. c.net = d.net /\ (venue # "coinex" => a.title = b.title)
      BY <1>7 DEF LongNames, NetNames
    <2>2. QED BY <1>7, <2>1 DEF Read, Row, Gate, GateStatus, Coinex, Whitebit, Bitmart
  <1>8. QED BY <1>1, <1>2, <1>3, <1>4, <1>5, <1>6, <1>7 DEF Adapter

(* A rail keeps its key, unless a name that the adapter can do without is    *)
(* lost or bithumb matches it with another status.                           *)
LEMMA ShownAsUsual ==
  ASSUME IInv, NEW l \in Listed, Record(l).name # NoName, ~Emptied(l), ~Renamed(l), ~Borrowed(l),
         l[2] # 0 => Named(RecordedNetwork(l))
  PROVE  Shown(l) = Usual(l)
  <1> DEFINE a == Record(l)
             b == meant[l[1]]
             c == RecordedNetwork(l)
             d == meant[l[1]].networks[l[2]]
  <1>1. a.name = b.name /\ \A n \in LongNames : a[n] = b[n]
    BY Recorded DEF LostAsset, Renamed
  <1>2. CASE l[2] = 0
    <2>1. a.net = b.net /\ a.title = b.title /\ venue = "gate"
      BY <1>1, <1>2, Recorded DEF Renamed, LongNames
    <2>2. GateAlone(a).called = GateAlone(b).called
      BY <1>1, <2>1 DEF GateAlone, GateStatus, Row
    <2>3. QED BY <1>2, <2>2 DEF Shown, Usual, Key
  <1>3. CASE l[2] # 0
    <2>1. Lost(c, d) /\ venue \in Adapter
      BY <1>3, Recorded
    <2>2. ASSUME NEW n \in NetNames PROVE c[n] = d[n]
      <3>1. n \in NameFields
        BY DEF NetNames, NameFields
      <3>2. CASE n \in Spare
        BY <1>3, <3>2 DEF Renamed
      <3>3. CASE n \notin Spare
        <4>1. Leading = {n}
          BY <3>3 DEF Spare
        <4>2. c[n] # NoName
          BY <1>3, <4>1 DEF Named
        <4>3. QED BY <2>1, <3>1, <4>2 DEF Lost
      <3>4. QED BY <3>2, <3>3
    <2>3. venue = "bithumb" => StatusOf(a, c) = {c} /\ StatusOf(b, d) = {d}
      <3>1. ASSUME venue = "bithumb" PROVE c.also /\ c.code # NoName
        BY <1>3, <3>1 DEF Borrowed
      <3>2. ASSUME venue = "bithumb" PROVE d.also /\ d.code # NoName
        BY <2>1, <2>2, <3>1, <3>2 DEF Lost, NetNames
      <3>3. QED BY <3>1, <3>2 DEF StatusOf
    <2> HIDE DEF a, b, c, d
    <2>4. Read(a, c).called = Read(b, d).called
      BY <1>1, <2>1, <2>2, <2>3, SameNames
    <2>5. QED BY <1>3, <2>4 DEF Shown, Usual, Key, a, b, c, d
  <1>4. QED BY <1>2, <1>3

(* What a complete list has behind it, when the rows are merged.             *)
LEMMA EachIsTold ==
  ASSUME IInv, Fetched, complete
  PROVE  /\ Decodable
         /\ \A a \in ToSet(answer) : AssetTold(a)
         /\ \A r \in ToSet(rows) :
              /\ Key(r) \in DOMAIN merged
              /\ \A d \in Directions : r.rail[d] => merged[Key(r)][d]
  BY NoElements DEF Fetched, IInv, Reading, Behind, Merging

(* The row of a rail that the exchange lists.                                *)
TellsOf(l, r) ==
  \/ l[2] = 0 /\ r = GateAlone(Record(l))
  \/ l[2] # 0 /\ ~Emptied(l) /\ r = Read(Record(l), RecordedNetwork(l)) /\ r.sure

LEMMA ListedIsTold ==
  ASSUME IInv, Fetched, complete, NEW l \in Listed, ~TakenForEmpty(l), ~Unmentioned(l)
  PROVE  /\ ~Emptied(l) /\ Record(l).name # NoName
         /\ l[2] # 0 => Named(RecordedNetwork(l))
         /\ \E r \in ToSet(rows) : Key(r) = Shown(l) /\ TellsOf(l, r)
  <1> DEFINE a == Record(l)
  <1>1. AssetTold(a) /\ a.name # NoName
    BY EachIsTold, Recorded DEF AssetTold
  <1>2. CASE l[2] = 0
    <2>1. GateAlone(a) \in ToSet(rows) /\ ~Emptied(l)
      BY <1>1, <1>2, Recorded DEF AssetTold, Netless, Emptied
    <2>2. QED BY <1>1, <1>2, <2>1 DEF TellsOf, Shown
  <1>3. CASE l[2] # 0
    <2>1. ~Emptied(l)
      BY <1>1, <1>3 DEF TakenForEmpty, Emptied, AssetTold
    <2> DEFINE c == RecordedNetwork(l)
    <2>2. c \in ToSet(a.networks) /\ Mentioned(c)
      BY <1>3, <2>1, Recorded DEF Unmentioned
    <2>3. Read(a, c) \in ToSet(rows) /\ Named(c) /\ Read(a, c).sure
      BY <1>1, <2>2 DEF AssetTold, NetworkTold
    <2>4. QED BY <1>1, <1>3, <2>1, <2>3 DEF TellsOf, Shown
  <1>4. QED BY <1>2, <1>3

(* ListedRailsAreTold: whatever fields an answer has lost, a complete list   *)
(* has each rail that the exchange lists under the key of the names that are *)
(* left of it, and under its usual key if none is missing, so the engine     *)
(* counts no other rail as missing.                                          *)
THEOREM ListedAreTold == Spec => []ListedRailsAreTold
  <1>1. ASSUME IInv, Fetched, complete, NEW l \in Listed, ~TakenForEmpty(l), ~Unmentioned(l)
        PROVE  /\ Shown(l) \in DOMAIN merged
               /\ Shown(l) = Usual(l) \/ Renamed(l) \/ Borrowed(l)
    <2>1. Shown(l) \in DOMAIN merged
      BY <1>1, ListedIsTold, EachIsTold
    <2>2. ~Renamed(l) /\ ~Borrowed(l) => Shown(l) = Usual(l)
      BY <1>1, ListedIsTold, ShownAsUsual
    <2>3. QED BY <2>1, <2>2
  <1>2. IInv => ListedRailsAreTold
    BY <1>1 DEF ListedRailsAreTold
  <1>3. QED BY Invariance, <1>2, PTL

-----------------------------------------------------------------------------
(* A direction that is open stays open, unless a field that is missing is    *)
(* read as closed.                                                           *)
LEMMA OpenIsTold ==
  ASSUME IInv, Decodable, NEW l \in Listed, NEW dir \in Directions, NEW r, TellsOf(l, r),
         ~Borrowed(l), Open(l, dir), ~TakenForClosed(l, dir)
  PROVE  r.rail[dir]
  <1> DEFINE a == Record(l)
             b == meant[l[1]]
  <1>1. CASE l[2] = 0
    <2>1. r = GateAlone(a) /\ venue = "gate" /\ Alone(l[1]) /\ LostAsset(a, b)
      BY <1>1, Recorded DEF TellsOf, Alone
    <2>2. On(b[dir]) /\ ~b.delisted
      BY <2>1 DEF Open, Switched, Delists
    <2>3. ~a.delisted /\ a[dir] # "off"
      BY <2>1, <2>2 DEF LostAsset, On, Directions
    <2>4. /\ r.rail.dep = (~a.delisted /\ a.dep # "off")
          /\ r.rail.wd = (~a.delisted /\ a.wd # "off")
      BY <2>1 DEF GateAlone, GateStatus, Row
    <2>5. QED BY <2>3, <2>4 DEF Directions
  <1>2. CASE l[2] # 0
    <2> DEFINE c == RecordedNetwork(l)
               d == b.networks[l[2]]
    <2>1. /\ r = Read(a, c) /\ r.sure /\ venue \in Adapter /\ LostAsset(a, b) /\ Lost(c, d)
          /\ ~Alone(l[1]) /\ ~Emptied(l) /\ l[1] \in DOMAIN answer
          /\ l[2] \in DOMAIN answer[l[1]].networks
      BY <1>2, Recorded DEF TellsOf, Record
    <2>2. /\ On(d[dir])
          /\ venue \in {"binance", "coinex", "whitebit"} => On(b[dir])
          /\ venue \in {"gate", "htx"} => ~b.delisted
          /\ venue = "bybit" /\ dir = "wd" => d.fee # NoAmount
      BY <1>2, <2>1 DEF Open, Switched, Delists
    <2>3. /\ venue \in Typed => c.dep # "odd" /\ c.wd # "odd"
          /\ venue \in {"binance", "coinex", "gate", "whitebit"} => a.dep # "odd" /\ a.wd # "odd"
      BY <2>1 DEF Decodable, Typed, Switched, Record, RecordedNetwork
    <2>4. /\ venue \in {"okx", "kucoin", "coinex", "whitebit", "bitmart", "bithumb"} =>
               a[dir] # "none" /\ c[dir] # "none"
          /\ venue = "bybit" /\ dir = "wd" => c.fee # NoAmount
      BY <1>2, <2>1 DEF TakenForClosed, Typed
    <2>5. venue = "bithumb" => c.also /\ c.code # NoName
      BY <1>2, <2>1 DEF Borrowed
    <2> HIDE DEF a, b, c, d
    <2>6. /\ c.dep \in {d.dep, "none", "odd"} /\ c.wd \in {d.wd, "none", "odd"}
          /\ a.dep \in {b.dep, "none", "odd"} /\ a.wd \in {b.wd, "none", "odd"}
          /\ a.delisted => b.delisted
      BY <2>1 DEF Lost, LostAsset
    <2>7. CASE venue = "bithumb"
      <3>1. r = Bithumb(a, c) /\ StatusOf(a, c) = {c}
        BY <2>1, <2>5, <2>7 DEF Read, StatusOf
      <3>2. (CHOOSE s \in StatusOf(a, c) : TRUE) = c
        BY <3>1
      <3>4. r = Row(Called(a.name, a.title, c.code, c.net, c.code, NoName), On(c.dep), On(c.wd),
                    c.fee, c.rate, c.dep # "odd" /\ c.wd # "odd")
        BY <3>1, <3>2 DEF Bithumb
      <3>5. c.dep # "odd" /\ c.wd # "odd"
        <4>1. r.sure = (c.dep # "odd" /\ c.wd # "odd")
          BY <3>4 DEF Row
        <4>2. QED BY <2>1, <4>1
      <3>6. r.rail.dep = On(c.dep) /\ r.rail.wd = On(c.wd)
        BY <3>4 DEF Row
      <3>7. dir = "dep" => On(c.dep)
        BY <2>2, <2>4, <2>6, <2>7, <3>5 DEF On
      <3>8. dir = "wd" => On(c.wd)
        BY <2>2, <2>4, <2>6, <2>7, <3>5 DEF On
      <3>9. QED BY <3>6, <3>7, <3>8 DEF Directions
    <2>8. CASE venue \in {"binance", "bybit", "okx", "upbit"} /\ dir = "dep"
      BY <2>1, <2>2, <2>3, <2>4, <2>6, <2>8
      DEF Read, Adapter, Typed, On, Sure, Clear, Row, Binance, Bybit, Okx, Upbit
    <2>9. CASE venue \in {"htx", "bitget", "kucoin", "gate"} /\ dir = "dep"
      BY <2>1, <2>2, <2>3, <2>4, <2>6, <2>9
      DEF Read, Adapter, Typed, On, Sure, Clear, Row, Htx, Bitget, Kucoin, Gate, GateStatus
    <2>10. CASE venue \in {"coinex", "whitebit", "bitmart"} /\ dir = "dep"
      BY <2>1, <2>2, <2>3, <2>4, <2>6, <2>10
      DEF Read, Adapter, Typed, On, Sure, Clear, Row, Coinex, Whitebit, Bitmart
    <2>11. CASE venue \in {"binance", "bybit", "okx", "upbit"} /\ dir = "wd"
      BY <2>1, <2>2, <2>3, <2>4, <2>6, <2>11
      DEF Read, Adapter, Typed, On, Sure, Clear, Row, Binance, Bybit, Okx, Upbit
    <2>12. CASE venue \in {"htx", "bitget", "kucoin", "gate"} /\ dir = "wd"
      BY <2>1, <2>2, <2>3, <2>4, <2>6, <2>12
      DEF Read, Adapter, Typed, On, Sure, Clear, Row, Htx, Bitget, Kucoin, Gate, GateStatus
    <2>13. CASE venue \in {"coinex", "whitebit", "bitmart"} /\ dir = "wd"
      BY <2>1, <2>2, <2>3, <2>4, <2>6, <2>13
      DEF Read, Adapter, Typed, On, Sure, Clear, Row, Coinex, Whitebit, Bitmart
    <2>14. QED BY <2>1, <2>7, <2>8, <2>9, <2>10, <2>11, <2>12, <2>13 DEF Directions, Adapter
  <1>3. QED BY <1>1, <1>2

(* ClosedWasSaid: merging keeps open what any row opens, and each row opens  *)
(* what the exchange has open.                                               *)
THEOREM ClosedIsSaid == Spec => []ClosedWasSaid
  <1>1. ASSUME IInv, Fetched, complete, NEW l \in Listed, NEW dir \in Directions, Open(l, dir),
               ~TakenForClosed(l, dir), ~TakenForEmpty(l), ~Unmentioned(l), ~Borrowed(l)
        PROVE  Shown(l) \in DOMAIN merged /\ merged[Shown(l)][dir]
    <2>1. PICK r \in ToSet(rows) : Key(r) = Shown(l) /\ TellsOf(l, r)
      BY <1>1, ListedIsTold
    <2>2. r.rail[dir]
      BY <1>1, <2>1, EachIsTold, OpenIsTold
    <2>3. QED BY <1>1, <2>1, <2>2, EachIsTold
  <1>2. IInv => ClosedWasSaid
    BY <1>1 DEF ClosedWasSaid
  <1>3. QED BY Invariance, <1>2, PTL

-----------------------------------------------------------------------------
(* A row opens only what the exchange has open on a rail of its key, or what *)
(* is missing and read as open, or what another's status opens.              *)
OpenSomewhere(k, dir) ==
  \E l \in Listed :
    Under(l, k) /\ (TakenForEmpty(l) \/ Borrowed(l) \/ TakenForOpen(l, dir) \/ Open(l, dir))

(* Each key that a rail is told under is one of those it may stand under.    *)
LEMMA ToldUnder ==
  ASSUME IInv, NEW l \in Listed, Record(l).name # NoName, Emptied(l) => venue = "gate",
         l[2] # 0 /\ ~Emptied(l) => Named(RecordedNetwork(l))
  PROVE  Under(l, Shown(l))
  <1>1. Present(l)
    BY DEF Present
  <1>2. CASE Renamed(l) \/ Borrowed(l) \/ Emptied(l)
    BY <1>1, <1>2 DEF Under, TakenForEmpty
  <1>3. CASE ~(Renamed(l) \/ Borrowed(l) \/ Emptied(l))
    BY <1>3, ShownAsUsual DEF Under
  <1>4. QED BY <1>2, <1>3

LEMMA AloneOpens ==
  ASSUME IInv, Decodable, NEW i \in DOMAIN meant, NEW dir \in Directions,
         venue = "gate", answer[i].name # NoName, answer[i].networks = <<>>,
         GateAlone(answer[i]).rail[dir]
  PROVE  OpenSomewhere(Key(GateAlone(answer[i])), dir)
  <1> DEFINE a == answer[i]
             b == meant[i]
  <1>1. LostAsset(a, b) /\ b \in Asset /\ i \in DOMAIN answer
    BY Elements DEF IInv, Types, AnswerFits
  <1>2. CASE b.networks = <<>>
    <2>1. Alone(i) /\ <<i, 0>> \in Listed
      BY <1>2, ListedAlone DEF Alone
    <2>2. Under(<<i, 0>>, Key(GateAlone(a)))
      <3>1. Shown(<<i, 0>>) = Key(GateAlone(a)) /\ Record(<<i, 0>>) = a /\ ~Emptied(<<i, 0>>)
        BY DEF Shown, Record, Emptied
      <3>2. QED BY <2>1, <3>1, ToldUnder
    <2>3. /\ GateAlone(a).rail.dep = (~a.delisted /\ a.dep # "off")
          /\ GateAlone(a).rail.wd = (~a.delisted /\ a.wd # "off")
      BY DEF GateAlone, GateStatus, Row
    <2>4. ~a.delisted /\ a[dir] # "off"
      BY <2>3 DEF Directions
    <2>5. a.dep # "odd" /\ a.wd # "odd"
      BY <1>1 DEF Decodable, Typed, Switched
    <2>6. a[dir] = "none" \/ a.delisted # b.delisted \/ (On(b[dir]) /\ ~b.delisted)
      <3>1. a[dir] # "none" => a[dir] = b[dir]
        BY <1>1, <2>5 DEF LostAsset, Directions
      <3>2. b[dir] \in Flags
        BY <1>1 DEF Asset, Directions
      <3>3. a[dir] # "odd"
        BY <2>5 DEF Directions
      <3>4. QED BY <2>4, <3>1, <3>2, <3>3 DEF Flags, On
    <2>7. TakenForOpen(<<i, 0>>, dir) \/ Open(<<i, 0>>, dir)
      BY <2>1, <2>6 DEF TakenForOpen, Open, Record, Delists
    <2>8. QED BY <2>1, <2>2, <2>7 DEF OpenSomewhere
  <1>3. CASE b.networks # <<>>
    <2>1. 1 \in DOMAIN b.networks
      <3>1. b.networks \in Seq(Network)
        BY <1>1 DEF Asset
      <3>2. Len(b.networks) # 0 /\ Len(b.networks) \in Nat
        BY <1>3, <3>1, EmptySeq
      <3>3. QED BY <3>1, <3>2
    <2>2. <<i, 1>> \in Listed
      BY <2>1, ListedNetwork
    <2>3. Emptied(<<i, 1>>) /\ Record(<<i, 1>>) = a /\ Shown(<<i, 1>>) = Key(GateAlone(a))
      BY DEF Emptied, Record, Shown
    <2>4. TakenForEmpty(<<i, 1>>) /\ Under(<<i, 1>>, Key(GateAlone(a)))
      BY <2>2, <2>3, ToldUnder DEF TakenForEmpty
    <2>5. QED BY <2>2, <2>4 DEF OpenSomewhere
  <1>4. QED BY <1>2, <1>3

LEMMA NetworkOpens ==
  ASSUME IInv, Decodable, NEW i \in DOMAIN meant, NEW dir \in Directions,
         NEW c \in ToSet(answer[i].networks), answer[i].name # NoName,
         Named(c), Read(answer[i], c).rail[dir]
  PROVE  OpenSomewhere(Key(Read(answer[i], c)), dir)
  <1>1. PICK j \in DOMAIN answer[i].networks : c = answer[i].networks[j]
    BY DEF ToSet
  <1> DEFINE a == answer[i]
             b == meant[i]
             d == meant[i].networks[j]
             l == <<i, j>>
  <1>2. /\ LostAsset(a, b) /\ a \in Asset /\ b \in Asset /\ i \in DOMAIN answer /\ venue \in Adapter
        /\ a.name = b.name
    BY Elements, AdapterAssumption DEF IInv, Types, AnswerFits, LostAsset
  <1>3. a.networks # <<>> /\ a.networks \in Seq(Network) /\ b.networks \in Seq(Network)
    BY <1>1, <1>2, EmptySeq DEF Asset
  <1>4. j \in DOMAIN b.networks /\ Lost(c, d) /\ c \in Network /\ d \in Network
    BY <1>1, <1>2, <1>3, Elements DEF LostAsset
  <1>5. l \in Listed /\ j # 0
    BY <1>3, <1>4, ListedNetwork
  <1>6. l[1] = i /\ l[2] = j /\ Record(l) = a /\ RecordedNetwork(l) = c /\ ~Emptied(l) /\ ~Alone(i)
    BY <1>1, <1>3, <1>4, EmptySeq DEF Record, RecordedNetwork, Emptied, Alone
  <1>7. Under(l, Key(Read(a, c)))
    <2>1. Shown(l) = Key(Read(a, c))
      BY <1>5, <1>6 DEF Shown
    <2>2. QED BY <1>5, <1>6, <2>1, ToldUnder
  <1>8. CASE Borrowed(l)
    BY <1>5, <1>7, <1>8 DEF OpenSomewhere
  <1>9. CASE ~Borrowed(l)
    <2>1. venue = "bithumb" => c.also /\ c.code # NoName
      BY <1>5, <1>6, <1>9 DEF Borrowed
    <2>3. ASSUME ~TakenForOpen(l, dir) PROVE Open(l, dir)
      <3>1. /\ venue \in {"binance", "gate"} => a[dir] # "none"
            /\ venue \in {"gate", "htx"} => a.delisted = b.delisted
            /\ venue = "gate" => c[dir] # "none"
        BY <1>5, <1>6, <2>3 DEF TakenForOpen, Delists
      <3>2. /\ venue \in Typed => c.dep # "odd" /\ c.wd # "odd"
            /\ venue \in {"binance", "gate", "coinex", "whitebit"} => a.dep # "odd" /\ a.wd # "odd"
        BY <1>1, <1>2 DEF Decodable, Typed, Switched
      <3>3. /\ c.dep \in {d.dep, "none", "odd"} /\ c.wd \in {d.wd, "none", "odd"}
            /\ a.dep \in {b.dep, "none", "odd"} /\ a.wd \in {b.wd, "none", "odd"}
            /\ c.fee \in {d.fee, NoAmount}
            /\ d.dep \in Flags /\ d.wd \in Flags /\ b.dep \in Flags /\ b.wd \in Flags
        BY <1>2, <1>4 DEF Lost, LostAsset, Network, Asset
      <3> HIDE DEF a, b, d, l
      <3>4. Read(a, c).rail[dir]
        BY DEF a
      <3>5. /\ On(d[dir])
            /\ venue \in {"binance", "coinex", "whitebit"} => On(b[dir])
            /\ venue \in {"gate", "htx"} => ~b.delisted
            /\ venue = "bybit" /\ dir = "wd" => d.fee # NoAmount
        <4>1. CASE venue = "bithumb"
          <5>1. Read(a, c) = Bithumb(a, c) /\ StatusOf(a, c) = {c}
            BY <2>1, <4>1 DEF Read, StatusOf
          <5>2. (CHOOSE s \in StatusOf(a, c) : TRUE) = c
            BY <5>1
          <5>3. /\ Bithumb(a, c).rail.dep => On(c.dep)
                /\ Bithumb(a, c).rail.wd => On(c.wd)
            BY <5>1, <5>2 DEF Bithumb, Row
          <5>4. dir = "dep" => On(d.dep)
            BY <3>3, <3>4, <5>1, <5>3 DEF On
          <5>5. dir = "wd" => On(d.wd)
            BY <3>3, <3>4, <5>1, <5>3 DEF On
          <5>6. QED BY <4>1, <5>4, <5>5 DEF Directions
        <4>2. CASE venue # "bithumb"
          <5> DEFINE rail == Read(a, c).rail
          <5>1. /\ rail.dep => On(c.dep) \/ (venue = "gate" /\ c.dep # "off")
                /\ rail.wd  => On(c.wd)  \/ (venue = "gate" /\ c.wd # "off")
            BY <1>2, <4>2
            DEF Read, Adapter, Row, Binance, Bybit, Okx, Upbit, Htx, Bitget, Kucoin, Gate, GateStatus,
                Coinex, Whitebit, Bitmart
          <5>2. /\ venue = "binance" => (rail.dep => a.dep # "off") /\ (rail.wd => a.wd # "off")
                /\ venue \in {"coinex", "whitebit"} => (rail.dep => On(a.dep)) /\ (rail.wd => On(a.wd))
                /\ venue \in {"gate", "htx"} => (rail.dep \/ rail.wd => ~a.delisted)
                /\ venue = "bybit" => (rail.wd => c.fee # NoAmount)
            BY DEF Read, Row, Binance, Bybit, Htx, Gate, GateStatus, Coinex, Whitebit
          <5> HIDE DEF rail
          <5>3. CASE dir = "dep"
            <6>1. rail.dep
              BY <3>4, <5>3 DEF rail
            <6>2. On(d.dep)
              BY <3>1, <3>2, <3>3, <5>1, <5>3, <6>1 DEF On, Flags, Typed
            <6>3. venue \in {"binance", "coinex", "whitebit"} => On(b.dep)
              BY <3>1, <3>2, <3>3, <5>2, <5>3, <6>1 DEF On, Flags
            <6>4. venue \in {"gate", "htx"} => ~b.delisted
              BY <3>1, <5>2, <6>1
            <6>5. QED BY <5>3, <6>2, <6>3, <6>4
          <5>4. CASE dir = "wd"
            <6>1. rail.wd
              BY <3>4, <5>4 DEF rail
            <6>2. On(d.wd)
              BY <3>1, <3>2, <3>3, <5>1, <5>4, <6>1 DEF On, Flags, Typed
            <6>3. venue \in {"binance", "coinex", "whitebit"} => On(b.wd)
              BY <3>1, <3>2, <3>3, <5>2, <5>4, <6>1 DEF On, Flags
            <6>4. venue \in {"gate", "htx"} => ~b.delisted
              BY <3>1, <5>2, <6>1
            <6>5. venue = "bybit" => d.fee # NoAmount
              BY <3>3, <5>2, <6>1
            <6>6. QED BY <5>4, <6>2, <6>3, <6>4, <6>5
          <5>5. QED BY <5>3, <5>4 DEF Directions
        <4>3. QED BY <4>1, <4>2
      <3>6. QED BY <1>5, <1>6, <3>5 DEF Open, Switched, Delists, b, d
    <2> HIDE DEF a, b, d, l
    <2>4. QED BY <1>5, <1>7, <2>3 DEF OpenSomewhere, a
  <1>10. QED BY <1>8, <1>9

(* OpenWasSaid: whatever is lost, and whether or not the list is complete,   *)
(* merging opens no direction that no row opens, and no row opens one that   *)
(* the exchange has closed but by the readings that are named.               *)
THEOREM OpenIsSaid == Spec => []OpenWasSaid
  <1>1. ASSUME IInv, NEW k \in DOMAIN merged, NEW dir \in Directions, merged[k][dir]
        PROVE  OpenSomewhere(k, dir)
    <2>1. PICK r \in ToSet(rows) : Key(r) = k /\ r.rail[dir]
      BY <1>1 DEF IInv, Merging, Brought
    <2>2. phase = "merging" /\ Decodable
      BY <1>1 DEF IInv, Reading, Merging
    <2>3. PICK a \in ToSet(answer) : ReadFrom(a, r)
      BY <1>1, <2>1 DEF IInv, Reading, Sourced
    <2>4. PICK i \in DOMAIN meant : a = answer[i]
      BY <1>1, <2>3 DEF ToSet, IInv, AnswerFits
    <2>5. CASE venue = "gate" /\ a.networks = <<>> /\ r = GateAlone(a)
      BY <1>1, <2>1, <2>2, <2>3, <2>4, <2>5, AloneOpens DEF ReadFrom
    <2>6. ASSUME NEW c \in ToSet(a.networks), r = Read(a, c), Named(c)
          PROVE  OpenSomewhere(k, dir)
      BY <1>1, <2>1, <2>2, <2>3, <2>4, <2>6, NetworkOpens DEF ReadFrom
    <2>7. QED BY <2>3, <2>5, <2>6 DEF ReadFrom
  <1>2. IInv => OpenWasSaid
    BY <1>1 DEF OpenWasSaid, OpenSomewhere
  <1>3. QED BY Invariance, <1>2, PTL

-----------------------------------------------------------------------------
(* The order of the answer *)

FeeFields == {"fee", "rate"}

(* Of the rows merged so far, a merged rail has the least fee that is known. *)
Sums ==
  \A k \in DOMAIN merged, f \in FeeFields :
    /\ merged[k][f] # NoAmount => \E r \in ToSet(rows) : Key(r) = k /\ r.rail[f] = merged[k][f]
    /\ \A r \in ToSet(rows) :
         Key(r) = k /\ r \notin ToSet(left) /\ r.rail[f] # NoAmount =>
           merged[k][f] # NoAmount /\ merged[k][f] <= r.rail[f]

(* A merged rail is what the set of its key's rows says: open where one of   *)
(* them is, each fee the least that is known, the type by these fees.        *)
RowsOf(k) == {r \in ToSet(rows) : Key(r) = k}
Known(k, f) == {r.rail[f] : r \in RowsOf(k)} \ {NoAmount}

MergedIsTheSetOfRows ==
  Fetched =>
    /\ DOMAIN merged = {Key(r) : r \in ToSet(rows)}
    /\ \A k \in DOMAIN merged :
         /\ \A d \in Directions : merged[k][d] <=> \E r \in RowsOf(k) : r.rail[d]
         /\ \A f \in FeeFields :
              IF Known(k, f) = {} THEN merged[k][f] = NoAmount
              ELSE merged[k][f] \in Known(k, f) /\ \A x \in Known(k, f) : merged[k][f] <= x
         /\ merged[k].type = FeeType(merged[k].fee, merged[k].rate)

LEMMA LeastIsLeast ==
  ASSUME NEW x \in AnyAmount, NEW y \in AnyAmount
  PROVE  /\ MinAmount(x, y) \in {x, y}
         /\ x # NoAmount => MinAmount(x, y) # NoAmount /\ MinAmount(x, y) <= x
         /\ y # NoAmount => MinAmount(x, y) # NoAmount /\ MinAmount(x, y) <= y
         /\ MinAmount(x, y) = NoAmount \/ MinAmount(x, y) \in Nat
  <1>1. CASE x = NoAmount /\ y = NoAmount
    BY <1>1 DEF MinAmount
  <1>2. CASE x \in Nat /\ y = NoAmount
    BY <1>2, AmountsAreNumbers DEF MinAmount
  <1>3. CASE x = NoAmount /\ y \in Nat
    BY <1>3, AmountsAreNumbers DEF MinAmount
  <1>4. CASE x \in Nat /\ y \in Nat
    BY <1>4, AmountsAreNumbers DEF MinAmount
  <1>5. QED BY <1>1, <1>2, <1>3, <1>4 DEF AnyAmount

LEMMA SnapshotFees ==
  ASSUME NEW r \in Snapshot, NEW f \in FeeFields
  PROVE  r.rail[f] \in AnyAmount
  BY DEF Snapshot, Terms, FeeFields

LEMMA MergesKeepSums ==
  ASSUME IInv, Sums, FirstOfKey \/ Duplicate
  PROVE  Sums'
  <1> DEFINE row == Head(left)
  <1>1. /\ phase = "merging" /\ left # <<>> /\ left' = Tail(left) /\ rows' = rows
        /\ ToSet(rows') = ToSet(rows) /\ \A r : Key(r)' = Key(r)
    BY DEF FirstOfKey, Duplicate, told, Key
  <1>2. row \in Snapshot /\ ToSet(left) = {row} \cup ToSet(Tail(left)) /\ row \in ToSet(rows)
    BY <1>1, HeadAndTail DEF IInv, Types, Merging
  <1>3. ToSet(rows) \subseteq Snapshot
    BY Elements DEF IInv, Types
  <1>4. ASSUME NEW k \in DOMAIN merged', NEW f \in FeeFields, k # Key(row)
        PROVE  k \in DOMAIN merged /\ merged'[k][f] = merged[k][f]
    <2>1. CASE FirstOfKey
      BY <1>4, <2>1 DEF FirstOfKey
    <2>2. CASE Duplicate
      BY <1>4, <2>2 DEF Duplicate
    <2>3. QED BY <2>1, <2>2
  <1>5. ASSUME NEW k \in DOMAIN merged', NEW f \in FeeFields, k # Key(row)
        PROVE  /\ merged'[k][f] # NoAmount =>
                    \E r \in ToSet(rows) : Key(r) = k /\ r.rail[f] = merged'[k][f]
               /\ \A r \in ToSet(rows) :
                    Key(r) = k /\ r \notin ToSet(left') /\ r.rail[f] # NoAmount =>
                      merged'[k][f] # NoAmount /\ merged'[k][f] <= r.rail[f]
    BY <1>1, <1>2, <1>4, <1>5 DEF Sums
  <1>6. ASSUME NEW f \in FeeFields
        PROVE  /\ merged'[Key(row)][f] # NoAmount =>
                    \E r \in ToSet(rows) : Key(r) = Key(row) /\ r.rail[f] = merged'[Key(row)][f]
               /\ \A r \in ToSet(rows) :
                    Key(r) = Key(row) /\ r \notin ToSet(left') /\ r.rail[f] # NoAmount =>
                      merged'[Key(row)][f] # NoAmount /\ merged'[Key(row)][f] <= r.rail[f]
    <2>1. row.rail[f] \in AnyAmount
      BY <1>2, SnapshotFees
    <2>2. CASE FirstOfKey
      <3>1. merged'[Key(row)] = row.rail /\ Key(row) \notin DOMAIN merged
        BY <2>2 DEF FirstOfKey
      <3>2. \A r \in ToSet(rows) : Key(r) = Key(row) => r \in ToSet(left)
        BY <1>1, <3>1 DEF IInv, Merging
      <3>3. \A r \in ToSet(rows) : Key(r) = Key(row) /\ r \notin ToSet(left') => r = row
        BY <1>1, <1>2, <3>2
      <3>4. row.rail[f] # NoAmount => row.rail[f] <= row.rail[f]
        BY <2>1 DEF AnyAmount
      <3>5. QED BY <1>2, <3>1, <3>3, <3>4
    <2>3. CASE Duplicate
      <3> DEFINE old == merged[Key(row)]
      <3>1. Key(row) \in DOMAIN merged /\ merged'[Key(row)] = MergeRail(old, row.rail)
        BY <2>3 DEF Duplicate
      <3>2. old \in Terms
        BY <3>1 DEF IInv, Types
      <3>3. old[f] \in AnyAmount
        BY <3>2 DEF Terms, FeeFields
      <3>4. merged'[Key(row)][f] = MinAmount(old[f], row.rail[f])
        BY <3>1 DEF MergeRail, FeeFields
      <3>5. ASSUME merged'[Key(row)][f] # NoAmount
            PROVE  \E r \in ToSet(rows) : Key(r) = Key(row) /\ r.rail[f] = merged'[Key(row)][f]
        <4>1. merged'[Key(row)][f] \in {old[f], row.rail[f]}
          BY <2>1, <3>3, <3>4, LeastIsLeast
        <4>2. CASE merged'[Key(row)][f] = row.rail[f]
          BY <1>2, <4>2
        <4>3. CASE merged'[Key(row)][f] = old[f]
          BY <3>1, <3>5, <4>3 DEF Sums
        <4>4. QED BY <4>1, <4>2, <4>3
      <3>6. ASSUME NEW r \in ToSet(rows), Key(r) = Key(row), r \notin ToSet(left'),
                   r.rail[f] # NoAmount
            PROVE  merged'[Key(row)][f] # NoAmount /\ merged'[Key(row)][f] <= r.rail[f]
        <4>1. CASE r = row
          BY <2>1, <3>3, <3>4, <3>6, <4>1, LeastIsLeast
        <4>2. CASE r # row
          <5>1. r \notin ToSet(left)
            BY <1>1, <1>2, <3>6, <4>2
          <5>2. old[f] # NoAmount /\ old[f] <= r.rail[f]
            BY <3>1, <3>6, <5>1 DEF Sums
          <5>3. merged'[Key(row)][f] # NoAmount /\ merged'[Key(row)][f] <= old[f]
            BY <2>1, <3>3, <3>4, <5>2, LeastIsLeast
          <5>4. merged'[Key(row)][f] \in Nat /\ old[f] \in Nat /\ r.rail[f] \in Nat
            <6>1. r.rail[f] \in AnyAmount
              BY <1>3, SnapshotFees
            <6>2. merged'[Key(row)][f] \in {old[f], row.rail[f]}
              BY <2>1, <3>3, <3>4, LeastIsLeast
            <6>3. QED BY <2>1, <3>3, <3>6, <5>2, <5>3, <6>1, <6>2 DEF AnyAmount
          <5>5. QED BY <5>2, <5>3, <5>4
        <4>3. QED BY <4>1, <4>2
      <3>7. QED BY <3>5, <3>6
    <2>4. QED BY <2>2, <2>3
  <1> HIDE DEF row
  <1>7. ASSUME NEW k \in DOMAIN merged', NEW f \in FeeFields
        PROVE  /\ merged'[k][f] # NoAmount =>
                    \E r \in ToSet(rows) : Key(r) = k /\ r.rail[f] = merged'[k][f]
               /\ \A r \in ToSet(rows) :
                    Key(r) = k /\ r \notin ToSet(left') /\ r.rail[f] # NoAmount =>
                      merged'[k][f] # NoAmount /\ merged'[k][f] <= r.rail[f]
    BY <1>5, <1>6
  <1>8. QED BY <1>1, <1>7 DEF Sums

LEMMA NextKeepsSums == IInv /\ Sums /\ [Next]_vars => Sums'
  <1> SUFFICES ASSUME IInv, Sums, [Next]_vars PROVE Sums'
    OBVIOUS
  <1>1. CASE FirstOfKey \/ Duplicate
    BY <1>1, MergesKeepSums
  <1>2. CASE UNCHANGED vars
    <2>1. UNCHANGED <<rows, left, merged>>
      BY <1>2 DEF vars, told, merger
    <2>2. QED BY <2>1 DEF Sums
  <1>3. CASE phase # "merging" /\ Next /\ ~(FirstOfKey \/ Duplicate)
    <2>1. DOMAIN merged = {}
      BY <1>3 DEF IInv, Merging
    <2>2. merged' = merged
      <3>1. ASSUME NEW i, SpoilAsset(i) PROVE merged' = merged
        BY <3>1 DEF SpoilAsset, Slip, merger
      <3>2. ASSUME NEW i, NEW j, SpoilNetwork(i, j) PROVE merged' = merged
        BY <3>2 DEF SpoilNetwork, Slip, merger
      <3>3. RequestFails \/ NumberFails \/ NoRails \/ Request \/ EnterAsset \/ Return => merged' = merged
        BY DEF RequestFails, NumberFails, NoRails, Fail, Request, EnterAsset, Return, merger
      <3>4. SkipAsset \/ SkipNetless \/ ReadAlone => merged' = merged
        BY DEF SkipAsset, SkipNetless, ReadAlone, Onward, merger
      <3>5. PassNetwork \/ SkipNetwork \/ ReadNetwork => merged' = merged
        BY DEF PassNetwork, SkipNetwork, ReadNetwork, Onward, merger
      <3>6. QED BY <1>3, <3>1, <3>2, <3>3, <3>4, <3>5 DEF Next
    <2>3. QED BY <2>1, <2>2 DEF Sums
  <1>4. CASE phase = "merging" /\ Next /\ ~(FirstOfKey \/ Duplicate)
    BY <1>4 DEF Next, SpoilAsset, SpoilNetwork, Slip, RequestFails, Request, SkipAsset,
       SkipNetless, ReadAlone, EnterAsset, PassNetwork, SkipNetwork, ReadNetwork, NumberFails,
       Return, NoRails, AtAsset, AtNetwork, AtEnd
  <1>5. QED BY <1>1, <1>2, <1>3, <1>4

(* mergeDuplicateRails takes the rails in the order in which the exchange    *)
(* lists them, which is none.  What it leaves depends on the rails of a key  *)
(* as a set alone, neither on their order nor on how often each is listed.   *)
THEOREM MergingKnowsNoOrder == Spec => []MergedIsTheSetOfRows
  <1>1. Init => Sums
    BY DEF Init, Sums
  <1>2. ASSUME IInv, Sums, Fetched PROVE MergedIsTheSetOfRows
    <2>1. ToSet(left) = {} /\ phase = "merging"
      BY <1>2, NoElements DEF Fetched
    <2>2. ToSet(rows) \subseteq Snapshot
      BY <1>2, Elements DEF IInv, Types
    <2>3. DOMAIN merged = {Key(r) : r \in ToSet(rows)}
      <3>1. \A r \in ToSet(rows) : Key(r) \in DOMAIN merged
        BY <1>2, <2>1 DEF IInv, Merging
      <3>2. ASSUME NEW k \in DOMAIN merged PROVE \E r \in ToSet(rows) : Key(r) = k
        BY <1>2 DEF IInv, Merging
      <3>3. QED BY <3>1, <3>2
    <2>4. ASSUME NEW k \in DOMAIN merged, NEW d \in Directions
          PROVE  merged[k][d] <=> \E r \in RowsOf(k) : r.rail[d]
      BY <1>2, <2>1 DEF IInv, Merging, Brought, RowsOf
    <2>5. ASSUME NEW k \in DOMAIN merged, NEW f \in FeeFields
          PROVE  IF Known(k, f) = {} THEN merged[k][f] = NoAmount
                 ELSE merged[k][f] \in Known(k, f) /\ \A x \in Known(k, f) : merged[k][f] <= x
      <3>1. merged[k][f] # NoAmount => merged[k][f] \in Known(k, f)
        BY <1>2 DEF Sums, Known, RowsOf
      <3>2. \A x \in Known(k, f) : merged[k][f] # NoAmount /\ merged[k][f] <= x
        BY <1>2, <2>1 DEF Sums, Known, RowsOf
      <3>3. QED BY <3>1, <3>2
    <2>6. \A k \in DOMAIN merged : merged[k].type = FeeType(merged[k].fee, merged[k].rate)
      BY <1>2 DEF IInv, Merging
    <2>7. QED BY <2>3, <2>4, <2>5, <2>6 DEF MergedIsTheSetOfRows
  <1>3. IInv /\ Sums => MergedIsTheSetOfRows
    BY <1>2 DEF MergedIsTheSetOfRows
  <1>4. QED BY Invariance, NextKeepsSums, <1>1, <1>3, PTL DEF Spec

===============================================================================
