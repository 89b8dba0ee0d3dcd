----------------------------- MODULE RestApiProofs -----------------------------
(***************************************************************************)
(* What a search tells: its fees are the fees that are charged, for every  *)
(* table, every amount and every number of polls in between.  What the     *)
(* route form offers can be found.  What pages bring: everything that was  *)
(* there all along, once and in order.                                     *)
(***************************************************************************)
EXTENDS RouteForm, FiniteSetTheorems, SequenceTheorems, TLAPS

-----------------------------------------------------------------------------
(* One row *)

LEMMA AmountTypes ==
  /\ \A x \in Amount : x # NoAmount => x \in Nat
  /\ \A x \in Amount : OrZero(x) \in Nat
  /\ \A n \in Nat : n # NoAmount
<1>1. \A n \in Nat : n \in Int
  OBVIOUS
<1> QED
  BY <1>1, AmountAssumption DEF Amount, OrZero

(* The share of a rate; a rate that is not there has none.                   *)
Share(amount, rate) == (amount * OrZero(rate)) \div 100

LEMMA ShareType ==
  ASSUME NEW amount \in Nat, NEW rate \in Amount
  PROVE  /\ Share(amount, rate) \in Nat
         /\ rate = NoAmount => Share(amount, rate) = 0
<1>1. OrZero(rate) \in Nat
  BY AmountTypes
<1>2. amount * OrZero(rate) \in Nat
  BY <1>1
<1>3. \A n \in Nat : n \div 100 \in Nat
  OBVIOUS
<1>4. rate = NoAmount => amount * OrZero(rate) = 0
  BY DEF OrZero
<1>5. 0 \div 100 = 0
  OBVIOUS
<1> QED
  BY <1>2, <1>3, <1>4, <1>5 DEF Share

(* If the row does not need an amount that is missing, its estimate is what  *)
(* it charges, for the amount asked for or for any.                          *)
LEMMA EstimateIsCharged ==
  ASSUME NEW row \in Row, row.type = FeeType(row.fee, row.rate),
         NEW amount, NEW a \in Nat,
         amount = a \/ (amount = NoAmount /\ ~RequiresAmount(row))
  PROVE  /\ RouteFee(row, amount) = IF Unpriced(row) THEN NoAmount ELSE Charged(row, a)
         /\ Charged(row, a) \in Nat
<1> DEFINE fee == row.fee
           rate == row.rate
<1>1. fee \in Amount /\ rate \in Amount
  BY DEF Row
<1>2. /\ OrZero(fee) \in Nat
      /\ Share(a, rate) \in Nat
      /\ rate = NoAmount => Share(a, rate) = 0
      /\ fee = NoAmount => OrZero(fee) = 0
      /\ a # NoAmount
  BY <1>1, AmountTypes, ShareType DEF OrZero
<1>3. Charged(row, a) = OrZero(fee) + Share(a, rate)
  BY DEF Charged, Share
<1>4. Unpriced(row) <=> fee = NoAmount /\ rate = NoAmount
  BY DEF Unpriced
<1>5. RouteFee(row, amount) =
        IF IsKnown(row) THEN
          CASE row.type = "percent" -> (IF amount = NoAmount THEN 0 ELSE Share(amount, rate))
            [] row.type = "hybrid" ->
                 OrZero(fee) + (IF amount = NoAmount THEN 0 ELSE Share(amount, rate))
            [] OTHER -> OrZero(fee)
        ELSE NoAmount
  BY DEF RouteFee, Estimate, Share
<1>6. /\ row.type = "percent" <=> fee = NoAmount /\ rate # NoAmount
      /\ row.type = "hybrid" <=> fee # NoAmount /\ rate # NoAmount
  BY DEF FeeType
<1>7. IsKnown(row) <=> ~(fee = NoAmount /\ rate = NoAmount)
  BY <1>6 DEF IsKnown
<1>8. amount = NoAmount => rate = NoAmount
  BY <1>2, <1>6 DEF RequiresAmount
<1> HIDE DEF fee, rate
<1>9. Charged(row, a) \in Nat
  BY <1>2, <1>3
<1>10. CASE rate = NoAmount
  BY <1>2, <1>3, <1>4, <1>5, <1>6, <1>7, <1>9, <1>10
<1>11. CASE rate # NoAmount
  <2>1. amount = a
    BY <1>8, <1>11
  <2> QED
    BY <1>2, <1>3, <1>4, <1>5, <1>6, <1>7, <1>9, <1>11, <2>1
<1> QED
  BY <1>10, <1>11

-----------------------------------------------------------------------------
(* The table *)

(* Rows come from the writers of the reader's rails.                         *)
TableOK ==
  /\ reader \in Readers
  /\ rails \in [Rails -> Rows[reader] \cup {NoRail}]

LEMMA InitTableOK == Init => TableOK
  BY DEF Init, RestInit, TableOK

LEMMA NextKeepsTableOK == TableOK /\ [Next]_vars => TableOK'
<1> SUFFICES ASSUME TableOK, [Next]_vars PROVE TableOK'
  OBVIOUS
<1>1. CASE UNCHANGED restVars
  BY <1>1 DEF restVars, TableOK
<1>2. CASE GetPage \/ (\E e \in Events : CommitEvent(e)) \/ WindowMoves
  BY <1>2 DEF GetPage, CommitEvent, WindowMoves, TableOK
<1>3. ASSUME NEW i \in Rails, NEW row \in Rows[reader], StoreRail(i, row)
      PROVE  TableOK'
  BY <1>3 DEF StoreRail, TableOK
<1>4. CASE OthersStep
  BY <1>2, <1>3, <1>4 DEF OthersStep, RestNext
<1>5. CASE ~OthersStep
  <2>1. UNCHANGED restVars
    BY <1>5 DEF Next, ChooseCoin, ToggleEquivalent, Ask, Serve, Arrives, Fails,
                ChooseFrom, ChooseTo, vars
  <2> QED
    BY <1>1, <2>1
<1> QED
  BY <1>4, <1>5

LEMMA TableInvariance == Spec => []TableOK
  BY InitTableOK, NextKeepsTableOK, PTL DEF Spec

(* A search withdraws only from rows whose type tells their fees.            *)
LEMMA WithdrawnRows ==
  ASSUME TableOK, NEW coin, NEW from, NEW to, NEW equivalent,
         NEW row \in Withdrawn(Routes(coin, from, to, equivalent))
  PROVE  row \in Row /\ row.type = FeeType(row.fee, row.rate)
<1>1. PICK q \in Routes(coin, from, to, equivalent) : row = rails[q[2]]
  BY DEF Withdrawn
<1>2. q[2] \in Rails /\ rails[q[2]] # NoRail
  BY <1>1 DEF Routes, Opened, Open
<1>3. row \in Rows[reader] /\ reader \in Readers
  BY <1>1, <1>2 DEF TableOK
<1> QED
  BY <1>3, RestAssumption, TypesTellTheFees

LEMMA TableGivesExactEstimates == TableOK => EstimatesAreExact
<1> SUFFICES ASSUME TableOK, NEW coin \in Coins, NEW from \in Chains, NEW to \in Chains,
                    NEW equivalent \in BOOLEAN, NEW amount \in Asked \cup {NoAmount},
                    ~AmountRequired(Withdrawn(Routes(coin, from, to, equivalent)), amount),
                    NEW row \in Withdrawn(Routes(coin, from, to, equivalent)),
                    NEW a \in IF amount = NoAmount THEN Asked ELSE {amount}
             PROVE  /\ RouteFee(row, amount)
                         = IF Unpriced(row) THEN NoAmount ELSE Charged(row, a)
                    /\ \A other \in Withdrawn(Routes(coin, from, to, equivalent)) :
                         RanksBefore(row, other, amount) =>
                           Unpriced(other) \/ Charged(row, a) <= Charged(other, a)
  BY DEF EstimatesAreExact
<1> DEFINE rows == Withdrawn(Routes(coin, from, to, equivalent))
<1>1. a \in Nat
  BY RestAssumption
<1>2. ASSUME NEW r \in rows
      PROVE  /\ RouteFee(r, amount) = IF Unpriced(r) THEN NoAmount ELSE Charged(r, a)
             /\ Charged(r, a) \in Nat
  <2>1. r \in Row /\ r.type = FeeType(r.fee, r.rate)
    BY WithdrawnRows
  <2>2. amount = a \/ (amount = NoAmount /\ ~RequiresAmount(r))
    BY DEF AmountRequired
  <2> QED
    BY <1>1, <2>1, <2>2, EstimateIsCharged
<1>3. ASSUME NEW other \in rows, RanksBefore(row, other, amount)
      PROVE  Unpriced(other) \/ Charged(row, a) <= Charged(other, a)
  <2> HIDE DEF rows
  <2>1. /\ RouteFee(row, amount) # NoAmount
        /\ RouteFee(other, amount) = NoAmount
           \/ RouteFee(row, amount) < RouteFee(other, amount)
    BY <1>3 DEF RanksBefore
  <2>2. \A n \in Nat : n # NoAmount
    BY AmountTypes
  <2> QED
    BY <1>2, <1>3, <2>1, <2>2 DEF rows
<1> QED
  BY <1>2, <1>3

(* Every route that a search tells is priced by what it charges, and none is *)
(* ranked before one that charges less.                                      *)
THEOREM EstimatesExact == Spec => []EstimatesAreExact
  BY TableInvariance, TableGivesExactEstimates, PTL

-----------------------------------------------------------------------------
(* The form *)

Pairs       == SUBSET (Chains \X Chains)
RequestType == [coin : Coins, equivalent : BOOLEAN, at : {"sent", "served", "over"},
                pairs : Pairs, fresh : BOOLEAN]
FormType    == [coin : Coins, equivalent : BOOLEAN, options : Pairs \cup {NoOptions},
                from : Chains \cup {NoChain}, to : Chains \cup {NoChain},
                shown : Nat, fresh : BOOLEAN]

(* An answer that is fresh is the one that the table gives now.              *)
AnswerFits(request) ==
  request.at = "served" /\ request.fresh =>
    request.pairs = RouteOptions(request.coin, request.equivalent)

(* A form that is fresh has the options of the request it shows, and the     *)
(* chains it has selected are one of them.                                   *)
SelectionFits(f) ==
  f.options # {} => f.from \in FromChains(f.options) /\ f.to \in ToChains(f.options, f.from)

FormFits ==
  form.fresh =>
    /\ form.shown \in 1..Len(requests)
    /\ form.options = RouteOptions(requests[form.shown].coin, requests[form.shown].equivalent)
    /\ SelectionFits(form)

(* The last request asks for what the form has.                              *)
LastAsked ==
  Len(requests) > 0 => /\ requests[Len(requests)].coin = form.coin
                       /\ requests[Len(requests)].equivalent = form.equivalent

FormInv ==
  /\ form \in FormType
  /\ requests \in Seq(RequestType)
  /\ \A n \in 1..Len(requests) : AnswerFits(requests[n])
  /\ FormFits
  /\ LastAsked

LEMMA RouteOptionsType ==
  ASSUME NEW coin, NEW equivalent PROVE RouteOptions(coin, equivalent) \in Pairs
<1>1. \A i \in Rails : Chain(i) \in Chains
  BY RestAssumption DEF Rails, Chain
<1> QED
  BY <1>1 DEF RouteOptions, Opened, Pairs

(* Whatever fillSelect selects is offered, unless nothing is. *)
LEMMA SelectedFrom ==
  ASSUME NEW pairs \in Pairs, NEW value, NEW from \in Selected(FromChains(pairs), value),
         NEW other, NEW to \in Selected(ToChains(pairs, from), other)
  PROVE  /\ from \in Chains \cup {NoChain, value} /\ to \in Chains \cup {NoChain, other}
         /\ pairs # {} => from \in FromChains(pairs) /\ to \in ToChains(pairs, from)
<1>1. FromChains(pairs) \subseteq Chains /\ (pairs # {} => FromChains(pairs) # {})
  BY DEF FromChains, Pairs
<1>2. /\ ToChains(pairs, from) \subseteq Chains
      /\ from \in FromChains(pairs) => ToChains(pairs, from) # {}
  BY DEF ToChains, FromChains, Pairs
<1> QED
  BY <1>1, <1>2 DEF Selected

LEMMA InitFormInv == Init => FormInv
<1> SUFFICES ASSUME Init PROVE FormInv
  OBVIOUS
<1>1. PICK c \in Coins :
        /\ form = [coin |-> c, equivalent |-> FALSE, options |-> NoOptions,
                   from |-> NoChain, to |-> NoChain, shown |-> 0, fresh |-> FALSE]
        /\ requests = IF reader = "form" THEN <<Request(c, FALSE)>> ELSE <<>>
  BY Zenon DEF Init
<1>2. Request(c, FALSE) \in RequestType /\ Request(c, FALSE).coin = c
      /\ Request(c, FALSE).equivalent = FALSE /\ AnswerFits(Request(c, FALSE))
  BY DEF Request, RequestType, Pairs, AnswerFits
<1>3. form \in FormType /\ ~form.fresh /\ form.coin = c /\ form.equivalent = FALSE
  BY <1>1 DEF FormType
<1>4. CASE requests = <<>>
  BY <1>3, <1>4 DEF FormInv, FormFits, LastAsked
<1>5. CASE requests = <<Request(c, FALSE)>>
  <2> DEFINE q == Request(c, FALSE)
  <2>1. q \in RequestType /\ q.coin = c /\ q.equivalent = FALSE /\ AnswerFits(q)
    BY <1>2
  <2>2. requests = <<q>>
    BY <1>5
  <2> HIDE DEF q
  <2>3. requests \in Seq(RequestType) /\ Len(requests) = 1 /\ requests[1] = q
    BY <2>1, <2>2
  <2>4. \A n \in 1..Len(requests) : n = 1
    BY <2>3
  <2>5. \A n \in 1..Len(requests) : AnswerFits(requests[n])
    BY <2>1, <2>3, <2>4
  <2>6. LastAsked
    BY <1>3, <2>1, <2>3 DEF LastAsked
  <2> QED
    BY <1>3, <2>3, <2>5, <2>6 DEF FormInv, FormFits
<1> QED
  BY <1>1, <1>4, <1>5

(* Answers are computed from the table alone. *)
LEMMA OptionsOfSameTable ==
  ASSUME rails' = rails
  PROVE  \A coin, equivalent : RouteOptions(coin, equivalent)' = RouteOptions(coin, equivalent)
  BY DEF RouteOptions, Opened, Open

(* Storing a rail makes every answer stale, and other steps of the API none.  *)
LEMMA OthersKeepFormInv == FormInv /\ OthersStep => FormInv'
<1> SUFFICES ASSUME FormInv, OthersStep PROVE FormInv'
  OBVIOUS
<1> DEFINE kept == rails' = rails
           L == Len(requests)
           aged(r) == [r EXCEPT !.fresh = @ /\ kept]
<1>1. /\ form \in FormType /\ L \in Nat /\ DOMAIN requests = 1..L
      /\ \A n \in 1..L : requests[n] \in RequestType
  BY LenProperties, ElementOfSeq DEF FormInv
<1>2. form' = [form EXCEPT !.fresh = @ /\ kept]
      /\ requests' = [n \in 1..L |-> aged(requests[n])]
  BY <1>1 DEF OthersStep
<1>3. kept \in BOOLEAN
  OBVIOUS
<1>4. kept => \A coin, equivalent : RouteOptions(coin, equivalent)' = RouteOptions(coin, equivalent)
  BY OptionsOfSameTable
<1> HIDE DEF kept, L
<1>5. /\ form' \in FormType
      /\ form'.fresh <=> form.fresh /\ kept
      /\ form'.coin = form.coin /\ form'.equivalent = form.equivalent
      /\ form'.options = form.options /\ form'.shown = form.shown
      /\ form'.from = form.from /\ form'.to = form.to
  BY <1>1, <1>2, <1>3 DEF FormType
<1>6. ASSUME NEW r \in RequestType
      PROVE  /\ aged(r) \in RequestType
             /\ aged(r).coin = r.coin /\ aged(r).equivalent = r.equivalent
             /\ aged(r).at = r.at /\ aged(r).pairs = r.pairs
             /\ aged(r).fresh <=> r.fresh /\ kept
  BY <1>3 DEF RequestType
<1> HIDE DEF aged
<1>7. requests' \in [1..L -> RequestType] /\ \A n \in 1..L : requests'[n] = aged(requests[n])
  BY <1>1, <1>2, <1>6
<1>8. requests' \in Seq(RequestType)
  BY <1>1, <1>7, SeqDef
<1>9. Len(requests') = L
  BY <1>1, <1>7, <1>8, LenProperties
<1>10. ASSUME NEW n \in 1..L PROVE AnswerFits(requests[n])'
  BY <1>1, <1>4, <1>6, <1>7, <1>10 DEF AnswerFits, FormInv, L
<1>11. FormFits'
  BY <1>1, <1>4, <1>5, <1>6, <1>7, <1>9 DEF FormFits, SelectionFits, FormInv, L
<1>12. LastAsked'
  BY <1>1, <1>5, <1>6, <1>7, <1>9 DEF LastAsked, FormInv, L
<1> QED
  BY <1>5, <1>8, <1>9, <1>10, <1>11, <1>12 DEF FormInv

(* A new request is the last, and not shown.                                 *)
LEMMA AskKeepsFormInv ==
  ASSUME FormInv, NEW coin \in Coins, NEW equivalent \in BOOLEAN, Ask(coin, equivalent)
  PROVE  FormInv'
<1> DEFINE L == Len(requests)
           q == Request(coin, equivalent)
<1>1. /\ form \in FormType /\ L \in Nat
      /\ requests \in Seq(RequestType)
  BY LenProperties DEF FormInv
<1>2. /\ q \in RequestType /\ q.coin = coin /\ q.equivalent = equivalent /\ q.at = "sent"
  BY DEF Request, RequestType, Pairs
<1>3. /\ form' = [form EXCEPT !.coin = coin, !.equivalent = equivalent]
      /\ requests' = Append(requests, q)
      /\ rails' = rails
  BY DEF Ask, restVars
<1>4. \A c, e : RouteOptions(c, e)' = RouteOptions(c, e)
  BY <1>3, OptionsOfSameTable
<1> HIDE DEF q, L
<1>5. /\ form' \in FormType /\ form'.coin = coin /\ form'.equivalent = equivalent
      /\ form'.fresh = form.fresh /\ form'.options = form.options
      /\ form'.shown = form.shown /\ form'.from = form.from /\ form'.to = form.to
  BY <1>1, <1>3 DEF FormType
<1>6. /\ requests' \in Seq(RequestType) /\ Len(requests') = L + 1
      /\ requests'[L + 1] = q
      /\ \A n \in 1..L : requests'[n] = requests[n]
  BY <1>1, <1>2, <1>3, AppendProperties DEF L
<1>7. ASSUME NEW n \in 1..L + 1 PROVE AnswerFits(requests[n])'
  <2>1. CASE n = L + 1
    BY <1>2, <1>6, <2>1 DEF AnswerFits
  <2>2. CASE n \in 1..L
    BY <1>4, <1>6, <2>2 DEF AnswerFits, FormInv, L
  <2> QED
    BY <1>1, <2>1, <2>2
<1>8. FormFits'
  BY <1>1, <1>4, <1>5, <1>6 DEF FormFits, SelectionFits, FormInv, L
<1>9. LastAsked'
  BY <1>1, <1>2, <1>5, <1>6 DEF LastAsked
<1> QED
  BY <1>1, <1>5, <1>6, <1>7, <1>8, <1>9 DEF FormInv

(* One request replaced by another for the same coin and box.                *)
LEMMA ReplacedRequest ==
  ASSUME FormInv, NEW n \in DOMAIN requests, NEW q \in RequestType,
         q.coin = requests[n].coin, q.equivalent = requests[n].equivalent,
         requests' = [requests EXCEPT ![n] = q], rails' = rails, AnswerFits(q)
  PROVE  /\ n \in 1..Len(requests)
         /\ requests' \in Seq(RequestType) /\ Len(requests') = Len(requests)
         /\ \A m \in 1..Len(requests) : /\ requests'[m].coin = requests[m].coin
                                       /\ requests'[m].equivalent = requests[m].equivalent
         /\ \A m \in 1..Len(requests') : AnswerFits(requests[m])'
<1> DEFINE L == Len(requests)
<1>1. requests \in Seq(RequestType) /\ L \in Nat /\ n \in 1..L
  BY LenProperties DEF FormInv
<1>2. /\ requests' \in Seq(RequestType) /\ Len(requests') = L
      /\ \A m \in 1..L : requests'[m] = IF m = n THEN q ELSE requests[m]
  BY <1>1, ExceptSeq
<1>3. \A c, e : RouteOptions(c, e)' = RouteOptions(c, e)
  BY OptionsOfSameTable
<1> HIDE DEF L
<1>4. ASSUME NEW m \in 1..L PROVE AnswerFits(requests[m])'
  BY <1>1, <1>2, <1>3, <1>4 DEF AnswerFits, FormInv, L
<1> QED
  BY <1>1, <1>2, <1>4 DEF L

LEMMA ServeKeepsFormInv ==
  ASSUME FormInv, NEW n \in DOMAIN requests, Serve(n)
  PROVE  FormInv'
<1> DEFINE o == RouteOptions(requests[n].coin, requests[n].equivalent)
           q == [requests[n] EXCEPT !.at = "served", !.fresh = TRUE, !.pairs = o]
<1>1. requests[n] \in RequestType
  BY ElementOfSeq, LenProperties DEF FormInv
<1>2. o \in Pairs
  BY RouteOptionsType
<1>3. requests' = [requests EXCEPT ![n] = q] /\ rails' = rails /\ form' = form
  BY <1>1 DEF Serve, restVars, RequestType
<1> HIDE DEF o
<1>4. /\ q \in RequestType /\ q.coin = requests[n].coin
      /\ q.equivalent = requests[n].equivalent /\ q.pairs = o
  BY <1>1, <1>2 DEF RequestType
<1>5. AnswerFits(q)
  BY <1>4 DEF AnswerFits, o
<1> HIDE DEF q
<1>6. /\ requests' \in Seq(RequestType) /\ Len(requests') = Len(requests)
      /\ \A m \in 1..Len(requests) : /\ requests'[m].coin = requests[m].coin
                                    /\ requests'[m].equivalent = requests[m].equivalent
      /\ \A m \in 1..Len(requests') : AnswerFits(requests[m])'
  BY <1>3, <1>4, <1>5, ReplacedRequest
<1>7. \A c, e : RouteOptions(c, e)' = RouteOptions(c, e)
  BY <1>3, OptionsOfSameTable
<1>8. FormFits'
  BY <1>3, <1>6, <1>7 DEF FormFits, SelectionFits, FormInv
<1>9. LastAsked'
  BY <1>3, <1>6, LenProperties DEF LastAsked, FormInv
<1> QED
  BY <1>3, <1>6, <1>8, <1>9 DEF FormInv

(* A request that is over answers nothing any more.                          *)
LEMMA OverRequest ==
  ASSUME FormInv, NEW n \in DOMAIN requests, rails' = rails,
         requests' = [requests EXCEPT ![n] = [@ EXCEPT !.at = "over", !.pairs = {},
                                                       !.fresh = FALSE]]
  PROVE  /\ n \in 1..Len(requests)
         /\ requests' \in Seq(RequestType) /\ Len(requests') = Len(requests)
         /\ \A m \in 1..Len(requests) : /\ requests'[m].coin = requests[m].coin
                                       /\ requests'[m].equivalent = requests[m].equivalent
         /\ \A m \in 1..Len(requests') : AnswerFits(requests[m])'
<1> DEFINE q == [requests[n] EXCEPT !.at = "over", !.pairs = {}, !.fresh = FALSE]
<1>1. requests[n] \in RequestType
  BY ElementOfSeq, LenProperties DEF FormInv
<1>2. requests' = [requests EXCEPT ![n] = q]
  OBVIOUS
<1>3. /\ q \in RequestType /\ q.coin = requests[n].coin
      /\ q.equivalent = requests[n].equivalent /\ AnswerFits(q)
  BY <1>1 DEF RequestType, Pairs, AnswerFits
<1> HIDE DEF q
<1> QED
  BY <1>2, <1>3, ReplacedRequest

LEMMA ArrivesKeepsFormInv ==
  ASSUME FormInv, NEW n \in DOMAIN requests, Arrives(n)
  PROVE  FormInv'
<1> DEFINE q == requests[n]
<1>1. q \in RequestType /\ n \in 1..Len(requests) /\ form \in FormType
      /\ Len(requests) \in Nat /\ AnswerFits(q)
  BY ElementOfSeq, LenProperties DEF FormInv
<1>2. rails' = rails
  BY DEF Arrives, restVars
<1>a. PICK from \in Selected(FromChains(q.pairs), NoChain) :
        \E to \in Selected(ToChains(q.pairs, from), form.to) :
          form' = [form EXCEPT !.options = q.pairs, !.from = from, !.to = to,
                               !.shown = n, !.fresh = q.fresh]
  BY DEF Arrives
<1>3. PICK to \in Selected(ToChains(q.pairs, from), form.to) :
        form' = [form EXCEPT !.options = q.pairs, !.from = from, !.to = to,
                             !.shown = n, !.fresh = q.fresh]
  BY <1>a
<1>4. /\ q.at = "served"
      /\ requests' \in Seq(RequestType) /\ Len(requests') = Len(requests)
      /\ \A m \in 1..Len(requests) : /\ requests'[m].coin = requests[m].coin
                                    /\ requests'[m].equivalent = requests[m].equivalent
      /\ \A m \in 1..Len(requests') : AnswerFits(requests[m])'
  BY <1>2, OverRequest DEF Arrives
<1>5. \A c, e : RouteOptions(c, e)' = RouteOptions(c, e)
  BY <1>2, OptionsOfSameTable
<1>6. q.pairs \in Pairs /\ q.fresh \in BOOLEAN
  BY <1>1 DEF RequestType
<1>7. /\ from \in Chains \cup {NoChain} /\ to \in Chains \cup {NoChain}
      /\ q.pairs # {} => from \in FromChains(q.pairs) /\ to \in ToChains(q.pairs, from)
  BY <1>1, <1>6, SelectedFrom DEF FormType
<1>8. q.fresh => q.pairs = RouteOptions(q.coin, q.equivalent)
  BY <1>1, <1>4 DEF AnswerFits
<1> HIDE DEF q
<1>9. /\ form' \in FormType /\ form'.coin = form.coin /\ form'.equivalent = form.equivalent
      /\ form'.options = q.pairs /\ form'.from = from /\ form'.to = to
      /\ form'.shown = n /\ form'.fresh = q.fresh
  <2>1. n \in Nat
    BY <1>1
  <2> QED
    BY <1>1, <1>3, <1>6, <1>7, <2>1 DEF FormType
<1>10. FormFits'
  BY <1>1, <1>4, <1>5, <1>7, <1>8, <1>9 DEF FormFits, SelectionFits, q
<1>11. LastAsked'
  BY <1>1, <1>4, <1>9 DEF LastAsked, FormInv
<1> QED
  BY <1>4, <1>9, <1>10, <1>11 DEF FormInv

LEMMA FailsKeepsFormInv ==
  ASSUME FormInv, NEW n \in DOMAIN requests, Fails(n)
  PROVE  FormInv'
<1>1. form \in FormType /\ n \in 1..Len(requests) /\ Len(requests) \in Nat
  BY LenProperties DEF FormInv
<1>2. rails' = rails
  BY DEF Fails, restVars
<1>3. PICK from \in Selected(Chains, form.from), to \in Selected(Chains, form.to) :
        form' = [form EXCEPT !.options = NoOptions, !.from = from, !.to = to,
                             !.shown = n, !.fresh = FALSE]
  BY DEF Fails
<1>4. /\ requests' \in Seq(RequestType) /\ Len(requests') = Len(requests)
      /\ \A m \in 1..Len(requests) : /\ requests'[m].coin = requests[m].coin
                                    /\ requests'[m].equivalent = requests[m].equivalent
      /\ \A m \in 1..Len(requests') : AnswerFits(requests[m])'
  BY <1>2, OverRequest DEF Fails
<1>5. from \in Chains \cup {NoChain} /\ to \in Chains \cup {NoChain}
  BY DEF Selected
<1>6. /\ form' \in FormType /\ form'.coin = form.coin /\ form'.equivalent = form.equivalent
      /\ form'.fresh = FALSE
  <2>1. n \in Nat
    BY <1>1
  <2> QED
    BY <1>1, <1>3, <1>5, <2>1 DEF FormType
<1>7. LastAsked'
  BY <1>1, <1>4, <1>6 DEF LastAsked, FormInv
<1> QED
  BY <1>4, <1>6, <1>7 DEF FormInv, FormFits

(* The selects keep to the options that are shown.                           *)
LEMMA ChooseKeepsFormInv ==
  ASSUME FormInv, NEW c \in Chains, ChooseFrom(c) \/ ChooseTo(c)
  PROVE  FormInv'
<1>1. form \in FormType /\ rails' = rails /\ requests' = requests
  BY DEF FormInv, ChooseFrom, ChooseTo, restVars
<1>2. \A d, e : RouteOptions(d, e)' = RouteOptions(d, e)
  BY <1>1, OptionsOfSameTable
<1>3. form.options # NoOptions => form.options \in Pairs
  BY <1>1 DEF FormType
<1>4. form.fresh => form.options # NoOptions
  BY RouteOptionsType, FormAssumption DEF FormInv, FormFits, Pairs
<1>5. PICK from \in Chains \cup {NoChain}, to \in Chains \cup {NoChain} :
        /\ form' = [form EXCEPT !.from = from, !.to = to]
        /\ form.fresh /\ form.options # {} =>
             from \in FromChains(form.options) /\ to \in ToChains(form.options, from)
  <2>1. CASE ChooseFrom(c) /\ form.options = NoOptions
    <3>1. form' = [form EXCEPT !.from = c, !.to = form.to] /\ form.to \in Chains \cup {NoChain}
      BY <1>1, <2>1 DEF ChooseFrom, FormType
    <3> QED
      BY <1>4, <2>1, <3>1
  <2>2. CASE ChooseFrom(c) /\ form.options # NoOptions
    <3>1. PICK to \in Selected(ToChains(form.options, c), form.to) :
            form' = [form EXCEPT !.from = c, !.to = to]
      BY <2>2 DEF ChooseFrom
    <3>2. c \in FromChains(form.options)
      BY <2>2 DEF ChooseFrom
    <3>3. c \in Selected(FromChains(form.options), c)
      BY <3>2 DEF Selected
    <3>4. /\ to \in Chains \cup {NoChain, form.to} /\ form.to \in Chains \cup {NoChain}
          /\ form.options # {} => to \in ToChains(form.options, c)
      BY <1>1, <1>3, <2>2, <3>1, <3>3, SelectedFrom DEF FormType
    <3> QED
      BY <3>1, <3>2, <3>4
  <2>3. CASE ChooseTo(c)
    <3>1. form' = [form EXCEPT !.from = form.from, !.to = c]
          /\ form.from \in Chains \cup {NoChain}
      BY <1>1, <2>3 DEF ChooseTo, FormType
    <3>2. form.options # NoOptions => c \in ToChains(form.options, form.from)
      BY <2>3 DEF ChooseTo
    <3>3. form.fresh /\ form.options # {} => form.from \in FromChains(form.options)
      BY DEF FormInv, FormFits, SelectionFits
    <3> QED
      BY <1>4, <3>1, <3>2, <3>3
  <2> QED
    BY <2>1, <2>2, <2>3
<1>6. /\ form' \in FormType /\ form'.coin = form.coin /\ form'.equivalent = form.equivalent
      /\ form'.options = form.options /\ form'.from = from /\ form'.to = to
      /\ form'.shown = form.shown /\ form'.fresh = form.fresh
  BY <1>1, <1>5 DEF FormType
<1>7. FormFits'
  BY <1>1, <1>2, <1>5, <1>6 DEF FormFits, SelectionFits, FormInv
<1>8. LastAsked'
  BY <1>1, <1>6 DEF LastAsked, FormInv
<1>9. \A n \in 1..Len(requests) : AnswerFits(requests[n])'
  BY <1>1, <1>2 DEF AnswerFits, FormInv
<1> QED
  BY <1>1, <1>6, <1>7, <1>8, <1>9 DEF FormInv

LEMMA NextKeepsFormInv == FormInv /\ [Next]_vars => FormInv'
<1> SUFFICES ASSUME FormInv, [Next]_vars PROVE FormInv'
  OBVIOUS
<1>1. CASE UNCHANGED vars
  <2>1. form' = form /\ requests' = requests /\ rails' = rails
    BY <1>1 DEF vars, formVars, restVars
  <2>2. \A c, e : RouteOptions(c, e)' = RouteOptions(c, e)
    BY <2>1, OptionsOfSameTable
  <2> QED
    BY <2>1, <2>2 DEF FormInv, AnswerFits, FormFits, SelectionFits, LastAsked
<1>2. CASE OthersStep
  BY <1>2, OthersKeepFormInv
<1>3. CASE (\E c \in Coins : ChooseCoin(c)) \/ ToggleEquivalent
  <2>1. form.coin \in Coins /\ form.equivalent \in BOOLEAN /\ (~form.equivalent) \in BOOLEAN
    <3>1. form.coin \in Coins /\ form.equivalent \in BOOLEAN
      BY DEF FormInv, FormType
    <3> QED
      BY <3>1
  <2>2. ASSUME NEW c \in Coins, ChooseCoin(c) PROVE FormInv'
    <3>1. Ask(c, form.equivalent)
      BY <2>2 DEF ChooseCoin
    <3> QED
      BY <2>1, <3>1, AskKeepsFormInv
  <2>3. CASE ToggleEquivalent
    <3>1. Ask(form.coin, ~form.equivalent)
      BY <2>3 DEF ToggleEquivalent
    <3> QED
      BY <2>1, <3>1, AskKeepsFormInv
  <2> QED
    BY <1>3, <2>2, <2>3
<1>4. CASE \E n \in DOMAIN requests : Serve(n) \/ Arrives(n) \/ Fails(n)
  BY <1>4, ServeKeepsFormInv, ArrivesKeepsFormInv, FailsKeepsFormInv
<1>5. CASE \E c \in Chains : ChooseFrom(c) \/ ChooseTo(c)
  BY <1>5, ChooseKeepsFormInv
<1> QED
  BY <1>1, <1>2, <1>3, <1>4, <1>5 DEF Next

LEMMA FormInvariance == Spec => []FormInv
  BY InitFormInv, NextKeepsFormInv, PTL DEF Spec

(* The three statements read the table alike: a pair that is offered is a    *)
(* route, and a coin is routable if and only if a pair is offered.           *)
LEMMA OfferedIsRoute ==
  ASSUME NEW coin, NEW equivalent, NEW from, NEW to,
         <<from, to>> \in RouteOptions(coin, equivalent)
  PROVE  \E q \in Routes(coin, from, to, equivalent) :
           Chain(q[1]) = from /\ Chain(q[2]) = to
<1>1. PICK q \in Rails \X Rails :
        /\ Joins(q[1], q[2], equivalent) /\ Selects(coin, q[1], equivalent)
        /\ Open(q[1], "dep") /\ Open(q[2], "wd")
        /\ <<Chain(q[1]), Chain(q[2])>> = <<from, to>>
  BY DEF RouteOptions, Opened
<1>2. Chain(q[1]) = from /\ Chain(q[2]) = to
  BY <1>1
<1>3. q[1] \in Rails /\ q[2] \in Rails /\ \A i \in Rails : Chain(i) \in Chains
  BY RestAssumption DEF Rails, Chain
<1>4. from \in NamesOf[Chain(q[1])] /\ to \in NamesOf[Chain(q[2])]
  BY <1>2, <1>3, ChainsHaveTheirNames
<1> QED
  BY <1>1, <1>2, <1>3, <1>4 DEF Routes, Opened

LEMMA RoutableIsOffered ==
  ASSUME NEW c \in Coins
  PROVE  c \in RoutableCoins <=> RouteOptions(c, FALSE) # {}
<1>1. ASSUME NEW i \in Rails, NEW j \in Rails
      PROVE  Joins(i, j, FALSE) /\ Selects(c, i, FALSE)
               <=> Coin(i) = c /\ Coin(j) = c /\ Exchange(i) = Exchange(j)
  BY DEF Joins, Selects, Related
<1>2. c \in RoutableCoins <=>
        \E i, j \in Rails : /\ Coin(i) = c /\ Coin(j) = c /\ Exchange(i) = Exchange(j)
                           /\ Open(i, "dep") /\ Open(j, "wd")
  BY DEF RoutableCoins
<1>3. RouteOptions(c, FALSE) # {} <=>
        \E q \in Rails \X Rails : /\ Joins(q[1], q[2], FALSE) /\ Selects(c, q[1], FALSE)
                                 /\ Open(q[1], "dep") /\ Open(q[2], "wd")
  BY DEF RouteOptions, Opened
<1>4. ASSUME NEW i \in Rails, NEW j \in Rails,
             Joins(i, j, FALSE), Selects(c, i, FALSE), Open(i, "dep"), Open(j, "wd")
      PROVE  RouteOptions(c, FALSE) # {}
  <2>1. <<i, j>> \in Rails \X Rails /\ <<i, j>>[1] = i /\ <<i, j>>[2] = j
    OBVIOUS
  <2> QED
    BY <1>3, <1>4, <2>1
<1>5. ASSUME RouteOptions(c, FALSE) # {} PROVE c \in RoutableCoins
  <2>1. PICK q \in Rails \X Rails : /\ Joins(q[1], q[2], FALSE) /\ Selects(c, q[1], FALSE)
                                   /\ Open(q[1], "dep") /\ Open(q[2], "wd")
    BY <1>3, <1>5
  <2>2. q[1] \in Rails /\ q[2] \in Rails
    OBVIOUS
  <2> QED
    BY <1>1, <1>2, <2>1, <2>2
<1> QED
  BY <1>1, <1>2, <1>4, <1>5

LEMMA FormInvSuffices == FormInv => OffersLeadToRoutes
<1> SUFFICES ASSUME FormInv PROVE OffersLeadToRoutes
  OBVIOUS
<1>1. ASSUME form.shown = Len(requests), form.fresh, form.options # {}
      PROVE  \E q \in Routes(form.coin, form.from, form.to, form.equivalent) :
               Chain(q[1]) = form.from /\ Chain(q[2]) = form.to
  <2>1. /\ form.options = RouteOptions(form.coin, form.equivalent)
        /\ form.to \in ToChains(form.options, form.from)
    <3>1. Len(requests) \in Nat
      BY LenProperties DEF FormInv
    <3> QED
      BY <1>1, <3>1 DEF FormInv, FormFits, SelectionFits, LastAsked
  <2>2. form.options \in Pairs
    BY <2>1, RouteOptionsType
  <2>3. <<form.from, form.to>> \in form.options
    BY <2>1, <2>2 DEF ToChains, Pairs
  <2> QED
    BY <2>1, <2>3, OfferedIsRoute
<1> QED
  BY <1>1, RoutableIsOffered DEF OffersLeadToRoutes

(* A form that shows the answer to its last request offers only routes, in   *)
(* whatever order answers arrive, fail and overtake one another.             *)
THEOREM OffersAreRoutes == Spec => []OffersLeadToRoutes
  BY FormInvariance, FormInvSuffices, PTL

-----------------------------------------------------------------------------
(* Pages *)

UpTo(x, y)   == x = y \/ Ahead(x, y)
Ascending(q) == \A m, n \in DOMAIN q : m < n => Ahead(q[m], q[n])

(* The reader has everything that is due up to its cursor. *)
WalkInv ==
  /\ events \subseteq Events
  /\ DOMAIN walk = {"at", "open", "cursor", "got", "due"}
  /\ walk.at \in {"new", "paging", "ended"}
  /\ walk.cursor \in Nat /\ walk.got \in Seq(Nat \ {0})
  /\ walk.due \subseteq Matching
  /\ Ascending(walk.got)
  /\ walk.at = "new" => walk.got = <<>> /\ walk.cursor = NoCursor /\ walk.due = {}
  /\ walk.at = "paging" =>
       /\ walk.cursor # NoCursor
       /\ \A m \in DOMAIN walk.got : UpTo(walk.got[m], walk.cursor)
       /\ \A x \in walk.due : UpTo(x, walk.cursor) => x \in ToSet(walk.got)
  /\ walk.at = "ended" => walk.due \subseteq ToSet(walk.got)

(* A finite set has an element of every rank. *)
LEMMA Ranks ==
  ASSUME Beyond \subseteq Nat, IsFiniteSet(Beyond)
  PROVE  /\ Cardinality(Beyond) \in Nat
         /\ \A x \in Beyond : Rank(x) \in 0..(Cardinality(Beyond) - 1)
         /\ \A x \in Beyond, y \in Beyond : Ahead(x, y) <=> Rank(x) < Rank(y)
         /\ \A n \in 0..(Cardinality(Beyond) - 1) : \E x \in Beyond : Rank(x) = n
<1> DEFINE B == Beyond
           A(x) == {y \in B : Ahead(y, x)}
           c == Cardinality(B)
<1> HIDE DEF B
<1>1. B \subseteq Nat /\ IsFiniteSet(B) /\ c \in Nat
  BY FS_CardinalityType DEF B
<1>2. \A x : Rank(x) = Cardinality(A(x))
  BY DEF Rank, B
<1>3. /\ \A x \in B : ~Ahead(x, x)
      /\ \A x \in B, y \in B, z \in B : Ahead(x, y) /\ Ahead(y, z) => Ahead(x, z)
      /\ \A x \in B, y \in B : x = y \/ Ahead(x, y) \/ Ahead(y, x)
  <2>1. CASE reader = "events"
    BY <1>1, <2>1 DEF Ahead
  <2>2. CASE reader # "events"
    BY <1>1, <2>2 DEF Ahead
  <2> QED
    BY <2>1, <2>2
<1> HIDE DEF c
<1>4. \A x \in B : IsFiniteSet(A(x))
  <2> SUFFICES ASSUME NEW x \in B PROVE IsFiniteSet(A(x))
    OBVIOUS
  <2>1. A(x) \in SUBSET B
    OBVIOUS
  <2> QED
    BY <1>1, <2>1, FS_Subset
<1>5. \A x \in B : Rank(x) \in Nat /\ Rank(x) < c
  <2> SUFFICES ASSUME NEW x \in B PROVE Rank(x) \in Nat /\ Rank(x) < c
    OBVIOUS
  <2>1. A(x) \in SUBSET B /\ x \notin A(x)
    BY <1>3
  <2>2. Cardinality(A(x)) <= c /\ Cardinality(A(x)) # c
    BY <1>1, <2>1, FS_Subset DEF c
  <2>3. Cardinality(A(x)) \in Nat
    BY <1>4, FS_CardinalityType
  <2> HIDE DEF A
  <2> QED
    BY <1>1, <1>2, <2>2, <2>3
<1>6. \A x \in B, y \in B : Ahead(x, y) => Rank(x) < Rank(y)
  <2> SUFFICES ASSUME NEW x \in B, NEW y \in B, Ahead(x, y) PROVE Rank(x) < Rank(y)
    OBVIOUS
  <2>1. A(x) \in SUBSET A(y) /\ x \in A(y) /\ x \notin A(x)
    BY <1>3
  <2>2. IsFiniteSet(A(y)) /\ Rank(x) \in Nat /\ Rank(y) \in Nat
    BY <1>4, <1>5
  <2>3. Cardinality(A(x)) <= Cardinality(A(y)) /\ Cardinality(A(x)) # Cardinality(A(y))
    BY <2>1, <2>2, FS_Subset
  <2> HIDE DEF A
  <2> QED
    BY <1>2, <2>2, <2>3
<1> HIDE DEF A
<1>7. \A x \in B, y \in B : Rank(x) < Rank(y) => Ahead(x, y)
  <2> SUFFICES ASSUME NEW x \in B, NEW y \in B, Rank(x) < Rank(y) PROVE Ahead(x, y)
    OBVIOUS
  <2>1. Rank(x) \in Nat /\ Rank(y) \in Nat
    BY <1>5
  <2>2. x # y
    BY <2>1
  <2>3. ~Ahead(y, x)
    <3>1. Ahead(y, x) => Rank(y) < Rank(x)
      BY <1>6
    <3> QED
      BY <2>1, <3>1
  <2> QED
    BY <1>3, <2>2, <2>3
<1> DEFINE T == 0..(c - 1)
           f == [x \in B |-> Rank(x)]
<1>8. IsFiniteSet(T) /\ Cardinality(T) = c
  BY <1>1, FS_Interval
<1>9. \A x \in B : Rank(x) \in T
  BY <1>1, <1>5
<1> HIDE DEF T
<1>10. f \in Injection(B, T)
  <2>1. ASSUME NEW x \in B, NEW y \in B, Rank(x) = Rank(y) PROVE x = y
    <3>1. Rank(x) \in Nat /\ Rank(y) \in Nat
      BY <1>5
    <3>2. Ahead(x, y) => Rank(x) < Rank(y)
      BY <1>6
    <3>3. Ahead(y, x) => Rank(y) < Rank(x)
      BY <1>6
    <3> QED
      BY <1>3, <2>1, <3>1, <3>2, <3>3
  <2>2. f \in [B -> T]
    BY <1>9
  <2> QED
    BY <2>1, <2>2 DEF Injection, IsInjective
<1> HIDE DEF f
<1>11. f \in Surjection(B, T)
  <2>1. Cardinality(B) = Cardinality(T)
    BY <1>8 DEF c
  <2> QED
    BY <1>8, <1>10, <2>1, FS_Injection
<1>12. \A n \in T : \E x \in B : Rank(x) = n
  BY <1>11 DEF Surjection, f
<1>13. Cardinality(Beyond) = c /\ T = 0..(Cardinality(Beyond) - 1)
  BY DEF c, B, T
<1> QED
  BY <1>1, <1>6, <1>7, <1>9, <1>12, <1>13 DEF B

(* What is asked for is numbered from 1. *)
LEMMA BeyondIsFinite ==
  ASSUME events \subseteq Events
  PROVE  /\ Matching \subseteq Nat \ {0}
         /\ Beyond \subseteq Nat \ {0} /\ Beyond \subseteq Nat /\ IsFiniteSet(Beyond)
<1>1. Len(Keys) \in Nat /\ Rails = 1..Len(Keys)
  BY RestAssumption, LenProperties DEF Rails
<1>2. IsFiniteSet(Events) /\ IsFiniteSet(Rails)
  <2>1. 1 \in Int /\ LastEvent \in Int /\ Len(Keys) \in Int
    BY <1>1, RestAssumption
  <2> QED
    BY <1>1, <2>1, FS_Interval DEF Events
<1>3. Matching \subseteq Events \/ Matching \subseteq Rails
  BY DEF Matching, Matches
<1>4. Beyond \subseteq Matching
  BY DEF Beyond
<1>5. Beyond \in SUBSET Events \/ Beyond \in SUBSET Rails
  BY <1>3, <1>4
<1>6. IsFiniteSet(Beyond)
  BY <1>2, <1>5, FS_Subset
<1>7. Events \subseteq Nat \ {0} /\ Rails \subseteq Nat \ {0}
  BY <1>1, RestAssumption DEF Events
<1> QED
  BY <1>3, <1>4, <1>6, <1>7

LEMMA AheadOrders ==
  ASSUME NEW S \in SUBSET Nat
  PROVE  /\ \A x \in S : ~Ahead(x, x)
         /\ \A x \in S, y \in S, z \in S : Ahead(x, y) /\ Ahead(y, z) => Ahead(x, z)
<1>1. CASE reader = "events"
  BY <1>1 DEF Ahead
<1>2. CASE reader # "events"
  BY <1>2 DEF Ahead
<1> QED
  BY <1>1, <1>2

(* The rows that the statement returns are those of the first ranks. *)
LEMMA FetchedIs ==
  ASSUME Beyond \subseteq Nat \ {0}, Beyond \subseteq Nat, IsFiniteSet(Beyond)
  PROVE  /\ Cardinality(Beyond) \in Nat /\ Fetched \in Seq(Nat \ {0})
         /\ Len(Fetched) = IF Cardinality(Beyond) > Limit THEN Limit + 1 ELSE Cardinality(Beyond)
         /\ \A n \in 1..Len(Fetched) : Fetched[n] \in Beyond /\ Rank(Fetched[n]) = n - 1
         /\ \A x \in Beyond : Rank(x) < Len(Fetched) =>
              Rank(x) + 1 \in 1..Len(Fetched) /\ Fetched[Rank(x) + 1] = x
<1> DEFINE k == IF Cardinality(Beyond) > Limit THEN Limit + 1 ELSE Cardinality(Beyond)
           row(n) == CHOOSE x \in Beyond : Rank(x) = n - 1
<1>1. Cardinality(Beyond) \in Nat /\ Limit \in Nat \ {0} /\ k \in Nat /\ k <= Cardinality(Beyond)
  BY Ranks, RestAssumption
<1>2. Fetched = [n \in 1..k |-> row(n)]
  BY DEF Fetched
<1>3. \A n \in 1..k : row(n) \in Beyond /\ Rank(row(n)) = n - 1
  <2> SUFFICES ASSUME NEW n \in 1..k PROVE row(n) \in Beyond /\ Rank(row(n)) = n - 1
    OBVIOUS
  <2>1. n - 1 \in 0..(Cardinality(Beyond) - 1)
    BY <1>1
  <2>2. \E x \in Beyond : Rank(x) = n - 1
    BY <2>1, Ranks
  <2> QED
    BY <2>2
<1> HIDE DEF k, row
<1>4. Fetched \in Seq(Nat \ {0}) /\ Len(Fetched) = k
  <2> DEFINE q == Fetched
             S == Nat \ {0}
  <2>1. DOMAIN q = 1..k /\ q \in [1..k -> S]
    BY <1>2, <1>3
  <2> HIDE DEF q, S
  <2>2. q \in Seq(S) /\ Len(q) = k
    BY <1>1, <2>1
  <2> QED
    BY <2>2 DEF q, S
<1>5. \A n \in 1..k : Fetched[n] \in Beyond /\ Rank(Fetched[n]) = n - 1
  BY <1>2, <1>3
<1>6. ASSUME NEW x \in Beyond, Rank(x) < k
      PROVE  Rank(x) + 1 \in 1..k /\ Fetched[Rank(x) + 1] = x
  <2>1. Rank(x) \in Nat
    BY <1>1, Ranks
  <2>2. Rank(x) + 1 \in 1..k /\ (Rank(x) + 1) - 1 = Rank(x)
    BY <1>1, <1>6, <2>1
  <2> DEFINE y == Fetched[Rank(x) + 1]
  <2>3. y \in Beyond /\ Rank(y) = Rank(x)
    BY <1>5, <2>2
  <2> HIDE DEF y
  <2>4. ~Ahead(x, y) /\ ~Ahead(y, x)
    <3>1. ~(Rank(x) < Rank(y)) /\ ~(Rank(y) < Rank(x))
      BY <2>1, <2>3
    <3> QED
      BY <2>3, <3>1, Ranks
  <2>5. x \in Nat /\ y \in Nat
    BY <2>3
  <2>6. y = x
    BY <2>4, <2>5 DEF Ahead
  <2> QED
    BY <2>2, <2>6 DEF y
<1> QED
  BY <1>1, <1>4, <1>5, <1>6 DEF k

(* A page has the rows that follow the cursor up to the next one, in order. *)
LEMMA PageIs ==
  ASSUME Beyond \subseteq Nat \ {0}, Beyond \subseteq Nat, IsFiniteSet(Beyond)
  PROVE  /\ Shown \in Seq(Nat \ {0}) /\ Ascending(Shown)
         /\ \A m \in DOMAIN Shown : Shown[m] \in Beyond
         /\ More => /\ NextCursor \in Beyond
                    /\ \A m \in DOMAIN Shown : UpTo(Shown[m], NextCursor)
                    /\ \A x \in Beyond : UpTo(x, NextCursor) => x \in ToSet(Shown)
         /\ ~More => NextCursor = NoCursor /\ Beyond \subseteq ToSet(Shown)
<1> DEFINE c == Cardinality(Beyond)
           k == Len(Fetched)
           l == IF More THEN Limit ELSE k
<1>1. /\ c \in Nat /\ Limit \in Nat \ {0} /\ Fetched \in Seq(Nat \ {0}) /\ k \in Nat
      /\ k = IF c > Limit THEN Limit + 1 ELSE c
  BY FetchedIs, RestAssumption
<1>2. \A n \in 1..k : Fetched[n] \in Beyond /\ Fetched[n] \in Nat \ {0} /\ Rank(Fetched[n]) = n - 1
  BY FetchedIs
<1>3. \A x \in Beyond : Rank(x) < k => Rank(x) + 1 \in 1..k /\ Fetched[Rank(x) + 1] = x
  BY FetchedIs
<1>4. \A x \in Beyond : Rank(x) \in Nat /\ Rank(x) < c
  <2>1. \A x \in Beyond : Rank(x) \in 0..(c - 1)
    BY Ranks
  <2> HIDE DEF c
  <2> QED
    BY <1>1, <2>1
<1>5. More <=> k > Limit
  BY DEF More
<1> HIDE DEF k
<1>6. l \in Nat /\ l <= k /\ (~More => l = k) /\ (More => l = Limit /\ l < k)
  BY <1>1, <1>5
<1> HIDE DEF l
<1>7. Shown \in Seq(Nat \ {0}) /\ Len(Shown) = l /\ \A m \in 1..l : Shown[m] = Fetched[m]
  <2>1. CASE More
    <3>1. Shown = SubSeq(Fetched, 1, l) /\ 1 \in Int /\ l \in Int
      BY <1>6, <2>1 DEF Shown
    <3>2. \A i \in 1..l : Fetched[i] \in Nat \ {0}
      BY <1>1, <1>2, <1>6
    <3> QED
      BY <1>6, <3>1, <3>2, SubSeqProperties
  <2>2. CASE ~More
    BY <1>1, <1>6, <2>2 DEF Shown, k
  <2> QED
    BY <2>1, <2>2
<1>8. DOMAIN Shown = 1..l
  BY <1>7, LenProperties
<1>9. \A m \in 1..l : m \in 1..k /\ Shown[m] = Fetched[m] /\ Shown[m] \in Beyond /\ Rank(Shown[m]) = m - 1
  BY <1>1, <1>2, <1>6, <1>7
<1>10. \A x \in Beyond, y \in Beyond : Ahead(x, y) <=> Rank(x) < Rank(y)
  BY Ranks
<1>11. Ascending(Shown)
  <2> SUFFICES ASSUME NEW m \in 1..l, NEW n \in 1..l, m < n PROVE Ahead(Shown[m], Shown[n])
    BY <1>8 DEF Ascending
  <2>1. Rank(Shown[m]) < Rank(Shown[n])
    BY <1>9
  <2> QED
    BY <1>9, <1>10, <2>1
<1>12. ASSUME NEW x \in Beyond, Rank(x) < l PROVE x \in ToSet(Shown)
  <2>1. Rank(x) < k
    BY <1>1, <1>4, <1>6, <1>12
  <2>2. Rank(x) + 1 \in 1..l /\ Fetched[Rank(x) + 1] = x
    BY <1>3, <1>4, <1>6, <1>12, <2>1
  <2>3. Shown[Rank(x) + 1] = x
    BY <1>7, <2>2
  <2> QED
    BY <1>8, <2>2, <2>3 DEF ToSet
<1>13. ASSUME More
       PROVE  /\ NextCursor \in Beyond
              /\ \A m \in DOMAIN Shown : UpTo(Shown[m], NextCursor)
              /\ \A x \in Beyond : UpTo(x, NextCursor) => x \in ToSet(Shown)
  <2>1. l \in 1..l /\ l = Limit
    BY <1>1, <1>6, <1>13
  <2>2. NextCursor = Fetched[l]
    BY <1>13, <2>1 DEF NextCursor
  <2>3. NextCursor \in Beyond /\ Rank(NextCursor) = l - 1 /\ NextCursor = Shown[l]
    BY <1>9, <2>1, <2>2
  <2>4. ASSUME NEW m \in 1..l PROVE UpTo(Shown[m], NextCursor)
    <3>1. CASE m = l
      BY <2>3, <3>1 DEF UpTo
    <3>2. CASE m < l
      BY <1>8, <1>11, <2>1, <2>3, <3>2 DEF Ascending, UpTo
    <3> QED
      BY <1>6, <3>1, <3>2
  <2>5. ASSUME NEW x \in Beyond, UpTo(x, NextCursor) PROVE x \in ToSet(Shown)
    <3>1. Rank(x) < l
      <4>1. x = NextCursor \/ Rank(x) < l - 1
        BY <1>10, <2>3, <2>5 DEF UpTo
      <4> QED
        BY <1>4, <1>6, <2>3, <4>1
    <3> QED
      BY <1>12, <3>1
  <2> QED
    BY <1>8, <2>3, <2>4, <2>5
<1>14. ASSUME ~More PROVE NextCursor = NoCursor /\ Beyond \subseteq ToSet(Shown)
  <2>1. l = c
    BY <1>1, <1>5, <1>6, <1>14
  <2> QED
    BY <1>4, <1>12, <1>14, <2>1 DEF NextCursor
<1> QED
  BY <1>7, <1>8, <1>9, <1>11, <1>13, <1>14

(* GetPage: the page is put behind what the reader has. *)
LEMMA ExtendedWalk ==
  ASSUME NEW S, NEW g \in Seq(S), NEW p \in Seq(S)
  PROVE  /\ g \o p \in Seq(S) /\ ToSet(g \o p) = ToSet(g) \cup ToSet(p)
         /\ Ascending(g) /\ Ascending(p)
              /\ (\A m \in DOMAIN g : \A n \in DOMAIN p : Ahead(g[m], p[n])) => Ascending(g \o p)
         /\ \A m \in DOMAIN (g \o p) : (g \o p)[m] \in ToSet(g) \cup ToSet(p)
<1> DEFINE q == g \o p
<1>1. /\ Len(g) \in Nat /\ Len(p) \in Nat /\ DOMAIN g = 1..Len(g) /\ DOMAIN p = 1..Len(p)
      /\ q \in Seq(S) /\ DOMAIN q = 1..(Len(g) + Len(p))
      /\ \A i \in 1..(Len(g) + Len(p)) : q[i] = IF i <= Len(g) THEN g[i] ELSE p[i - Len(g)]
  BY ConcatProperties, LenProperties
<1> HIDE DEF q
<1>2. \A i \in DOMAIN g : i \in DOMAIN q /\ q[i] = g[i]
  BY <1>1
<1>3. \A i \in DOMAIN p : Len(g) + i \in DOMAIN q /\ q[Len(g) + i] = p[i]
  BY <1>1
<1>4. ASSUME NEW i \in DOMAIN q
      PROVE  \/ i \in DOMAIN g /\ q[i] = g[i]
             \/ i > Len(g) /\ i - Len(g) \in DOMAIN p /\ q[i] = p[i - Len(g)]
  BY <1>1
<1>5. ToSet(q) = ToSet(g) \cup ToSet(p)
  BY <1>2, <1>3, <1>4 DEF ToSet
<1>6. ASSUME Ascending(g), Ascending(p), \A m \in DOMAIN g : \A n \in DOMAIN p : Ahead(g[m], p[n]),
             NEW i \in DOMAIN q, NEW j \in DOMAIN q, i < j
      PROVE  Ahead(q[i], q[j])
  <2>1. CASE j \in DOMAIN g
    <3>1. i \in DOMAIN g
      BY <1>1, <1>6, <2>1
    <3> QED
      BY <1>2, <1>6, <2>1, <3>1 DEF Ascending
  <2>2. CASE i \in DOMAIN g /\ j \notin DOMAIN g
    <3>1. j - Len(g) \in DOMAIN p /\ q[j] = p[j - Len(g)]
      BY <1>4, <2>2
    <3>2. q[i] = g[i]
      BY <1>2, <2>2
    <3> QED
      BY <1>6, <2>2, <3>1, <3>2
  <2>3. CASE i \notin DOMAIN g /\ j \notin DOMAIN g
    <3>1. /\ i - Len(g) \in DOMAIN p /\ q[i] = p[i - Len(g)]
          /\ j - Len(g) \in DOMAIN p /\ q[j] = p[j - Len(g)] /\ i - Len(g) < j - Len(g)
      BY <1>1, <1>4, <1>6, <2>3
    <3> QED
      BY <1>6, <3>1 DEF Ascending
  <2> QED
    BY <2>1, <2>2, <2>3
<1>7. \A m \in DOMAIN q : q[m] \in ToSet(q)
  BY DEF ToSet
<1> QED
  BY <1>1, <1>5, <1>6, <1>7 DEF Ascending, q

LEMMA PageKeepsWalkInv ==
  ASSUME WalkInv, GetPage
  PROVE  WalkInv'
<1> DEFINE g == walk.got
           due == IF walk.at = "new" THEN Matching ELSE walk.due
<1>1. /\ events \subseteq Events /\ Matching \subseteq Nat \ {0}
      /\ Beyond \subseteq Nat \ {0} /\ Beyond \subseteq Nat /\ IsFiniteSet(Beyond)
  BY BeyondIsFinite DEF WalkInv
<1>2. /\ UNCHANGED <<reader, rails, events, since>>
      /\ walk' = [walk EXCEPT !.at = IF More THEN "paging" ELSE "ended",
                              !.cursor = NextCursor, !.got = @ \o Shown, !.due = due]
      /\ walk.at # "ended"
  BY DEF GetPage
<1> HIDE DEF due
<1>3. /\ walk'.at = (IF More THEN "paging" ELSE "ended") /\ walk'.cursor = NextCursor
      /\ walk'.got = g \o Shown /\ walk'.due = due /\ walk'.open = walk.open
      /\ DOMAIN walk' = {"at", "open", "cursor", "got", "due"}
  BY <1>2 DEF WalkInv
<1>4. \A x, y : Ahead(x, y)' <=> Ahead(x, y)
  BY <1>2 DEF Ahead
<1>5. Matching' = Matching
  BY <1>2, <1>3 DEF Matching, Matches
<1>6. g \in Seq(Nat \ {0}) /\ Shown \in Seq(Nat \ {0}) /\ Ascending(g) /\ Ascending(Shown)
  BY <1>1, PageIs DEF WalkInv
<1>7. due \subseteq Matching
  BY DEF due, WalkInv
<1>8. ASSUME NEW x \in due, x \notin Beyond PROVE x \in ToSet(g)
  <2>1. walk.cursor # NoCursor /\ ~Ahead(walk.cursor, x)
    BY <1>7, <1>8 DEF Beyond
  <2>2. walk.at = "paging" /\ x \in walk.due /\ walk.cursor \in Nat /\ x \in Nat
    BY <1>1, <1>2, <1>7, <2>1 DEF WalkInv, due
  <2>3. UpTo(x, walk.cursor)
    BY <2>1, <2>2 DEF UpTo, Ahead
  <2> QED
    BY <2>2, <2>3 DEF WalkInv
<1>9. ASSUME NEW m \in DOMAIN g, NEW y \in Beyond PROVE Ahead(g[m], y)
  <2>1. walk.at = "paging"
    BY <1>2 DEF WalkInv
  <2>2. UpTo(g[m], walk.cursor) /\ walk.cursor # NoCursor
    BY <2>1 DEF WalkInv
  <2>3. Ahead(walk.cursor, y)
    BY <2>2 DEF Beyond
  <2>4. g[m] \in Nat /\ y \in Nat /\ walk.cursor \in Nat
    BY <1>1, <1>6, ElementOfSeq, LenProperties DEF WalkInv
  <2> QED
    BY <2>2, <2>3, <2>4 DEF UpTo, Ahead
<1>10. \A m \in DOMAIN g : \A n \in DOMAIN Shown : Ahead(g[m], Shown[n])
  BY <1>1, <1>9, PageIs
<1>11. /\ walk'.got \in Seq(Nat \ {0}) /\ ToSet(walk'.got) = ToSet(g) \cup ToSet(Shown)
       /\ \A m \in DOMAIN walk'.got : walk'.got[m] \in ToSet(g) \cup ToSet(Shown)
       /\ Ascending(walk'.got)
  BY <1>3, <1>6, <1>10, ExtendedWalk
<1>12. Ascending(walk.got)'
  BY <1>4, <1>11 DEF Ascending
<1>13. CASE More
  <2>1. /\ NextCursor \in Beyond /\ \A m \in DOMAIN Shown : UpTo(Shown[m], NextCursor)
        /\ \A x \in Beyond : UpTo(x, NextCursor) => x \in ToSet(Shown)
    BY <1>1, <1>13, PageIs
  <2>2. \A z \in ToSet(g) \cup ToSet(Shown) : UpTo(z, NextCursor)
    BY <1>9, <2>1 DEF ToSet, UpTo
  <2>3. \A m \in DOMAIN walk'.got : UpTo(walk'.got[m], NextCursor)
    BY <1>11, <2>2
  <2>4. \A x \in due : UpTo(x, NextCursor) => x \in ToSet(walk'.got)
    BY <1>8, <1>11, <2>1
  <2>5. \A x, y : UpTo(x, y)' <=> UpTo(x, y)
    BY <1>2 DEF UpTo, Ahead
  <2>6. NextCursor # NoCursor /\ NextCursor \in Nat
    BY <1>1, <2>1 DEF NoCursor
  <2>7. \A m \in DOMAIN walk'.got : UpTo(walk.got[m], walk.cursor)'
    BY <1>2, <1>3, <2>3 DEF UpTo, Ahead
  <2>8. \A x \in walk'.due : UpTo(x, walk.cursor)' => x \in ToSet(walk'.got)
    BY <1>2, <1>3, <2>4 DEF UpTo, Ahead
  <2> QED
    BY <1>1, <1>2, <1>3, <1>5, <1>7, <1>11, <1>12, <1>13, <2>6, <2>7, <2>8 DEF WalkInv
<1>14. CASE ~More
  <2>1. NextCursor = NoCursor /\ Beyond \subseteq ToSet(Shown)
    BY <1>1, <1>14, PageIs
  <2>2. due \subseteq ToSet(walk'.got)
    BY <1>8, <1>11, <2>1
  <2>3. NoCursor \in Nat
    BY DEF NoCursor
  <2> QED
    BY <1>1, <1>2, <1>3, <1>5, <1>7, <1>11, <1>12, <1>14, <2>1, <2>2, <2>3 DEF WalkInv
<1> QED
  BY <1>13, <1>14

(* Rows are stored, events commit, the window moves: what still matches stays due. *)
LEMMA StillDueKeepsWalkInv ==
  ASSUME WalkInv, StillDue, UNCHANGED reader, events' \subseteq Events
  PROVE  WalkInv'
<1>1. walk' = [walk EXCEPT !.due = @ \cap Matches(rails', events', since')]
  BY DEF StillDue
<1>2. /\ walk'.at = walk.at /\ walk'.open = walk.open /\ walk'.cursor = walk.cursor
      /\ walk'.got = walk.got /\ walk'.due = walk.due \cap Matches(rails', events', since')
      /\ DOMAIN walk' = DOMAIN walk
  BY <1>1 DEF WalkInv
<1>3. Matching' = Matches(rails', events', since')
  BY <1>2 DEF Matching, Matches
<1>4. Ascending(walk.got)'
  BY <1>2 DEF WalkInv, Ascending, Ahead
<1>5. \A m \in DOMAIN walk.got : UpTo(walk.got[m], walk.cursor)' <=> UpTo(walk.got[m], walk.cursor)
  BY <1>2 DEF UpTo, Ahead
<1>6. \A x : UpTo(x, walk.cursor)' <=> UpTo(x, walk.cursor)
  BY <1>2 DEF UpTo, Ahead
<1> QED
  BY <1>2, <1>3, <1>4, <1>5, <1>6 DEF WalkInv

LEMMA InitWalkInv == Init => WalkInv
<1> SUFFICES ASSUME Init PROVE WalkInv
  OBVIOUS
<1>1. PICK open \in BOOLEAN :
        walk = [at |-> "new", open |-> open, cursor |-> NoCursor, got |-> <<>>, due |-> {}]
  BY DEF Init, RestInit
<1>2. events = {}
  BY DEF Init, RestInit
<1>3. <<>> \in Seq(Nat \ {0}) /\ DOMAIN <<>> = {}
  OBVIOUS
<1> QED
  BY <1>1, <1>2, <1>3 DEF WalkInv, Ascending, NoCursor

LEMMA NextKeepsWalkInv == WalkInv /\ [Next]_vars => WalkInv'
<1> SUFFICES ASSUME WalkInv, [Next]_vars PROVE WalkInv'
  OBVIOUS
<1>1. CASE UNCHANGED restVars
  <2>1. UNCHANGED <<reader, rails, events, since, walk>>
    BY <1>1 DEF restVars
  <2>2. Matching' = Matching /\ Ascending(walk.got)' = Ascending(walk.got)
    BY <2>1 DEF Matching, Matches, Ascending, Ahead
  <2>3. \A x, y : UpTo(x, y)' <=> UpTo(x, y)
    BY <2>1 DEF UpTo, Ahead
  <2>4. /\ \A m \in DOMAIN walk.got : UpTo(walk.got[m], walk.cursor)' <=> UpTo(walk.got[m], walk.cursor)
        /\ \A x : UpTo(x, walk.cursor)' <=> UpTo(x, walk.cursor)
    BY <2>1 DEF UpTo, Ahead
  <2> QED
    BY <2>1, <2>2, <2>4 DEF WalkInv
<1>2. CASE GetPage
  BY <1>2, PageKeepsWalkInv
<1>3. ASSUME NEW i \in Rails, NEW row \in Rows[reader], StoreRail(i, row) PROVE WalkInv'
  BY <1>3, StillDueKeepsWalkInv DEF StoreRail, WalkInv
<1>4. ASSUME NEW e \in Events, CommitEvent(e) PROVE WalkInv'
  BY <1>4, StillDueKeepsWalkInv DEF CommitEvent, WalkInv
<1>5. CASE WindowMoves
  BY <1>5, StillDueKeepsWalkInv DEF WindowMoves, WalkInv
<1>6. CASE OthersStep
  BY <1>2, <1>3, <1>4, <1>5, <1>6 DEF OthersStep, RestNext
<1>7. CASE ~OthersStep
  <2>1. UNCHANGED restVars
    BY <1>7 DEF Next, ChooseCoin, ToggleEquivalent, Ask, Serve, Arrives, Fails,
                ChooseFrom, ChooseTo, vars
  <2> QED
    BY <1>1, <2>1
<1> QED
  BY <1>6, <1>7

(* Whoever follows next_cursor gets nothing twice, everything in order, and  *)
(* at the end all that has matched from the first page to the last: for      *)
(* every size of a page, and whatever is stored, commits, or leaves the      *)
(* window in between.                                                        *)
THEOREM PagesComplete == Spec => []PagesAreComplete
<1>1. WalkInv => PagesAreComplete
  BY DEF WalkInv, Ascending, PagesAreComplete
<1> QED
  BY <1>1, InitWalkInv, NextKeepsWalkInv, PTL DEF Spec

===============================================================================
