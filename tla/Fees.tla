--------------------------------- MODULE Fees ---------------------------------
(***************************************************************************)
(* What a rail costs, as the adapters read it, the runner merges it and    *)
(* the API tells it: a fixed fee, a rate in percent, and the type that     *)
(* says which of them apply.                                               *)
(***************************************************************************)
EXTENDS Integers

CONSTANTS
  Amounts,  (* fees and rates                                               *)
  NoAmount  (* a null or empty number                                       *)

ASSUME AmountAssumption == Amounts \subseteq Nat /\ NoAmount \notin Int

Amount   == Amounts \cup {NoAmount}
FeeTypes == {"", "fixed", "percent", "hybrid"}

FeeType(fee, rate) ==
  CASE fee # NoAmount /\ rate # NoAmount -> "hybrid"
    [] fee # NoAmount /\ rate = NoAmount -> "fixed"
    [] fee = NoAmount /\ rate # NoAmount -> "percent"
    [] OTHER                             -> ""

-----------------------------------------------------------------------------
(* mergeRail: two rails whose names resolve to one coin and one chain          *)

(* What is merged: the status and the fees of a rail.  A rate that the exchange *)
(* gives as a fraction has become percent, and need not be one of Amounts.     *)
AnyAmount == Nat \cup {NoAmount}
Terms ==
  [dep : BOOLEAN, wd : BOOLEAN, fee : AnyAmount, rate : AnyAmount, type : FeeTypes]

MinAmount(x, y) ==
  IF x = NoAmount THEN y ELSE IF y = NoAmount \/ x <= y THEN x ELSE y

MergeFeeType(x, y) == IF x = "" THEN y ELSE IF y = "" \/ x = y THEN x ELSE "hybrid"

(* Slip: the rates are not merged. *)
SlipMergeRail(x, y) ==
  [dep  |-> x.dep \/ y.dep,
   wd   |-> x.wd \/ y.wd,
   fee  |-> MinAmount(x.fee, y.fee),
   rate |-> x.rate,
   type |-> MergeFeeType(x.type, y.type)]

MergeRail(x, y) ==
  [dep  |-> x.dep \/ y.dep,
   wd   |-> x.wd \/ y.wd,
   fee  |-> MinAmount(x.fee, y.fee),
   rate |-> MinAmount(x.rate, y.rate),
   type |-> MergeFeeType(x.type, y.type)]

===============================================================================
