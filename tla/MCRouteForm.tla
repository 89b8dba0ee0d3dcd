------------------------------ MODULE MCRouteForm ------------------------------
(* Instances of RouteForm for TLC: one coin and its wrapped form on two chains and *)
(* two exchanges, rows for each reader, and a name that two chains share.      *)
EXTENDS RouteForm, TLC

CONSTANTS btc, wbtc, main, side, okx, upbit

RailKeys ==
  << <<btc, main, okx>>, <<btc, main, upbit>>, <<btc, side, okx>>, <<wbtc, side, upbit>> >>

Priced(dep, wd, fee, rate) ==
  [active |-> TRUE, dep |-> dep, wd |-> wd, fee |-> fee, rate |-> rate,
   type |-> FeeType(fee, rate)]
Free(dep, wd) == Priced(dep, wd, 0, NoAmount)
Inactive      == [Free(TRUE, TRUE) EXCEPT !.active = FALSE]

Stored ==
  [r \in {"rails", "events", "form", "fees"} |->
     CASE r = "rails"  -> {Free(TRUE, TRUE), Free(FALSE, TRUE), Inactive}
       [] r = "events" -> {}
       [] r = "form"   -> {Free(TRUE, TRUE), Free(TRUE, FALSE)}
       [] r = "fees"   -> {Priced(TRUE, TRUE, f, p) : f \in {NoAmount, 1}, p \in {NoAmount, 2}}]

Equivalents == {{btc, wbtc}}

(* A chain is found by its slug; the alias of the other is the slug of the first. *)
Named == [c \in {main, side} |-> IF c = main THEN {main} ELSE {main, side}]

===============================================================================
