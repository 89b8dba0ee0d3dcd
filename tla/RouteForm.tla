------------------------------- MODULE RouteForm -------------------------------
(***************************************************************************)
(* The route form of the web UI (internal/api/web/static/app.js): a coin,  *)
(* whether equivalent assets count, and two chains, which it takes from    *)
(* the answers of /v1/route-options.  Each change of the coin or of the    *)
(* box asks again; answers arrive in any order, or fail, while polls go on *)
(* storing rails.                                                          *)
(***************************************************************************)
EXTENDS RestApi

CONSTANTS
  MaxRequests, (* bound: requests for route options                         *)
  NoOptions,   (* state.routeOptions is null                                *)
  NoChain      (* a select without options                                  *)

ASSUME FormAssumption ==
  /\ MaxRequests \in Nat \ {0}
  /\ NoChain \notin Chains
  /\ \A options \in SUBSET (Chains \X Chains) : options # NoOptions

VARIABLES
  form,     (* what the page shows                                          *)
  requests  (* to /v1/route-options, in the order in which they were sent   *)

formVars == <<form, requests>>
vars     == <<restVars, formVars>>

(* fresh: history, no rail was stored since the answer was computed. *)
Request(coin, equivalent) ==
  [coin |-> coin, equivalent |-> equivalent, at |-> "sent", pairs |-> {}, fresh |-> FALSE]

(* shown: the request whose answer is shown. *)
Init ==
  /\ RestInit
  /\ \E c \in Coins :
       /\ form = [coin |-> c, equivalent |-> FALSE, options |-> NoOptions, from |-> NoChain,
                  to |-> NoChain, shown |-> 0, fresh |-> FALSE]
       /\ requests = IF reader = "form" THEN <<Request(c, FALSE)>> ELSE <<>>

(* refreshRouteOptions, up to its await. *)
Ask(coin, equivalent) ==
  /\ reader = "form" /\ Len(requests) < MaxRequests
  /\ form' = [form EXCEPT !.coin = coin, !.equivalent = equivalent]
  /\ requests' = Append(requests, Request(coin, equivalent))
  /\ UNCHANGED restVars

(* The change event of #coin-select. *)
ChooseCoin(c) == c # form.coin /\ Ask(c, form.equivalent)

(* The change event of #equivalent-assets-input. *)
ToggleEquivalent == Ask(form.coin, ~form.equivalent)

(* listRouteOptions *)
Serve(n) ==
  /\ requests[n].at = "sent"
  /\ requests' = [requests EXCEPT ![n].at = "served", ![n].fresh = TRUE,
                    ![n].pairs = RouteOptions(requests[n].coin, requests[n].equivalent)]
  /\ UNCHANGED <<restVars, form>>

FromChains(pairs)     == {p[1] : p \in pairs}

(* Slip: the destinations of every source. *)
SlipToChains(pairs, from) == {p[2] : p \in pairs}

(* routeToChainsForFrom *)
ToChains(pairs, from) == {p[2] : p \in {q \in pairs : q[1] = from}}

(* fillSelect: the value stays if it is offered, otherwise it is one of those that *)
(* are: the preferred or the first.                                            *)
Selected(offered, value) ==
  IF value \in offered THEN {value} ELSE IF offered = {} THEN {NoChain} ELSE offered

(* applyRouteOptionsToChainSelects: the source starts afresh, the destination stays *)
(* if it can.                                                                  *)
Arrives(n) ==
  /\ requests[n].at = "served"
  /\ \E from \in Selected(FromChains(requests[n].pairs), NoChain) :
       \E to \in Selected(ToChains(requests[n].pairs, from), form.to) :
         form' = [form EXCEPT !.options = requests[n].pairs, !.from = from, !.to = to,
                              !.shown = n, !.fresh = requests[n].fresh]
  /\ requests' = [requests EXCEPT ![n] = [@ EXCEPT !.at = "over", !.pairs = {}, !.fresh = FALSE]]
  /\ UNCHANGED restVars

(* The catch of refreshRouteOptions: every chain is offered. *)
Fails(n) ==
  /\ requests[n].at # "over"
  /\ \E from \in Selected(Chains, form.from), to \in Selected(Chains, form.to) :
       form' = [form EXCEPT !.options = NoOptions, !.from = from, !.to = to,
                            !.shown = n, !.fresh = FALSE]
  /\ requests' = [requests EXCEPT ![n] = [@ EXCEPT !.at = "over", !.pairs = {}, !.fresh = FALSE]]
  /\ UNCHANGED restVars

(* The change event of #from-chain-select; without options only the select changes. *)
ChooseFrom(c) ==
  /\ c # form.from
  /\ IF form.options = NoOptions
     THEN c \in Chains /\ form.from # NoChain /\ form' = [form EXCEPT !.from = c]
     ELSE /\ c \in FromChains(form.options)
          /\ \E to \in Selected(ToChains(form.options, c), form.to) :
               form' = [form EXCEPT !.from = c, !.to = to]
  /\ UNCHANGED <<restVars, requests>>

ChooseTo(c) ==
  /\ c # form.to
  /\ IF form.options = NoOptions THEN c \in Chains /\ form.to # NoChain
                                 ELSE c \in ToChains(form.options, form.from)
  /\ form' = [form EXCEPT !.to = c]
  /\ UNCHANGED <<restVars, requests>>

(* What is stored makes older answers stale. *)
OthersStep ==
  /\ RestNext
  /\ form' = [form EXCEPT !.fresh = @ /\ rails' = rails]
  /\ requests' = [n \in DOMAIN requests |->
                    [requests[n] EXCEPT !.fresh = @ /\ rails' = rails]]

Next ==
  \/ OthersStep
  \/ \E c \in Coins : ChooseCoin(c)
  \/ ToggleEquivalent
  \/ \E n \in DOMAIN requests : Serve(n) \/ Arrives(n) \/ Fails(n)
  \/ \E c \in Chains : ChooseFrom(c) \/ ChooseTo(c)

Spec == Init /\ [][Next]_vars

-----------------------------------------------------------------------------
(* Properties *)

(* A form that shows the answer to its last request, with the button enabled, finds a *)
(* route between exactly the chains it has selected as long as no rail changes: *)
(* /v1/coins?routable, /v1/route-options and /v1/routes read the table alike, and *)
(* the form keeps to what it was told.  Answers that overtake a later one      *)
(* leave the options of another coin behind.                                   *)
OffersLeadToRoutes ==
  /\ form.shown = Len(requests) /\ form.fresh /\ form.options # {} =>
       \E q \in Routes(form.coin, form.from, form.to, form.equivalent) :
         Chain(q[1]) = form.from /\ Chain(q[2]) = form.to
  /\ \A c \in Coins : c \in RoutableCoins <=> RouteOptions(c, FALSE) # {}

===============================================================================
