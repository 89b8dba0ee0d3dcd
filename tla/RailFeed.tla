------------------------------- MODULE RailFeed -------------------------------
(***************************************************************************)
(* What the change feed promises about each rail, without polls, tallies,  *)
(* absences or transactions.  A rail is untracked until its baseline is    *)
(* known; from then on it is listed or delisted, and every change of what  *)
(* a reader can see of it comes with exactly the events that name it.      *)
(* DiffEngine implements this specification.                               *)
(***************************************************************************)
CONSTANTS
  Keys,
  Unknown (* the state shown of a rail that is not listed *)

VARIABLES
  phase, (* untracked, listed or delisted                                  *)
  state, (* status and terms of a listed rail                              *)
  news   (* types of the events the last step published for the rail       *)

feedVars == <<phase, state, news>>

(* Which event names which change. *)
Told(from, to) ==
  LET was(d)   == from.status[d]
      is(d)    == to.status[d]
      moved(x) == from.terms[x] # to.terms[x]
  IN  {ty \in {"deposit_off", "deposit_on", "withdraw_off", "withdraw_on",
               "fee_changed", "min_changed"} :
         \/ ty = "deposit_off"  /\ was("deposit")   /\ ~is("deposit")
         \/ ty = "deposit_on"   /\ ~was("deposit")  /\ is("deposit")
         \/ ty = "withdraw_off" /\ was("withdraw")  /\ ~is("withdraw")
         \/ ty = "withdraw_on"  /\ ~was("withdraw") /\ is("withdraw")
         \/ ty = "fee_changed"  /\ moved("fee")
         \/ ty = "min_changed"  /\ moved("min")}

Init ==
  /\ phase = [k \in Keys |-> "untracked"]
  /\ state = [k \in Keys |-> Unknown]
  /\ news = [k \in Keys |-> {}]

(* A rail's own step; one poll moves many rails at once. *)
Still(k) == phase'[k] = phase[k] /\ state'[k] = state[k] /\ news'[k] = {}

(* The baseline is committed silently.  It may find the rail absent. *)
Track(k) ==
  /\ phase[k] = "untracked"
  /\ phase'[k] \in {"listed", "delisted"}
  /\ news'[k] = {}

(* A listed rail changes: exactly the changes are told, and at least one. *)
Change(k) ==
  /\ phase[k] = "listed" /\ phase'[k] = "listed"
  /\ state'[k] # state[k]
  /\ news'[k] = Told(state[k], state'[k])

Delist(k) ==
  /\ phase[k] = "listed" /\ phase'[k] = "delisted"
  /\ news'[k] = {"rail_delisted"}

(* A relisted rail brings a new state; the one event covers it. *)
Relist(k) ==
  /\ phase[k] = "delisted" /\ phase'[k] = "listed"
  /\ news'[k] = {"rail_relisted"}

Next == \A k \in Keys : Still(k) \/ Track(k) \/ Change(k) \/ Delist(k) \/ Relist(k)

Spec == Init /\ [][Next]_feedVars

===============================================================================
