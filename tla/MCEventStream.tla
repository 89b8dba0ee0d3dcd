----------------------------- MODULE MCEventStream -----------------------------
(* Instances of EventStream for TLC: transactions and filters. *)
EXTENDS EventStream

(* Three transactions, one of them of two events. *)
ThreeTransactions == {<<1>>, <<2, 3>>, <<4>>}

(* Everything, and a filter that leaves out the first event. *)
AllOrSome == {Events, Events \ {1}}

===============================================================================
