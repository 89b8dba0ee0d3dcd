------------------------------- MODULE MCWebFeed -------------------------------
(* Instances of WebFeed for TLC: transactions and filters. *)
EXTENDS WebFeed, TLC

(* A transaction of two events and one between them in the order of cursors. *)
PairAndOne == {<<1, 3>>, <<2>>}

(* Everything, and a filter that leaves out the first event. *)
AllEvents  == Events
AllOrSome  == {Events, Events \ {1}}

===============================================================================
