----------------------------- MODULE MCRailWriters -----------------------------
(* Instances of RailWriters for TLC: the bounds are in the .cfg file. *)
EXTENDS RailWriters

===============================================================================
