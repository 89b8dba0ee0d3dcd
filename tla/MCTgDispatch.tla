------------------------------ MODULE MCTgDispatch ------------------------------
(* Instances of TgDispatch for TLC: rules and their filters, and symmetry.   *)
EXTENDS TgDispatch, TLC

CONSTANTS r1, r2, c1, e1

(* One chat with one rule for every event. *)
OneRuleChat  == [r \in {r1} |-> c1]
OneRuleWants == [r \in {r1} |-> Events]

(* One chat with two rules: one for every event, one for the first. *)
TwoRulesChat  == [r \in {r1, r2} |-> c1]
TwoRulesWants == [r \in {r1, r2} |-> IF r = r1 THEN Events ELSE {e1}]

Symmetry == Permutations(Replicas)

===============================================================================
