----------------------------- MODULE MCDelivery -----------------------------
(* Model-checking instances of Delivery: which files the calls change.       *)
EXTENDS Delivery

CONSTANTS a, b, f, g

\* The work of a and b overlaps in g.
Overlap == [c \in Call |-> IF c = a THEN {f, g} ELSE {g}]
=============================================================================
