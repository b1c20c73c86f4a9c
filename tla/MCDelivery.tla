----------------------------- MODULE MCDelivery -----------------------------
(* Delivery for TLC: two calls in flight, two properties that are reported. *)
EXTENDS Delivery, TLC

\* A report carries what has changed, or more.
AnyReport == (SUBSET StateKeys) \ {{}}

\* Nothing tells one call, one reported property or one value from another: with no
\* Resets, the Default is never put back.
Symmetry == Permutations(Caller) \cup Permutations(StateKeys) \cup Permutations(Value)
=============================================================================
