----------------------------- MODULE MCControlInvoke -----------------------------
(* Instances of ControlInvoke for TLC.                                     *)
EXTENDS ControlInvoke, TLC

Kinds == [x \in Callers |-> x]

Symmetry == Permutations(Calls) \cup Permutations(Tickets) \cup Permutations(Payloads)
              \cup Permutations(Keys)
=============================================================================
