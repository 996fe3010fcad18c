------------------------------ MODULE MCFactory ------------------------------
(* A small instance of Factory. *)
EXTENDS Factory, TLC

\* A plan with a trial and one without.
TwoOffers == {[price |-> 20, trial |-> TRUE], [price |-> 30, trial |-> FALSE]}

\* Subscribers are interchangeable: nothing orders or names them.
UserSymmetry == Permutations(Users) \cup Permutations(Collectors)
=============================================================================
