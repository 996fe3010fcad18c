--------------------------- MODULE MCSubscription ---------------------------
(***************************************************************************)
(* Small instances of Subscription for TLC.  A set of records cannot be    *)
(* written in a configuration, so the plans a run uses are defined here;   *)
(* every other constant is a literal of its .cfg file.                     *)
(***************************************************************************)
EXTENDS Subscription

NoPlans == {}

\* A cheaper plan with a shorter period than the one the subscription has.
CheaperPlan == {[amount |-> 10, period |-> 1800]}
=============================================================================
