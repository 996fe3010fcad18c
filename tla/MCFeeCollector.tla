---------------------------- MODULE MCFeeCollector ----------------------------
(***************************************************************************)
(* A small FeeCollector for TLC: keys and destinations are model values.   *)
(***************************************************************************)
EXTENDS FeeCollector, TLC

CONSTANTS k1, k2, d1, d2

TwoKeys == {k1, k2}
OneKey  == {k1}
TwoDests == {d1, d2}
OneDest == {d1}

\* Keys are interchangeable, and so are destinations: no action or property
\* names one, and all properties are safety properties.
Symmetries == Permutations(TwoKeys) \cup Permutations(TwoDests)

=============================================================================
