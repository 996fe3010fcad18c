---------------------------- MODULE TimelockVault ----------------------------
(***************************************************************************)
(* What a FeeCollector promises its owner, with no messages, signatures,   *)
(* gas or balance: money leaves only by a notice that has been on display  *)
(* for Delay seconds, all of that time under the key that gave it.         *)
(***************************************************************************)
EXTENDS Integers, Sequences

CONSTANTS Keys, Dests, Amounts, Delay

VARIABLES
    clock,
    owner,    \* the key in charge
    notice,   \* the withdrawal on display: at most one
    paid      \* the payouts made, oldest first

vars == <<clock, owner, notice, paid>>

Init ==
    /\ clock \in Nat /\ owner \in Keys
    /\ notice = {} /\ paid = << >>

Wait ==
    /\ clock' \in Nat /\ clock' > clock
    /\ UNCHANGED <<owner, notice, paid>>

\* A new notice replaces the one on display and starts its own delay.
Announce ==
    /\ \E a \in Amounts, d \in Dests :
         notice' = {[from |-> clock, amount |-> a, dest |-> d, by |-> owner]}
    /\ UNCHANGED <<clock, owner, paid>>

Withdrawn ==
    /\ notice' = {}
    /\ UNCHANGED <<clock, owner, paid>>

\* Exactly what the notice says, to whom it says.
PayOut ==
    /\ \E n \in notice :
         /\ clock >= n.from + Delay /\ n.amount > 0
         /\ paid' = Append(paid, [notice |-> n, amount |-> n.amount,
                                  at |-> clock, by |-> owner])
    /\ notice' = {}
    /\ UNCHANGED <<clock, owner>>

\* A new key takes nothing over from the old one.
Rekey ==
    /\ owner' \in Keys
    /\ notice' = {}
    /\ UNCHANGED <<clock, paid>>

Next == Wait \/ Announce \/ Withdrawn \/ PayOut \/ Rekey

Spec == Init /\ [][Next]_vars
=============================================================================
