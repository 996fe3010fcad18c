------------------------------ MODULE MCRelayer ------------------------------
(* A small instance of Relayer, in three situations that each keep the state *)
(* space small: the second of two subscriptions is live, or it was cancelled *)
(* before the relayer started; then the cycles may overlap, or the first     *)
(* subscription lives through one more seqno.                                *)
EXTENDS Relayer

CONSTANTS s1, s2

Live(n) == {Found(n, "ACTIVE"), Found(n, "GRACE")}
Over(n) == {Found(n, "CANCELLED")}

Last == MaxSeqno - 1

Situations ==
    {f \in [{s1, s2} -> Live(0) \cup Live(Last) \cup Over(0) \cup Over(Last)] :
        \/ f[s1] = Found(Last, "GRACE") /\ f[s2] = Found(Last, "ACTIVE")
        \/ f[s1] \in Live(Last) /\ f[s2] \in Over(0)
        \/ f[s1] \in Live(0)    /\ f[s2] \in Over(Last)}

\* No step moves a cancelled subscription, so the choice lasts.
MayOverlap == chain[s2] \in Over(0)

\* A cancelled subscription is passed over; as that commutes with every other
\* step, it is done at once.
PassesOver == \E c \in Cycles : MayOverlap /\ Scans(c, s2)

MCInit == Init /\ chain \in Situations

MCNext ==
    /\ Next
    /\ overlapped' => MayOverlap
    /\ PassesOver => \E c \in Cycles : Skip(c, s2)

MCSpec == MCInit /\ [][MCNext]_vars /\ Fairness
==============================================================================
