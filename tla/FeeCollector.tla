----------------------------- MODULE FeeCollector -----------------------------
(***************************************************************************)
(* The FeeCollector contract: it takes in protocol fees and lets the owner *)
(* of its key withdraw in two phases, 24 hours apart.  Several people may  *)
(* hold the key; whatever they sign travels as an external message, may be *)
(* delivered late, out of order or again, and goes stale.                  *)
(*                                                                         *)
(* An action is one transaction.  An external message that passes the      *)
(* guards before acceptExternalMessage pays gas whatever happens next.     *)
(***************************************************************************)
EXTENDS Integers, Sequences, FiniteSets

CONSTANTS
    COLLECTOR_RESERVE,        \* always kept for rent
    WITHDRAWAL_TIMELOCK_SEC,  \* between the two phases
    EXT_MSG_TTL,              \* age at which a signed message goes stale
    ExecGas, FwdFee,          \* gas of one transaction, forwarding one message
    Keys, NoKey,              \* owner keys, and the zero key
    Dests, NoDest,            \* destinations, and addr_none
    Epoch, Times,             \* deployment, and the instants blocks are produced
    Amounts,                  \* amounts a withdrawal may ask for
    Deposits,                 \* what a message brings
    Fees,                     \* fee amounts the body of a fee message states
    FirstBalance,
    \* Bounds of a run.
    MaxSeqno, MaxOrders, MaxFunds

ASSUME CollectorConstants ==
    /\ COLLECTOR_RESERVE \in Nat /\ WITHDRAWAL_TIMELOCK_SEC \in Nat \ {0}
    /\ EXT_MSG_TTL \in Nat /\ ExecGas \in Nat \ {0} /\ FwdFee \in Nat
    /\ NoKey \notin Keys /\ NoDest \notin Dests
    /\ Times \subseteq Nat \ {0} /\ Epoch \in Times
    /\ Amounts \subseteq Nat /\ FirstBalance \in Nat
    /\ Deposits \subseteq Nat /\ \A v \in Deposits : v >= ExecGas
    /\ Fees \subseteq Nat
    /\ MaxSeqno \in Nat /\ MaxOrders \in Nat /\ MaxFunds \in Nat

VARIABLES
    owner_pubkey, seqno, total_collected,
    pending,    \* withdrawal_request_time, _amount and _dest
    balance,
    now,        \* block time
    orders,     \* signed messages under way and still fresh
    askedBy,    \* history: the key that signed the pending request
    payouts     \* history: the withdrawals that left, oldest first

storage == <<owner_pubkey, seqno, total_collected, pending>>
history == <<askedBy, payouts>>
vars    == <<storage, balance, now, orders, history>>

NoRequest == [time |-> 0, amount |-> 0, dest |-> NoDest]

Request == [time : Times, amount : Nat, dest : Dests]

Order ==
    [op : {"collect"}, amount : Amounts, dest : Dests]
        \cup [op : {"confirm", "unknown"}]
        \cup [op : {"rotate"}, key : Keys \cup {NoKey}]

SignedOrder == [seqno : Nat, timestamp : Times, key : Keys, order : Order]

Payout == [notice : [from : Times, amount : Nat, dest : Dests, by : Keys],
           amount : Nat \ {0}, at : Times, by : Keys]

TypeOK ==
    /\ owner_pubkey \in Keys /\ seqno \in Nat /\ total_collected \in Nat
    /\ pending \in Request \cup {NoRequest}
    /\ balance \in Nat /\ now \in Times /\ orders \subseteq SignedOrder
    /\ askedBy \in Keys \cup {NoKey} /\ payouts \in Seq(Payout)

Init ==
    /\ owner_pubkey \in Keys /\ seqno = 0 /\ total_collected = 0
    /\ pending = NoRequest /\ balance = FirstBalance
    /\ now = Epoch /\ orders = {}
    /\ askedBy = NoKey /\ payouts = << >>

-----------------------------------------------------------------------------
(* Time, the holders of keys, and the fees.                                *)

Fresh(m, t) == t - m.timestamp \in 0..EXT_MSG_TTL

Tick ==
    \E t \in Times :
        /\ t > now
        /\ now' = t
        /\ orders' = {m \in orders : Fresh(m, t)}
        /\ UNCHANGED <<storage, balance, history>>

\* A holder of key k reads the seqno getter and signs; to queue two orders it
\* signs the second for the seqno the first will leave.
Sign(k, order) ==
    /\ Cardinality(orders) < MaxOrders
    /\ \E n \in {seqno, seqno + 1} :
         orders' = orders \cup
                     {[seqno |-> n, timestamp |-> now, key |-> k, order |-> order]}
    /\ UNCHANGED <<storage, balance, now, history>>

\* Plain transfers and returned messages are accepted; fee messages from anyone
\* also count the amount their body states.
Receive(v, fee) ==
    /\ balance < MaxFunds /\ total_collected < MaxFunds
    /\ balance' = balance + v - ExecGas
    /\ total_collected' = total_collected + fee
    /\ UNCHANGED <<owner_pubkey, seqno, pending, now, orders, history>>

-----------------------------------------------------------------------------
(* Slips the handlers could hide, each to be put in the place of what it   *)
(* names.                                                                  *)

\* Confirmable: the timelock not waited for.
ConfirmableAtOnce ==
    /\ pending.time > 0 /\ COLLECTOR_RESERVE <= balance
    /\ pending.amount <= balance - COLLECTOR_RESERVE

\* Affordable: no reserve before the send.
AffordableWithoutReserve(amount) == balance - ExecGas >= amount + FwdFee

\* RotateKey: the pending request stays; the zero key gets in.
Remains(request) == request

AnyKey(k) == TRUE

-----------------------------------------------------------------------------
(* External messages.                                                      *)

Accepted(m) ==
    /\ m.seqno = seqno /\ Fresh(m, now) /\ m.key = owner_pubkey
    /\ balance >= ExecGas /\ seqno < MaxSeqno

Burn == balance' = balance - ExecGas

\* getOriginalBalance is the balance before this transaction's gas; a balance
\* below the reserve makes safe_sub throw.
Schedulable(amount) ==
    amount > 0 => amount <= balance - COLLECTOR_RESERVE

Unlocked == pending.time > 0 /\ now >= pending.time + WITHDRAWAL_TIMELOCK_SEC

Confirmable ==
    /\ Unlocked
    /\ COLLECTOR_RESERVE <= balance
    /\ pending.amount <= balance - COLLECTOR_RESERVE

\* A request for 0 takes everything above the reserve.
WithdrawAmount ==
    IF pending.amount = 0 THEN balance - COLLECTOR_RESERVE ELSE pending.amount

\* What the action phase can do: reserve first, then send and pay the forwarding.
Affordable(amount) == balance - ExecGas >= COLLECTOR_RESERVE + amount + FwdFee

Rotatable(k) == k # NoKey

\* The asserts after acceptance, and the op nobody knows.
OrderRefused(m) ==
    /\ Accepted(m)
    /\ \/ m.order.op = "collect" /\ ~Schedulable(m.order.amount)
       \/ m.order.op = "confirm" /\ ~Confirmable
       \/ m.order.op = "rotate" /\ ~Rotatable(m.order.key)
       \/ m.order.op = "unknown"
    /\ Burn
    /\ UNCHANGED <<storage, now, orders, history>>

\* OP_COLLECT.  Also with amount 0: a request like any other.
Collect(m) ==
    /\ Accepted(m) /\ m.order.op = "collect" /\ Schedulable(m.order.amount)
    /\ pending' = [time |-> now, amount |-> m.order.amount, dest |-> m.order.dest]
    /\ seqno' = seqno + 1
    /\ Burn /\ askedBy' = m.key
    /\ UNCHANGED <<owner_pubkey, total_collected, now, orders, payouts>>

MayConfirm(m) == Accepted(m) /\ m.order.op = "confirm" /\ Confirmable

Paid(amount) ==
    Append(payouts, [notice |-> [from |-> pending.time, amount |-> pending.amount,
                                 dest |-> pending.dest, by |-> askedBy],
                     amount |-> amount, at |-> now, by |-> owner_pubkey])

\* What a handler that clears the pending request leaves of it.
Cleared(request) == NoRequest

\* OP_CONFIRM_COLLECT that pays.
Confirm(m) ==
    /\ MayConfirm(m) /\ WithdrawAmount > 0 /\ Affordable(WithdrawAmount)
    /\ pending' = Cleared(pending) /\ askedBy' = NoKey
    /\ seqno' = seqno + 1
    /\ balance' = balance - ExecGas - WithdrawAmount - FwdFee
    /\ payouts' = Paid(WithdrawAmount)
    /\ UNCHANGED <<owner_pubkey, total_collected, now, orders>>

\* Nothing above the reserve to withdraw.
ConfirmNothing(m) ==
    /\ MayConfirm(m) /\ WithdrawAmount = 0
    /\ pending' = Cleared(pending) /\ askedBy' = NoKey
    /\ seqno' = seqno + 1
    /\ Burn
    /\ UNCHANGED <<owner_pubkey, total_collected, now, orders, payouts>>

\* The send fails in the action phase: the request and the seqno stay.
ConfirmRolledBack(m) ==
    /\ MayConfirm(m) /\ WithdrawAmount > 0 /\ ~Affordable(WithdrawAmount)
    /\ Burn
    /\ UNCHANGED <<storage, now, orders, history>>

\* OP_ROTATE_KEY.
RotateKey(m) ==
    /\ Accepted(m) /\ m.order.op = "rotate" /\ Rotatable(m.order.key)
    /\ owner_pubkey' = m.order.key
    /\ pending' = Cleared(pending) /\ askedBy' = NoKey
    /\ seqno' = seqno + 1
    /\ Burn
    /\ UNCHANGED <<total_collected, now, orders, payouts>>

Deliver(m) ==
    \/ OrderRefused(m) \/ Collect(m) \/ RotateKey(m)
    \/ Confirm(m) \/ ConfirmNothing(m) \/ ConfirmRolledBack(m)

Next ==
    \/ Tick
    \/ \E k \in Keys, order \in Order : Sign(k, order)
    \/ \E v \in Deposits : Receive(v, 0) \/ \E fee \in Fees : Receive(v, fee)
    \/ \E m \in orders : Deliver(m)

Spec == Init /\ [][Next]_vars

-----------------------------------------------------------------------------
(* Properties.                                                             *)

\* A payout waited out the timelock, under the key that had asked for it, and
\* two payouts are a timelock apart: whoever holds the key and however orders
\* are delayed, reordered or repeated, the collector loses at most one announced
\* amount a day (SECURITY.md, property 11).
PayoutsSpaced ==
    \A i \in DOMAIN payouts :
        /\ payouts[i].at >= payouts[i].notice.from + WITHDRAWAL_TIMELOCK_SEC
        /\ payouts[i].by = payouts[i].notice.by
        /\ \A j \in DOMAIN payouts :
             i < j => payouts[i].at + WITHDRAWAL_TIMELOCK_SEC <= payouts[j].at

\* Whatever leaves, the rent reserve stays (the security model at the head of
\* fee-collector.tolk).
ReserveStays ==
    [][ payouts' # payouts => balance' >= COLLECTOR_RESERVE ]_vars

\* The collector does what an abstract timelocked vault does: a rotation voids
\* what the old key announced, a new request restarts the delay, and a payout is
\* exactly what was on display (OP_COLLECT, OP_CONFIRM_COLLECT, OP_ROTATE_KEY).
Notices ==
    IF pending.time = 0 THEN {}
    ELSE {[from |-> pending.time, amount |-> pending.amount,
           dest |-> pending.dest, by |-> askedBy]}

Vault == INSTANCE TimelockVault
           WITH Delay <- WITHDRAWAL_TIMELOCK_SEC, clock <- now,
                owner <- owner_pubkey, notice <- Notices, paid <- payouts

ImplementsVault == Vault!Spec
=============================================================================
