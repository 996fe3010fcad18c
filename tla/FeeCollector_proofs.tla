------------------------- MODULE FeeCollector_proofs -------------------------
(***************************************************************************)
(* What holds of FeeCollector for every value of its constants: types, the *)
(* timelock, the reserve, and that it implements the abstract vault.       *)
(***************************************************************************)
EXTENDS FeeCollector, TLAPS

\* What of the inductive invariant is not a type: the pending request was made
\* in the past, after every payout, and by the key still in charge.
RequestStands ==
    /\ pending.time # 0 => askedBy = owner_pubkey /\ pending.time <= now
    /\ \A i \in DOMAIN payouts :
         /\ payouts[i].at <= now
         /\ pending.time # 0 => payouts[i].at <= pending.time

CollectorInv == TypeOK /\ RequestStands /\ PayoutsSpaced

LEMMA ConstantTypes ==
    /\ COLLECTOR_RESERVE \in Nat /\ WITHDRAWAL_TIMELOCK_SEC \in Nat \ {0}
    /\ ExecGas \in Nat \ {0} /\ FwdFee \in Nat
    /\ NoKey \notin Keys /\ NoDest \notin Dests
    /\ Times \subseteq Nat \ {0} /\ Epoch \in Times /\ Amounts \subseteq Nat
    /\ FirstBalance \in Nat
    /\ \A v \in Deposits : v \in Nat /\ v >= ExecGas
    /\ Fees \subseteq Nat
  BY CollectorConstants

-----------------------------------------------------------------------------
(* What an order under way carries.                                        *)

LEMMA OrderTypes ==
    ASSUME NEW m \in SignedOrder
    PROVE  /\ m.key \in Keys
           /\ m.order.op = "collect" => m.order.amount \in Amounts /\ m.order.dest \in Dests
           /\ m.order.op = "rotate" => m.order.key \in Keys \cup {NoKey}
<1>1. m.key \in Keys /\ m.order \in Order
  BY DEF SignedOrder
<1>2. CASE m.order \in [op : {"collect"}, amount : Amounts, dest : Dests]
  BY <1>1, <1>2
<1>3. CASE m.order \in [op : {"confirm", "unknown"}]
  BY <1>1, <1>3
<1>4. CASE m.order \in [op : {"rotate"}, key : Keys \cup {NoKey}]
  BY <1>1, <1>4
<1> QED BY <1>1, <1>2, <1>3, <1>4 DEF Order

\* A pending request is a proper one or none.
LEMMA PendingTypes ==
    ASSUME TypeOK
    PROVE  /\ pending.time \in Nat /\ pending.amount \in Nat
           /\ pending.time # 0 => pending \in Request /\ pending.time \in Times
           /\ pending.time = 0 => pending = NoRequest
<1>1. CASE pending \in Request
  BY <1>1, ConstantTypes DEF Request
<1>2. CASE pending = NoRequest
  BY <1>2 DEF NoRequest
<1> QED BY <1>1, <1>2 DEF TypeOK

LEMMA PayoutTimes ==
    ASSUME TypeOK
    PROVE  \A i \in DOMAIN payouts : payouts[i].at \in Nat
<1> TAKE i \in DOMAIN payouts
<1>1. payouts \in Seq(Payout)
  BY DEF TypeOK
<1>2. payouts[i] \in Payout
  BY <1>1
<1>3. payouts[i].at \in Times
  BY <1>2 DEF Payout
<1> QED BY <1>3, ConstantTypes

-----------------------------------------------------------------------------
(* Types.                                                                  *)

LEMMA InitType == Init => TypeOK
  BY ConstantTypes DEF Init, TypeOK, NoRequest, Payout

LEMMA TickType == TypeOK /\ Tick => TypeOK'
  BY DEF TypeOK, Tick, storage, history

LEMMA SignType ==
    ASSUME TypeOK, NEW k \in Keys, NEW order \in Order, Sign(k, order)
    PROVE  TypeOK'
<1> PICK n \in {seqno, seqno + 1} :
           orders' = orders \cup
                       {[seqno |-> n, timestamp |-> now, key |-> k, order |-> order]}
  BY DEF Sign
<1>1. [seqno |-> n, timestamp |-> now, key |-> k, order |-> order] \in SignedOrder
  BY DEF TypeOK, SignedOrder
<1>2. orders' \subseteq SignedOrder
  BY <1>1 DEF TypeOK
<1> QED BY <1>2 DEF TypeOK, Sign, storage, history

LEMMA ReceiveType ==
    ASSUME TypeOK, NEW v \in Deposits, NEW fee \in Nat, Receive(v, fee)
    PROVE  TypeOK'
<1>1. balance' \in Nat
  BY ConstantTypes DEF TypeOK, Receive
<1> QED BY <1>1 DEF TypeOK, Receive, history

\* The balance after an order that burns its gas and sends nothing.
LEMMA BurnType ==
    ASSUME TypeOK, NEW m, Accepted(m), Burn
    PROVE  balance' \in Nat
  BY ConstantTypes DEF TypeOK, Accepted, Burn

\* The amount that leaves is positive and leaves the reserve behind.
LEMMA WithdrawalCovered ==
    ASSUME TypeOK, WithdrawAmount > 0, Affordable(WithdrawAmount)
    PROVE  /\ WithdrawAmount \in Nat \ {0}
           /\ balance - ExecGas - WithdrawAmount - FwdFee >= COLLECTOR_RESERVE
           /\ pending.amount > 0 /\ WithdrawAmount = pending.amount
<1>1. pending.amount \in Nat /\ balance \in Nat
  BY PendingTypes DEF TypeOK
<1>2. WithdrawAmount \in Int
  BY <1>1, ConstantTypes DEF WithdrawAmount
<1>3. CASE pending.amount = 0
  <2>1. WithdrawAmount = balance - COLLECTOR_RESERVE
    BY <1>3 DEF WithdrawAmount
  <2>2. balance - ExecGas >= COLLECTOR_RESERVE + (balance - COLLECTOR_RESERVE) + FwdFee
    BY <2>1 DEF Affordable
  <2> QED BY <1>1, <2>2, ConstantTypes
<1>4. CASE pending.amount # 0
  <2>1. WithdrawAmount = pending.amount
    BY <1>4 DEF WithdrawAmount
  <2> QED BY <1>1, <1>4, <2>1, ConstantTypes DEF Affordable
<1> QED BY <1>3, <1>4

LEMMA PaidType ==
    ASSUME TypeOK, askedBy \in Keys, Confirmable, NEW amount \in Nat \ {0}
    PROVE  Paid(amount) \in Seq(Payout)
<1> DEFINE n == [from |-> pending.time, amount |-> pending.amount,
                 dest |-> pending.dest, by |-> askedBy]
           p == [notice |-> n, amount |-> amount, at |-> now, by |-> owner_pubkey]
<1>1. pending \in Request
  BY PendingTypes DEF Confirmable, Unlocked
<1>2. n \in [from : Times, amount : Nat, dest : Dests, by : Keys]
  BY <1>1 DEF Request
<1>3. p \in Payout
  BY <1>2 DEF Payout, TypeOK
<1> QED BY <1>3 DEF Paid, TypeOK

LEMMA DeliverType ==
    ASSUME CollectorInv, NEW m \in orders, Deliver(m)
    PROVE  TypeOK'
<1> USE DEF CollectorInv
<1>0. m \in SignedOrder
  BY DEF TypeOK
<1>1. CASE OrderRefused(m)
  BY <1>1, BurnType DEF TypeOK, OrderRefused, storage, history
<1>2. CASE Collect(m)
  <2>1. pending' \in Request
    BY <1>0, <1>2, OrderTypes, ConstantTypes DEF TypeOK, Collect, Request
  <2>2. askedBy' \in Keys
    BY <1>0, <1>2, OrderTypes DEF Collect
  <2>3. balance' \in Nat
    BY <1>2, BurnType DEF Collect
  <2> QED BY <1>2, <2>1, <2>2, <2>3 DEF TypeOK, Collect
<1>3. CASE RotateKey(m)
  <2>1. owner_pubkey' \in Keys
    BY <1>0, <1>3, OrderTypes DEF RotateKey, Rotatable
  <2>2. balance' \in Nat
    BY <1>3, BurnType DEF RotateKey
  <2> QED BY <1>3, <2>1, <2>2 DEF TypeOK, RotateKey, Cleared
<1>4. CASE Confirm(m)
  <2>1. /\ WithdrawAmount \in Nat \ {0}
        /\ balance - ExecGas - WithdrawAmount - FwdFee >= COLLECTOR_RESERVE
    BY <1>4, WithdrawalCovered DEF Confirm
  <2>2. balance' \in Nat
    BY <1>4, <2>1, ConstantTypes DEF TypeOK, Confirm
  <2>3. askedBy \in Keys
    BY <1>4 DEF Confirm, MayConfirm, Confirmable, Unlocked, RequestStands, TypeOK
  <2>4. payouts' \in Seq(Payout)
    BY <1>4, <2>1, <2>3, PaidType DEF Confirm, MayConfirm
  <2> QED BY <1>4, <2>2, <2>4 DEF TypeOK, Confirm, Cleared
<1>5. CASE ConfirmNothing(m)
  <2>1. balance' \in Nat
    BY <1>5, BurnType DEF ConfirmNothing, MayConfirm
  <2> QED BY <1>5, <2>1 DEF TypeOK, ConfirmNothing, Cleared
<1>6. CASE ConfirmRolledBack(m)
  <2>1. balance' \in Nat
    BY <1>6, BurnType DEF ConfirmRolledBack, MayConfirm
  <2> QED BY <1>6, <2>1 DEF TypeOK, ConfirmRolledBack, storage, history
<1> QED BY <1>1, <1>2, <1>3, <1>4, <1>5, <1>6 DEF Deliver

LEMMA NextType == CollectorInv /\ [Next]_vars => TypeOK'
<1> SUFFICES ASSUME CollectorInv, [Next]_vars PROVE TypeOK'
  OBVIOUS
<1>0. TypeOK
  BY DEF CollectorInv
<1>1. CASE Tick
  BY <1>0, <1>1, TickType
<1>2. ASSUME NEW k \in Keys, NEW order \in Order, Sign(k, order) PROVE TypeOK'
  BY <1>0, <1>2, SignType
<1>3. ASSUME NEW v \in Deposits, NEW fee \in Fees \cup {0}, Receive(v, fee) PROVE TypeOK'
  BY <1>0, <1>3, ReceiveType, ConstantTypes
<1>4. ASSUME NEW m \in orders, Deliver(m) PROVE TypeOK'
  BY <1>4, DeliverType
<1>5. CASE UNCHANGED vars
  BY <1>0, <1>5 DEF TypeOK, vars, storage, history
<1> QED BY <1>1, <1>2, <1>3, <1>4, <1>5 DEF Next

-----------------------------------------------------------------------------
(* The request stands, and payouts keep their distance.                    *)

LEMMA InitStands == Init => RequestStands /\ PayoutsSpaced
  BY DEF Init, RequestStands, PayoutsSpaced, NoRequest

\* A step that touches neither request nor payouts, and does not go back in
\* time, keeps both.
LEMMA QuietStep ==
    ASSUME CollectorInv, UNCHANGED <<owner_pubkey, pending, history>>,
           now' \in Times, now' >= now
    PROVE  RequestStands' /\ PayoutsSpaced'
<1>1. RequestStands /\ PayoutsSpaced /\ TypeOK
  BY DEF CollectorInv
<1>2. PayoutsSpaced'
  BY <1>1 DEF PayoutsSpaced, history
<1>3. now \in Nat /\ now' \in Nat /\ pending.time \in Nat
  BY <1>1, PendingTypes, ConstantTypes DEF TypeOK
<1>4. \A i \in DOMAIN payouts : payouts[i].at \in Nat
  BY <1>1, PayoutTimes
<1>5. RequestStands'
  BY <1>1, <1>3, <1>4 DEF RequestStands, history
<1> QED BY <1>2, <1>5

\* The request goes, the payouts stay.
LEMMA ClearingStep ==
    ASSUME CollectorInv, pending' = NoRequest, UNCHANGED <<now, payouts>>
    PROVE  RequestStands' /\ PayoutsSpaced'
  BY DEF CollectorInv, RequestStands, PayoutsSpaced, NoRequest

LEMMA CollectStep ==
    ASSUME CollectorInv, NEW m \in orders, Collect(m)
    PROVE  RequestStands' /\ PayoutsSpaced'
<1>1. /\ pending'.time = now /\ askedBy' = owner_pubkey'
      /\ UNCHANGED <<now, payouts>>
  BY DEF Collect, Accepted
<1>2. now \in Nat
  BY ConstantTypes DEF CollectorInv, TypeOK
<1> QED BY <1>1, <1>2 DEF CollectorInv, RequestStands, PayoutsSpaced

LEMMA ConfirmStep ==
    ASSUME CollectorInv, NEW m \in orders, Confirm(m)
    PROVE  RequestStands' /\ PayoutsSpaced'
<1> DEFINE p == [notice |-> [from |-> pending.time, amount |-> pending.amount,
                             dest |-> pending.dest, by |-> askedBy],
                 amount |-> WithdrawAmount, at |-> now, by |-> owner_pubkey]
<1>1. /\ payouts' = Append(payouts, p) /\ pending' = NoRequest /\ now' = now
      /\ pending.time # 0 /\ now >= pending.time + WITHDRAWAL_TIMELOCK_SEC
  <2>1. Unlocked
    BY DEF Confirm, MayConfirm, Confirmable
  <2>2. pending.time \in Nat
    BY PendingTypes DEF CollectorInv
  <2> QED BY <2>1, <2>2 DEF Confirm, Cleared, Paid, Unlocked
<1>2. /\ askedBy = owner_pubkey
      /\ \A i \in DOMAIN payouts :
           payouts[i].at <= now /\ payouts[i].at <= pending.time
  BY <1>1 DEF CollectorInv, RequestStands
<1>3. /\ now \in Nat /\ pending.time \in Nat /\ WITHDRAWAL_TIMELOCK_SEC \in Nat
      /\ payouts \in Seq(Payout)
      /\ \A i \in DOMAIN payouts : payouts[i].at \in Nat
  <2>1. TypeOK
    BY DEF CollectorInv
  <2>2. now \in Nat /\ payouts \in Seq(Payout)
    BY <2>1, ConstantTypes DEF TypeOK
  <2>3. pending.time \in Nat
    BY <2>1, PendingTypes
  <2>4. \A i \in DOMAIN payouts : payouts[i].at \in Nat
    BY <2>1, PayoutTimes
  <2> QED BY <2>2, <2>3, <2>4, ConstantTypes
<1>4. /\ p.at = now /\ p.by = owner_pubkey
      /\ p.notice.from = pending.time /\ p.notice.by = askedBy
  OBVIOUS
<1> HIDE DEF p
<1>5. /\ Len(payouts) \in Nat /\ DOMAIN payouts = 1..Len(payouts)
      /\ DOMAIN payouts' = 1..(Len(payouts) + 1)
      /\ payouts'[Len(payouts) + 1] = p
      /\ \A i \in 1..Len(payouts) : payouts'[i] = payouts[i]
  BY <1>1, <1>3
<1>6. ASSUME NEW i \in DOMAIN payouts'
      PROVE  \/ i \in DOMAIN payouts /\ payouts'[i] = payouts[i]
             \/ i = Len(payouts) + 1 /\ payouts'[i] = p
  BY <1>5
<1>7. RequestStands'
  BY <1>1, <1>2, <1>3, <1>4, <1>6 DEF RequestStands, NoRequest
<1>8. ASSUME NEW i \in DOMAIN payouts'
      PROVE  /\ payouts'[i].at >= payouts'[i].notice.from + WITHDRAWAL_TIMELOCK_SEC
             /\ payouts'[i].by = payouts'[i].notice.by
  <2>1. CASE i \in DOMAIN payouts /\ payouts'[i] = payouts[i]
    BY <2>1 DEF CollectorInv, PayoutsSpaced
  <2>2. CASE payouts'[i] = p
    BY <2>2, <1>1, <1>2, <1>4
  <2> QED BY <1>6, <2>1, <2>2
<1>9. ASSUME NEW i \in DOMAIN payouts', NEW j \in DOMAIN payouts', i < j
      PROVE  payouts'[i].at + WITHDRAWAL_TIMELOCK_SEC <= payouts'[j].at
  <2>1. i \in DOMAIN payouts /\ payouts'[i] = payouts[i]
    BY <1>5, <1>9
  <2>2. CASE j \in DOMAIN payouts /\ payouts'[j] = payouts[j]
    BY <1>9, <2>1, <2>2 DEF CollectorInv, PayoutsSpaced
  <2>3. CASE payouts'[j] = p
    <3>1. payouts[i].at <= pending.time /\ payouts[i].at \in Nat
      BY <1>2, <1>3, <2>1
    <3>2. payouts[i].at + WITHDRAWAL_TIMELOCK_SEC <= now
      BY <1>1, <1>3, <3>1
    <3> QED BY <1>4, <2>1, <2>3, <3>2
  <2> QED BY <1>6, <2>2, <2>3
<1>10. PayoutsSpaced'
  BY <1>8, <1>9 DEF PayoutsSpaced
<1> QED BY <1>7, <1>10

LEMMA NextStands == CollectorInv /\ [Next]_vars => RequestStands' /\ PayoutsSpaced'
<1> SUFFICES ASSUME CollectorInv, [Next]_vars
             PROVE  RequestStands' /\ PayoutsSpaced'
  OBVIOUS
<1>0. now \in Times /\ now \in Nat
  BY ConstantTypes DEF CollectorInv, TypeOK
<1>1. CASE Tick
  <2>1. now' \in Times /\ now' >= now /\ UNCHANGED <<owner_pubkey, pending, history>>
    BY <1>0, <1>1, ConstantTypes DEF Tick, storage
  <2> QED BY <2>1, QuietStep
<1>2. ASSUME NEW k \in Keys, NEW order \in Order, Sign(k, order)
      PROVE  RequestStands' /\ PayoutsSpaced'
  BY <1>0, <1>2, QuietStep DEF Sign, storage
<1>3. ASSUME NEW v \in Deposits, NEW fee \in Fees \cup {0}, Receive(v, fee)
      PROVE  RequestStands' /\ PayoutsSpaced'
  BY <1>0, <1>3, QuietStep DEF Receive
<1>4. ASSUME NEW m \in orders, Deliver(m)
      PROVE  RequestStands' /\ PayoutsSpaced'
  <2>1. CASE OrderRefused(m)
    BY <1>0, <2>1, QuietStep DEF OrderRefused, storage
  <2>2. CASE Collect(m)
    BY <2>2, CollectStep
  <2>3. CASE RotateKey(m)
    BY <2>3, ClearingStep DEF RotateKey, Cleared
  <2>4. CASE Confirm(m)
    BY <2>4, ConfirmStep
  <2>5. CASE ConfirmNothing(m)
    BY <2>5, ClearingStep DEF ConfirmNothing, Cleared
  <2>6. CASE ConfirmRolledBack(m)
    BY <1>0, <2>6, QuietStep DEF ConfirmRolledBack, storage
  <2> QED BY <1>4, <2>1, <2>2, <2>3, <2>4, <2>5, <2>6 DEF Deliver
<1>5. CASE UNCHANGED vars
  BY <1>0, <1>5, QuietStep DEF vars, storage
<1> QED BY <1>1, <1>2, <1>3, <1>4, <1>5 DEF Next

LEMMA Invariance == Spec => []CollectorInv
<1>1. Init => CollectorInv
  BY InitType, InitStands DEF CollectorInv
<1>2. CollectorInv /\ [Next]_vars => CollectorInv'
  BY NextType, NextStands DEF CollectorInv
<1> QED BY <1>1, <1>2, PTL DEF Spec

\* Every reachable state of the collector is well typed: the owner is never the
\* zero key, the balance never negative (fee-collector.tolk, the storage layout).
THEOREM CollectorTypeCorrect == Spec => []TypeOK
<1>1. CollectorInv => TypeOK
  BY DEF CollectorInv
<1> QED BY <1>1, Invariance, PTL

\* The timelock holds: every payout was announced a full delay before under the
\* same key, and payouts are a delay apart (OP_COLLECT, OP_CONFIRM_COLLECT).
THEOREM TimelockHolds == Spec => []PayoutsSpaced
<1>1. CollectorInv => PayoutsSpaced
  BY DEF CollectorInv
<1> QED BY <1>1, Invariance, PTL

\* No payout takes the balance below the rent reserve (OP_CONFIRM_COLLECT).
THEOREM ReserveKept == Spec => ReserveStays
<1>1. ASSUME CollectorInv, [Next]_vars, payouts' # payouts
      PROVE  balance' >= COLLECTOR_RESERVE
  <2>1. PICK m \in orders : Confirm(m)
    BY <1>1 DEF Next, vars, history, Tick, Sign, Receive, Deliver, OrderRefused,
                Collect, RotateKey, ConfirmNothing, ConfirmRolledBack
  <2> QED BY <1>1, <2>1, WithdrawalCovered DEF CollectorInv, Confirm
<1>2. CollectorInv /\ [Next]_vars
        => [payouts' # payouts => balance' >= COLLECTOR_RESERVE]_vars
  BY <1>1
<1> QED BY <1>2, Invariance, PTL DEF Spec, ReserveStays

-----------------------------------------------------------------------------
(* Refinement: each transaction is a step of the vault or none of its      *)
(* business.                                                               *)

LEMMA QuietRefines ==
    ASSUME UNCHANGED <<now, owner_pubkey, pending, history>>
    PROVE  UNCHANGED Vault!vars
  BY DEF Vault!vars, Notices, history

LEMMA TickRefines ==
    ASSUME TypeOK, Tick
    PROVE  Vault!Wait
<1>1. now' \in Nat /\ now' > now
  BY ConstantTypes DEF Tick
<1> QED BY <1>1 DEF Tick, Vault!Wait, Notices, storage, history

LEMMA CollectRefines ==
    ASSUME TypeOK, NEW m \in orders, Collect(m)
    PROVE  Vault!Announce
<1>1. m.order.amount \in Amounts /\ m.order.dest \in Dests
  BY OrderTypes DEF TypeOK, Collect
<1>2. now # 0
  BY ConstantTypes DEF TypeOK
<1>3. Notices' = {[from |-> now, amount |-> m.order.amount,
                   dest |-> m.order.dest, by |-> owner_pubkey]}
  BY <1>2 DEF Notices, Collect, Accepted
<1> QED BY <1>1, <1>3 DEF Vault!Announce, Collect

LEMMA ConfirmRefines ==
    ASSUME TypeOK, NEW m \in orders, Confirm(m)
    PROVE  Vault!PayOut
<1> DEFINE n == [from |-> pending.time, amount |-> pending.amount,
                 dest |-> pending.dest, by |-> askedBy]
<1>1. pending.time # 0 /\ now >= pending.time + WITHDRAWAL_TIMELOCK_SEC
  BY PendingTypes DEF Confirm, MayConfirm, Confirmable, Unlocked
<1>2. Notices = {n}
  BY <1>1 DEF Notices
<1>3. pending.amount > 0 /\ WithdrawAmount = pending.amount
  BY WithdrawalCovered DEF Confirm
<1>4. payouts' = Append(payouts, [notice |-> n, amount |-> n.amount,
                                  at |-> now, by |-> owner_pubkey])
  BY <1>3 DEF Confirm, Paid
<1>5. Notices' = {}
  BY DEF Notices, Confirm, Cleared, NoRequest
<1> QED BY <1>1, <1>2, <1>3, <1>4, <1>5 DEF Vault!PayOut, Confirm

LEMMA NextRefines == TypeOK /\ [Next]_vars => [Vault!Next]_(Vault!vars)
<1> SUFFICES ASSUME TypeOK, [Next]_vars
             PROVE  Vault!Next \/ UNCHANGED Vault!vars
  OBVIOUS
<1>1. CASE Tick
  BY <1>1, TickRefines DEF Vault!Next
<1>2. ASSUME NEW k \in Keys, NEW order \in Order, Sign(k, order)
      PROVE  UNCHANGED Vault!vars
  BY <1>2, QuietRefines DEF Sign, storage
<1>3. ASSUME NEW v \in Deposits, NEW fee \in Fees \cup {0}, Receive(v, fee)
      PROVE  UNCHANGED Vault!vars
  BY <1>3, QuietRefines DEF Receive
<1>4. ASSUME NEW m \in orders, Deliver(m)
      PROVE  Vault!Next \/ UNCHANGED Vault!vars
  <2>1. CASE OrderRefused(m)
    BY <2>1, QuietRefines DEF OrderRefused, storage
  <2>2. CASE Collect(m)
    BY <2>2, CollectRefines DEF Vault!Next
  <2>3. CASE RotateKey(m)
    <3>1. owner_pubkey' \in Keys
      BY <2>3, OrderTypes DEF TypeOK, RotateKey, Rotatable
    <3>2. Notices' = {}
      BY <2>3 DEF Notices, RotateKey, Cleared, NoRequest
    <3> QED BY <2>3, <3>1, <3>2 DEF RotateKey, Vault!Rekey, Vault!Next
  <2>4. CASE Confirm(m)
    BY <2>4, ConfirmRefines DEF Vault!Next
  <2>5. CASE ConfirmNothing(m)
    <3>1. Notices' = {}
      BY <2>5 DEF Notices, ConfirmNothing, Cleared, NoRequest
    <3> QED BY <2>5, <3>1 DEF ConfirmNothing, Vault!Withdrawn, Vault!Next
  <2>6. CASE ConfirmRolledBack(m)
    BY <2>6, QuietRefines DEF ConfirmRolledBack, storage
  <2> QED BY <1>4, <2>1, <2>2, <2>3, <2>4, <2>5, <2>6 DEF Deliver
<1>5. CASE UNCHANGED vars
  BY <1>5, QuietRefines DEF vars, storage
<1> QED BY <1>1, <1>2, <1>3, <1>4, <1>5 DEF Next

\* The collector implements the abstract vault: seqnos, signatures, gas and
\* failing sends are invisible there, and no request for "everything" ever pays.
THEOREM CollectorIsVault == Spec => ImplementsVault
<1>1. Init => Vault!Init
  BY ConstantTypes DEF Init, Vault!Init, Notices, NoRequest
<1> QED BY <1>1, NextRefines, CollectorTypeCorrect, PTL
        DEF Spec, ImplementsVault, Vault!Spec
=============================================================================
