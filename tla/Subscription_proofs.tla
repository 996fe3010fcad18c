------------------------- MODULE Subscription_proofs -------------------------
(***************************************************************************)
(* What holds of Subscription for every value of its constants.            *)
(***************************************************************************)
EXTENDS Subscription, FiniteSetTheorems, TLAPS

(* The fee split: both cuts together never exceed the gross price.         *)
LEMMA BpsBound ==
    \A a, b \in Nat : BpsOf(a, b) \in Nat /\ 10000 * BpsOf(a, b) <= a * b
<1> TAKE a, b \in Nat
<1> DEFINE p == a * b
<1>1. p \in Nat
  OBVIOUS
<1>2. p \div 10000 \in Nat /\ 10000 * (p \div 10000) <= p
  <2> HIDE DEF p
  <2> QED BY <1>1
<1> QED BY <1>2 DEF BpsOf

LEMMA SplitType ==
    ASSUME NEW g \in Nat
    PROVE  /\ SplitFee(g, FeeBps).net \in Nat
           /\ SplitFee(g, FeeBps).fee \in Nat
           /\ SplitFee(g, FeeBps).protocolFee \in Nat
           /\ g = SplitFee(g, FeeBps).net + SplitFee(g, FeeBps).fee
                    + SplitFee(g, FeeBps).protocolFee
<1> DEFINE f == BpsOf(g, FeeBps)
           q == BpsOf(g, PROTOCOL_FEE_BPS)
<1>1. /\ FeeBps \in Nat /\ PROTOCOL_FEE_BPS \in Nat
      /\ FeeBps + PROTOCOL_FEE_BPS <= 10000
  BY RuleConstants, SubscriptionConstants
<1>2. f \in Nat /\ q \in Nat /\ 10000 * f <= g * FeeBps /\ 10000 * q <= g * PROTOCOL_FEE_BPS
  <2>1. f \in Nat /\ 10000 * f <= g * FeeBps
    BY <1>1, BpsBound
  <2>2. q \in Nat /\ 10000 * q <= g * PROTOCOL_FEE_BPS
    BY <1>1, BpsBound
  <2> QED BY <2>1, <2>2
<1>3. g * FeeBps + g * PROTOCOL_FEE_BPS = g * (FeeBps + PROTOCOL_FEE_BPS)
  BY <1>1
<1>4. g * (FeeBps + PROTOCOL_FEE_BPS) <= g * 10000
  <2>1. \A x \in Nat : x <= 10000 => g * x <= g * 10000
    OBVIOUS
  <2> QED BY <1>1, <2>1
<1>5. g * FeeBps \in Nat /\ g * PROTOCOL_FEE_BPS \in Nat
  BY <1>1
<1>6. f + q <= g
  <2> DEFINE u == g * FeeBps
             v == g * PROTOCOL_FEE_BPS
  <2>1. u + v <= g * 10000 /\ 10000 * f <= u /\ 10000 * q <= v /\ u \in Nat /\ v \in Nat
    BY <1>2, <1>3, <1>4, <1>5
  <2> HIDE DEF u, v, f, q
  <2> QED BY <2>1, <1>2
<1>7. g - f - q \in Nat /\ g = (g - f - q) + f + q
  <2> HIDE DEF f, q
  <2> QED BY <1>2, <1>6
<1> QED BY <1>2, <1>7 DEF SplitFee

-----------------------------------------------------------------------------
(* Types.                                                                  *)

LEMMA ConstantTypes ==
    /\ STORAGE_RESERVE \in Nat /\ CHARGE_GAS_BUDGET \in Nat /\ MIN_REFUND \in Nat \ {0}
    /\ CHARGE_TOLERANCE_SEC \in Nat /\ DEFAULT_GRACE_SEC \in Nat \ {0}
    /\ MAX_RETRY \in Nat \ {0}
    /\ PAYMENT_GAS \in Nat /\ FEE_MSG_GAS \in Nat /\ KEEPER_REWARD \in Nat
    /\ JETTON_TRANSFER_GAS \in Nat /\ FACTORY_DEPLOY_GAS \in Nat
    /\ ExecGas \in Nat /\ FwdFee \in Nat /\ OpValue \in Nat
    /\ OpValue >= ExecGas /\ FACTORY_DEPLOY_GAS >= ExecGas
  BY RuleConstants, SubscriptionConstants DEF Money

\* The storage cell, field by field.
Cell(seqno, status, charging, paused, retry, period, nextBilling, graceEnd,
     maxPeriods, periodsCharged, amount, deposit, relayerKey) ==
    [seqno |-> seqno, status |-> status, charging |-> charging, paused |-> paused,
     retry |-> retry, period |-> period, nextBilling |-> nextBilling,
     graceEnd |-> graceEnd, maxPeriods |-> maxPeriods,
     periodsCharged |-> periodsCharged, amount |-> amount, deposit |-> deposit,
     relayerKey |-> relayerKey]

LEMMA CellType ==
    ASSUME NEW seqno \in Nat, NEW status \in Status, NEW charging \in BOOLEAN,
           NEW paused \in BOOLEAN, NEW retry \in Nat, NEW period \in Nat \ {0},
           NEW nextBilling \in Nat, NEW graceEnd \in Nat, NEW maxPeriods \in Nat,
           NEW periodsCharged \in Nat, NEW amount \in Nat \ {0}, NEW deposit \in Nat,
           NEW relayerKey \in Keys
    PROVE  Cell(seqno, status, charging, paused, retry, period, nextBilling, graceEnd,
                maxPeriods, periodsCharged, amount, deposit, relayerKey) \in Storage
  BY DEF Cell, Storage, Money

LEMMA FieldTypes ==
    ASSUME NEW s \in Storage
    PROVE  /\ s.seqno \in Nat /\ s.status \in Status /\ s.charging \in BOOLEAN
           /\ s.paused \in BOOLEAN /\ s.retry \in Nat /\ s.period \in Nat \ {0}
           /\ s.nextBilling \in Nat /\ s.graceEnd \in Nat /\ s.maxPeriods \in Nat
           /\ s.periodsCharged \in Nat /\ s.amount \in Nat \ {0} /\ s.deposit \in Nat
           /\ s.relayerKey \in Keys
  BY DEF Storage, Money

LEMMA FailureType ==
    ASSUME NEW retry \in Nat, NEW graceEnd \in Nat, NEW t \in Nat
    PROVE  /\ OnChargeFailed(retry, graceEnd, t).status \in {"GRACE", "CANCELLED"}
           /\ OnChargeFailed(retry, graceEnd, t).retry \in Nat
           /\ OnChargeFailed(retry, graceEnd, t).graceEnd \in Nat
  BY ConstantTypes DEF OnChargeFailed

LEMMA InitType == Init => TypeOK
<1> SUFFICES ASSUME Init PROVE TypeOK
  OBVIOUS
<1>1. FirstBilling \in Nat
  BY SubscriptionConstants DEF FirstBilling
<1>2. InitialDeposit \in Nat
  BY SubscriptionConstants DEF InitialDeposit, Money
<1>3. sub \in Storage
  BY <1>1, <1>2, SubscriptionConstants DEF Init, Storage, Status, Money
<1>4. balance \in Nat
  BY ConstantTypes, SubscriptionConstants DEF Init, Money
<1> QED
  BY <1>2, <1>3, <1>4, SubscriptionConstants DEF Init, TypeOK, Money

\* What a charge that fits leaves behind.
LEMMA ChargeType ==
    ASSUME TypeOK, Charge
    PROVE  TypeOK'
<1> DEFINE split == SplitFee(sub.amount, FeeBps)
<1>1. /\ sub \in Storage /\ sub.amount \in Nat /\ sub.deposit \in Nat /\ sub.seqno \in Nat
      /\ sub.period \in Nat /\ sub.nextBilling \in Nat /\ balance \in Nat
  BY DEF TypeOK, Storage, Money
<1>2. split.net \in Nat /\ split.fee \in Nat /\ split.protocolFee \in Nat
  BY <1>1, SplitType
<1>3. sub.deposit - sub.amount \in Nat
  BY <1>1, ConstantTypes DEF Charge, MayCharge, Funded, HasFundsForCharge
<1>4. sub' \in Storage
  <2> DEFINE up == PaymentType = "JETTON"
  <2>1. up \in BOOLEAN
    OBVIOUS
  <2>2. sub' = Cell(sub.seqno + 1, "ACTIVE", up, sub.paused, 0, sub.period,
                    sub.nextBilling + sub.period, 0, sub.maxPeriods,
                    sub.periodsCharged + 1, sub.amount, sub.deposit - sub.amount,
                    sub.relayerKey)
    BY <1>1 DEF Charge, PeriodCounted, Debit, Storage, Cell
  <2> HIDE DEF up
  <2>3. /\ sub.seqno + 1 \in Nat /\ "ACTIVE" \in Status /\ sub.nextBilling + sub.period \in Nat
        /\ sub.periodsCharged + 1 \in Nat /\ 0 \in Nat
    BY <1>1, FieldTypes DEF Status
  <2>4. /\ sub.paused \in BOOLEAN /\ sub.period \in Nat \ {0} /\ sub.maxPeriods \in Nat
        /\ sub.amount \in Nat \ {0} /\ sub.relayerKey \in Keys
    BY <1>1, FieldTypes
  <2> QED BY <2>1, <2>2, <2>3, <2>4, <1>3, CellType
<1>5. ChargeCost(split) \in Nat
  <2> HIDE DEF split
  <2> QED BY <1>2, ConstantTypes DEF ChargeCost, PaymentCost, FeeCost
<1>6. balance' \in Nat
  <2> HIDE DEF split
  <2>1. ChargeFits(split) /\ balance' = Left - ChargeCost(split)
    BY DEF Charge, split
  <2> QED BY <2>1, <1>1, <1>5, ConstantTypes DEF ChargeFits, Left
<1>7. ChargeMessages(split) \subseteq Message
  <2> HIDE DEF split
  <2> QED BY <1>1, <1>2 DEF ChargeMessages, FeeMessage, Outgoing, PaymentKind, Message
<1> HIDE DEF split
<1> QED
  BY <1>4, <1>6, <1>7 DEF Charge, TypeOK, Money, jetton, chain, history, split

LEMMA StoreType ==
    ASSUME TypeOK, NEW s \in Storage, NEW v \in Nat, v >= ExecGas,
           s.deposit >= sub.deposit, Store(s, v)
    PROVE  TypeOK'
<1>1. balance' \in Nat
  BY ConstantTypes DEF TypeOK, Store, With, Money
<1>2. credited' \in Nat
  <2>1. s.deposit \in Nat /\ sub.deposit \in Nat
    BY FieldTypes DEF TypeOK
  <2> QED BY <2>1 DEF TypeOK, Store
<1> QED
  BY <1>1, <1>2 DEF Store, TypeOK, Money, jetton, chain

LEMMA CloseOutType ==
    ASSUME TypeOK, NEW s \in Storage, NEW b \in Nat, CloseOut(s, b),
           UNCHANGED <<outbox, jetton, chain, history>>
    PROVE  TypeOK'
  BY ConstantTypes DEF CloseOut, TypeOK, Money, jetton, chain, history

LEMMA LeftType ==
    ASSUME TypeOK, Accepted
    PROVE  Left \in Nat
  BY ConstantTypes DEF TypeOK, Accepted, Left, Money

\* The storage a cancellation writes, with or without the deposit zeroed.
LEMMA CancelledType ==
    ASSUME NEW s \in Storage, NEW d \in Nat, NEW r \in Nat
    PROVE  Cell(s.seqno + 1, "CANCELLED", FALSE, s.paused, r, s.period, s.nextBilling,
                0, s.maxPeriods, s.periodsCharged, s.amount, d, s.relayerKey) \in Storage
<1>1. /\ s.paused \in BOOLEAN /\ s.period \in Nat \ {0} /\ s.nextBilling \in Nat
      /\ s.maxPeriods \in Nat /\ s.periodsCharged \in Nat /\ s.amount \in Nat \ {0}
      /\ s.relayerKey \in Keys /\ s.seqno + 1 \in Nat
  BY FieldTypes
<1>2. "CANCELLED" \in Status /\ FALSE \in BOOLEAN /\ 0 \in Nat
  BY DEF Status
<1> QED BY <1>1, <1>2, CellType

LEMMA ChargeRefusedType == ASSUME TypeOK, ChargeRefused \/ ChargeRolledBack PROVE TypeOK'
<1>1. Accepted /\ balance' = Left /\ UNCHANGED <<sub, outbox, jetton, chain, history>>
  BY DEF ChargeRefused, ChargeRolledBack, MayCharge
<1>2. Left \in Nat
  BY <1>1, LeftType
<1> QED BY <1>1, <1>2 DEF TypeOK, Money, jetton, chain, history

LEMMA EndTermType == ASSUME TypeOK, EndTerm PROVE TypeOK'
<1> DEFINE s == [sub EXCEPT !.seqno = @ + 1, !.status = "CANCELLED",
                            !.charging = FALSE, !.graceEnd = 0, !.deposit = 0]
<1>1. Left \in Nat
  BY LeftType DEF EndTerm
<1>2. sub \in Storage
  BY DEF TypeOK
<1>3. ASSUME NEW t, t = s PROVE t \in Storage
  <2>1. t = Cell(sub.seqno + 1, "CANCELLED", FALSE, sub.paused, sub.retry, sub.period,
                 sub.nextBilling, 0, sub.maxPeriods, sub.periodsCharged, sub.amount, 0,
                 sub.relayerKey)
    BY <1>2, <1>3 DEF Storage, Cell
  <2>2. sub.retry \in Nat /\ 0 \in Nat
    BY <1>2, FieldTypes
  <2> QED BY <1>2, <2>1, <2>2, CancelledType
<1>4. CloseOut(s, Left) /\ UNCHANGED <<outbox, jetton, chain, history>>
  BY DEF EndTerm
<1> HIDE DEF s
<1> QED BY <1>1, <1>3, <1>4, CloseOutType

LEMMA EndGraceType == ASSUME TypeOK, EndGrace PROVE TypeOK'
<1> DEFINE s == [sub EXCEPT !.seqno = @ + 1, !.status = "CANCELLED",
                            !.charging = FALSE, !.graceEnd = 0]
<1>1. Left \in Nat
  BY LeftType DEF EndGrace
<1>2. sub \in Storage
  BY DEF TypeOK
<1>3. ASSUME NEW t, t = s PROVE t \in Storage
  <2>1. t = Cell(sub.seqno + 1, "CANCELLED", FALSE, sub.paused, sub.retry, sub.period,
                 sub.nextBilling, 0, sub.maxPeriods, sub.periodsCharged, sub.amount,
                 sub.deposit, sub.relayerKey)
    BY <1>2, <1>3 DEF Storage, Cell
  <2>2. sub.retry \in Nat /\ sub.deposit \in Nat
    BY <1>2, FieldTypes
  <2> QED BY <1>2, <2>1, <2>2, CancelledType
<1>4. CloseOut(s, Left) /\ UNCHANGED <<outbox, jetton, chain, history>>
  BY DEF EndGrace
<1> HIDE DEF s
<1> QED BY <1>1, <1>3, <1>4, CloseOutType

LEMMA ChargeUnfundedType == ASSUME TypeOK, ChargeUnfunded PROVE TypeOK'
<1> DEFINE f == OnChargeFailed(sub.retry, sub.graceEnd, now)
           s == [sub EXCEPT !.seqno = @ + 1, !.status = f.status,
                            !.charging = FALSE, !.retry = f.retry, !.graceEnd = f.graceEnd]
<1>1. Left \in Nat
  BY LeftType DEF ChargeUnfunded
<1>2. sub \in Storage /\ now \in Nat /\ sub.retry \in Nat /\ sub.graceEnd \in Nat
  BY SubscriptionConstants, FieldTypes DEF TypeOK
<1>3. f.status \in Status /\ f.retry \in Nat /\ f.graceEnd \in Nat
  BY <1>2, FailureType DEF Status
<1>4. ASSUME NEW t, t = s PROVE t \in Storage
  <2> HIDE DEF f
  <2>1. t = Cell(sub.seqno + 1, f.status, FALSE, sub.paused, f.retry, sub.period,
                 sub.nextBilling, f.graceEnd, sub.maxPeriods, sub.periodsCharged,
                 sub.amount, sub.deposit, sub.relayerKey)
    BY <1>2, <1>4 DEF Storage, Cell
  <2>2. /\ sub.paused \in BOOLEAN /\ sub.period \in Nat \ {0} /\ sub.nextBilling \in Nat
        /\ sub.maxPeriods \in Nat /\ sub.periodsCharged \in Nat /\ sub.deposit \in Nat
        /\ sub.amount \in Nat \ {0} /\ sub.relayerKey \in Keys /\ sub.seqno + 1 \in Nat
        /\ FALSE \in BOOLEAN
    BY <1>2, FieldTypes
  <2> QED BY <2>1, <2>2, <1>3, CellType
<1>5. UNCHANGED <<outbox, jetton, chain, history>>
  BY DEF ChargeUnfunded
<1>6. CloseOut(s, Left) \/ (sub' = s /\ balance' = Left)
  BY DEF ChargeUnfunded
<1> HIDE DEF s
<1>7. CASE CloseOut(s, Left)
  BY <1>1, <1>4, <1>5, <1>7, CloseOutType
<1>8. CASE sub' = s /\ balance' = Left
  BY <1>1, <1>4, <1>5, <1>8 DEF TypeOK, Money, jetton, chain, history
<1> QED BY <1>6, <1>7, <1>8

\* With enough value attached a handler leaves a balance.
LEMMA WithType ==
    ASSUME TypeOK, NEW v \in Nat, v >= ExecGas
    PROVE  With(v) \in Nat
  BY ConstantTypes DEF TypeOK, With, Money

LEMMA CancelledStorage == ASSUME TypeOK PROVE Cancelled \in Storage
<1>1. sub \in Storage /\ sub.retry \in Nat /\ 0 \in Nat
  BY FieldTypes DEF TypeOK
<1>2. ASSUME NEW t, t = Cancelled PROVE t \in Storage
  <2>1. t = Cell(sub.seqno + 1, "CANCELLED", FALSE, sub.paused, sub.retry, sub.period,
                 sub.nextBilling, 0, sub.maxPeriods, sub.periodsCharged, sub.amount, 0,
                 sub.relayerKey)
    BY <1>1, <1>2 DEF Storage, Cell, Cancelled
  <2> QED BY <1>1, <2>1, CancelledType
<1> QED BY <1>2

LEMMA CancelType == ASSUME TypeOK, CancelTon \/ CancelJetton PROVE TypeOK'
<1>1. With(OpValue) \in Nat
  BY WithType, ConstantTypes
<1>2. Cancelled \in Storage
  BY CancelledStorage
<1>3. CASE CancelTon
  BY <1>1, <1>2, <1>3, CloseOutType DEF CancelTon
<1>4. CASE CancelJetton
  <2>1. sub.seqno \in Nat /\ sub.deposit \in Nat
    BY FieldTypes DEF TypeOK
  <2>2. FeeMessage("tokenRefund", sub.deposit) \subseteq Message
    BY <2>1 DEF FeeMessage, Outgoing, Message
  <2> QED
    BY <1>1, <1>2, <1>4, <2>2, ConstantTypes
    DEF CancelJetton, TypeOK, Money, jetton, chain, history
<1> QED BY <1>3, <1>4

LEMMA PlainTransferType == ASSUME TypeOK, NEW v \in TopUps, PlainTransfer(v) PROVE TypeOK'
<1> DEFINE s == [sub EXCEPT !.deposit = Credit(v)]
<1>1. v \in Nat /\ v >= ExecGas
  BY SubscriptionConstants DEF Money
<1>2. sub \in Storage /\ sub.deposit \in Nat
  BY FieldTypes DEF TypeOK
<1>3. Credit(v) \in Nat /\ Credit(v) >= sub.deposit
  BY <1>1, <1>2 DEF Credit
<1>4. s \in Storage /\ s.deposit = Credit(v)
  BY <1>2, <1>3 DEF Storage, Money
<1>5. Store(s, v)
  BY DEF PlainTransfer
<1> HIDE DEF s
<1> QED BY <1>1, <1>3, <1>4, <1>5, StoreType

LEMMA TopUpType == ASSUME TypeOK, NEW v \in TopUps, TopUp(v) PROVE TypeOK'
<1> DEFINE s == [sub EXCEPT !.seqno = @ + 1, !.deposit = Credit(v)]
<1>1. v \in Nat /\ v >= ExecGas
  BY SubscriptionConstants DEF Money
<1>2. /\ sub \in Storage /\ sub.deposit \in Nat /\ sub.seqno + 1 \in Nat
      /\ sub.status \in Status /\ sub.charging \in BOOLEAN /\ sub.paused \in BOOLEAN
      /\ sub.retry \in Nat /\ sub.period \in Nat \ {0} /\ sub.nextBilling \in Nat
      /\ sub.graceEnd \in Nat /\ sub.maxPeriods \in Nat /\ sub.periodsCharged \in Nat
      /\ sub.amount \in Nat \ {0} /\ sub.relayerKey \in Keys
  BY FieldTypes DEF TypeOK
<1>3. Credit(v) \in Nat /\ Credit(v) >= sub.deposit
  BY <1>1, <1>2 DEF Credit
<1>4. ASSUME NEW t, t = s PROVE t \in Storage /\ t.deposit = Credit(v)
  <2>1. t = Cell(sub.seqno + 1, sub.status, sub.charging, sub.paused, sub.retry, sub.period,
                 sub.nextBilling, sub.graceEnd, sub.maxPeriods, sub.periodsCharged,
                 sub.amount, Credit(v), sub.relayerKey)
    BY <1>2, <1>4 DEF Storage, Cell
  <2>2. t \in Storage
    BY <2>1, <1>2, <1>3, CellType
  <2> QED BY <2>1, <2>2 DEF Cell
<1>5. s \in Storage /\ s.deposit = Credit(v)
  BY <1>4
<1> HIDE DEF s
<1>6. ASSUME NEW t, t = Reinstated(s) PROVE t \in Storage /\ t.deposit = Credit(v)
  <2>1. t = Cell(s.seqno, "ACTIVE", s.charging, s.paused, 0, s.period, s.nextBilling, 0,
                 s.maxPeriods, s.periodsCharged, s.amount, s.deposit, s.relayerKey)
    BY <1>5, <1>6 DEF Storage, Cell, Reinstated
  <2>2. /\ s.seqno \in Nat /\ s.charging \in BOOLEAN /\ s.paused \in BOOLEAN
        /\ s.period \in Nat \ {0} /\ s.nextBilling \in Nat /\ s.maxPeriods \in Nat
        /\ s.periodsCharged \in Nat /\ s.amount \in Nat \ {0} /\ s.deposit \in Nat
        /\ s.relayerKey \in Keys /\ "ACTIVE" \in Status /\ 0 \in Nat
    BY <1>5, FieldTypes DEF Status
  <2>3. t \in Storage
    BY <2>1, <2>2, CellType
  <2> QED BY <2>1, <2>3, <1>5 DEF Cell
<1>7. Store(s, v) \/ Store(Reinstated(s), v)
  BY DEF TopUp, s
<1> QED BY <1>1, <1>3, <1>5, <1>6, <1>7, StoreType

LEMMA SubFields ==
    ASSUME TypeOK
    PROVE  /\ sub \in Storage /\ sub.deposit \in Nat /\ sub.seqno + 1 \in Nat
           /\ sub.seqno \in Nat
           /\ sub.status \in Status /\ sub.charging \in BOOLEAN /\ sub.paused \in BOOLEAN
           /\ sub.retry \in Nat /\ sub.period \in Nat \ {0} /\ sub.nextBilling \in Nat
           /\ sub.graceEnd \in Nat /\ sub.maxPeriods \in Nat /\ sub.periodsCharged \in Nat
           /\ sub.amount \in Nat \ {0} /\ sub.relayerKey \in Keys
           /\ now \in Nat /\ 0 \in Nat
  BY FieldTypes, SubscriptionConstants DEF TypeOK

\* The literals the handlers write.
LEMMA Literals ==
    /\ FALSE \in BOOLEAN
    /\ \A x \in {"ACTIVE", "PAUSED", "GRACE", "CANCELLED"} : x \in Status
  BY DEF Status

LEMMA PauseSubType == ASSUME TypeOK, PauseSub PROVE TypeOK'
<1> DEFINE s == [sub EXCEPT !.seqno = @ + 1, !.status = "PAUSED", !.charging = FALSE]
<1>1. OpValue \in Nat /\ OpValue >= ExecGas
  BY ConstantTypes
<1>2. ASSUME NEW t, t = s PROVE t \in Storage /\ t.deposit = sub.deposit
  <2>1. t = Cell(sub.seqno + 1, "PAUSED", FALSE, sub.paused, sub.retry, sub.period,
                 sub.nextBilling, sub.graceEnd, sub.maxPeriods, sub.periodsCharged, sub.amount,
                 sub.deposit, sub.relayerKey)
    BY SubFields, <1>2 DEF Storage, Cell
  <2>2. t \in Storage
    BY <2>1, SubFields, Literals, CellType
  <2> QED BY <2>1, <2>2 DEF Cell
<1>3. Store(s, OpValue)
  BY DEF PauseSub
<1>4. s \in Storage /\ s.deposit = sub.deposit
  BY <1>2
<1> HIDE DEF s
<1> QED BY <1>1, <1>3, <1>4, StoreType, SubFields

LEMMA ResumeSubType == ASSUME TypeOK, ResumeSub PROVE TypeOK'
<1> DEFINE s == [sub EXCEPT !.seqno = @ + 1, !.status = "ACTIVE", !.charging = FALSE,
                            !.nextBilling = now + sub.period, !.graceEnd = 0]
<1>1. OpValue \in Nat /\ OpValue >= ExecGas
  BY ConstantTypes
<1>2. ASSUME NEW t, t = s PROVE t \in Storage /\ t.deposit = sub.deposit
  <2>1. t = Cell(sub.seqno + 1, "ACTIVE", FALSE, sub.paused, sub.retry, sub.period,
                 now + sub.period, 0, sub.maxPeriods, sub.periodsCharged, sub.amount, sub.deposit,
                 sub.relayerKey)
    BY SubFields, <1>2 DEF Storage, Cell
  <2>2. now + sub.period \in Nat
    BY SubFields
  <2>3. t \in Storage
    BY <2>1, <2>2, SubFields, Literals, CellType
  <2> QED BY <2>1, <2>3 DEF Cell
<1>3. Store(s, OpValue)
  BY DEF ResumeSub
<1>4. s \in Storage /\ s.deposit = sub.deposit
  BY <1>2
<1> HIDE DEF s
<1> QED BY <1>1, <1>3, <1>4, StoreType, SubFields

LEMMA EmergencyPauseType == ASSUME TypeOK, EmergencyPause PROVE TypeOK'
<1> DEFINE s == [sub EXCEPT !.seqno = @ + 1, !.charging = FALSE, !.paused = ~@]
<1>1. OpValue \in Nat /\ OpValue >= ExecGas
  BY ConstantTypes
<1>2. ASSUME NEW t, t = s PROVE t \in Storage /\ t.deposit = sub.deposit
  <2>1. t = Cell(sub.seqno + 1, sub.status, FALSE, ~sub.paused, sub.retry, sub.period,
                 sub.nextBilling, sub.graceEnd, sub.maxPeriods, sub.periodsCharged, sub.amount,
                 sub.deposit, sub.relayerKey)
    BY SubFields, <1>2 DEF Storage, Cell
  <2>2. t \in Storage
    BY <2>1, SubFields, Literals, CellType
  <2> QED BY <2>1, <2>2 DEF Cell
<1>3. Store(s, OpValue)
  BY DEF EmergencyPause
<1>4. s \in Storage /\ s.deposit = sub.deposit
  BY <1>2
<1> HIDE DEF s
<1> QED BY <1>1, <1>3, <1>4, StoreType, SubFields

LEMMA RotateRelayerType == ASSUME TypeOK, NEW k \in Keys, RotateRelayer(k) PROVE TypeOK'
<1> DEFINE s == [sub EXCEPT !.seqno = @ + 1, !.relayerKey = k]
<1>1. OpValue \in Nat /\ OpValue >= ExecGas
  BY ConstantTypes
<1>2. ASSUME NEW t, t = s PROVE t \in Storage /\ t.deposit = sub.deposit
  <2>1. t = Cell(sub.seqno + 1, sub.status, sub.charging, sub.paused, sub.retry, sub.period,
                 sub.nextBilling, sub.graceEnd, sub.maxPeriods, sub.periodsCharged, sub.amount,
                 sub.deposit, k)
    BY SubFields, <1>2 DEF Storage, Cell
  <2>2. t \in Storage
    BY <2>1, SubFields, Literals, CellType
  <2> QED BY <2>1, <2>2 DEF Cell
<1>3. Store(s, OpValue)
  BY DEF RotateRelayer
<1>4. s \in Storage /\ s.deposit = sub.deposit
  BY <1>2
<1> HIDE DEF s
<1> QED BY <1>1, <1>3, <1>4, StoreType, SubFields

LEMMA SetMaxPeriodsType == ASSUME TypeOK, NEW n \in PeriodCaps, SetMaxPeriods(n) PROVE TypeOK'
<1> DEFINE s == [sub EXCEPT !.seqno = @ + 1, !.maxPeriods = n]
<1>1. OpValue \in Nat /\ OpValue >= ExecGas
  BY ConstantTypes
<1>2. ASSUME NEW t, t = s PROVE t \in Storage /\ t.deposit = sub.deposit
  <2>1. t = Cell(sub.seqno + 1, sub.status, sub.charging, sub.paused, sub.retry, sub.period,
                 sub.nextBilling, sub.graceEnd, n, sub.periodsCharged, sub.amount, sub.deposit,
                 sub.relayerKey)
    BY SubFields, <1>2 DEF Storage, Cell
  <2>2. t \in Storage
    BY <2>1, SubFields, Literals, CellType, SubscriptionConstants
  <2> QED BY <2>1, <2>2 DEF Cell
<1>3. Store(s, OpValue)
  BY DEF SetMaxPeriods
<1>4. s \in Storage /\ s.deposit = sub.deposit
  BY <1>2
<1> HIDE DEF s
<1> QED BY <1>1, <1>3, <1>4, StoreType, SubFields

LEMMA ApplyPlanType == ASSUME TypeOK, NEW p \in Plans, ApplyPlan(p) PROVE TypeOK'
<1> DEFINE st == IF HasFundsForCharge(sub.deposit, p.amount) THEN sub.status ELSE "GRACE"
           s == [sub EXCEPT !.seqno = @ + 1, !.amount = p.amount, !.period = p.period,
                            !.nextBilling = now + p.period, !.status = st]
<1>1. FACTORY_DEPLOY_GAS \in Nat /\ FACTORY_DEPLOY_GAS >= ExecGas
  BY ConstantTypes
<1>2. p.amount \in Nat \ {0} /\ p.period \in Nat \ {0}
  BY SubscriptionConstants DEF Money
<1>3. st \in Status
  BY SubFields, Literals
<1>4. ASSUME NEW t, t = s PROVE t \in Storage /\ t.deposit = sub.deposit
  <2> HIDE DEF st
  <2>1. t = Cell(sub.seqno + 1, st, sub.charging, sub.paused, sub.retry, p.period,
                 now + p.period, sub.graceEnd, sub.maxPeriods, sub.periodsCharged,
                 p.amount, sub.deposit, sub.relayerKey)
    BY SubFields, <1>4 DEF Storage, Cell
  <2>2. now + p.period \in Nat
    BY SubFields, <1>2
  <2>3. t \in Storage
    BY <2>1, <2>2, <1>2, <1>3, SubFields, CellType
  <2> QED BY <2>1, <2>3 DEF Cell
<1>5. Store(s, FACTORY_DEPLOY_GAS)
  BY DEF ApplyPlan
<1>6. s \in Storage /\ s.deposit = sub.deposit
  BY <1>4
<1> HIDE DEF s
<1> QED BY <1>1, <1>5, <1>6, StoreType, SubFields

\* A message that returns changes, besides the storage, money and history only.
LEMMA ReturnsType ==
    ASSUME TypeOK, NEW m \in outbox, Returns(m), sub' \in Storage
    PROVE  TypeOK'
<1>1. m \in Message /\ m.amount \in Nat /\ m.seqno \in Nat
  BY DEF TypeOK, Message
<1>2. Value(m) \in Nat
  BY <1>1, ConstantTypes DEF Value, Message
<1>3. Recovered(m) \in Nat
  BY <1>2, ConstantTypes DEF Recovered
<1>4. returned' \subseteq Nat
  BY <1>1 DEF Returns, Note, TypeOK
<1>5. balance' \in Nat
  BY <1>3 DEF Returns, TypeOK, Money
<1> QED BY <1>4, <1>5 DEF Returns, TypeOK, Money, jetton, chain

LEMMA BouncedType ==
    ASSUME TypeOK, NEW m \in outbox, PaymentBounced(m) \/ FeeBounced(m) \/ BounceUnread(m)
    PROVE  TypeOK'
<1>1. m.amount \in Nat
  BY DEF TypeOK, Message
<1>2. CASE PaymentBounced(m)
  <2> DEFINE f == OnChargeFailed(sub.retry, sub.graceEnd, now)
             n == TakenBack(sub.periodsCharged)
             b == sub.nextBilling - sub.period
             d == sub.deposit + Restored
  <2>1. f.status \in Status /\ f.retry \in Nat /\ f.graceEnd \in Nat
    <3>1. sub.retry \in Nat /\ sub.graceEnd \in Nat /\ now \in Nat
      BY SubFields
    <3> QED BY <3>1, FailureType DEF Status
  <2>2. n \in Nat /\ b \in Nat /\ d \in Nat
    BY <1>2, SubFields DEF PaymentBounced, TakenBack, Restored
  <2>3. sub' = [sub EXCEPT !.status = f.status, !.charging = FALSE, !.retry = f.retry,
                           !.graceEnd = f.graceEnd, !.nextBilling = b,
                           !.periodsCharged = n, !.deposit = d]
    BY <1>2 DEF PaymentBounced
  <2> HIDE DEF f, n, b, d
  <2>4. sub' = Cell(sub.seqno, f.status, FALSE, sub.paused, f.retry, sub.period, b,
                    f.graceEnd, sub.maxPeriods, n, sub.amount, d, sub.relayerKey)
    BY <2>3, SubFields DEF Storage, Cell
  <2>5. sub' \in Storage
    BY <2>1, <2>2, <2>4, SubFields, Literals, CellType
  <2> QED BY <1>2, <2>5, ReturnsType DEF PaymentBounced
<1>3. CASE FeeBounced(m)
  <2>1. sub.deposit + m.amount \in Nat
    BY <1>1, SubFields
  <2>2. sub' \in Storage
    BY <1>3, <2>1, SubFields DEF FeeBounced, Storage, Money
  <2> QED BY <1>3, <2>2, ReturnsType DEF FeeBounced
<1>4. CASE BounceUnread(m)
  BY <1>4, SubFields, ReturnsType DEF BounceUnread
<1> QED BY <1>2, <1>3, <1>4

LEMMA DeliveredType ==
    ASSUME TypeOK, NEW m \in outbox, Landed(m) \/ TransferDone(m)
    PROVE  TypeOK'
<1>1. m.amount \in Nat /\ m.seqno \in Nat
  BY DEF TypeOK, Message
<1>2. Note(settled, m) \subseteq Nat
  BY <1>1 DEF Note, TypeOK
<1>3. CASE Landed(m)
  BY <1>2, <1>3 DEF Landed, TypeOK, jetton, chain
<1>4. CASE TransferDone(m)
  BY <1>1, <1>2, <1>4 DEF TransferDone, WalletTakes, TypeOK, chain
<1> QED BY <1>3, <1>4

LEMMA JettonExcessesType == ASSUME TypeOK, JettonExcesses PROVE TypeOK'
<1>1. sub' \in Storage
  <2>1. ASSUME NEW t, t = [sub EXCEPT !.seqno = @ + 1, !.charging = FALSE]
        PROVE  t \in Storage
    <3>1. t = Cell(sub.seqno + 1, sub.status, FALSE, sub.paused, sub.retry, sub.period,
                   sub.nextBilling, sub.graceEnd, sub.maxPeriods, sub.periodsCharged,
                   sub.amount, sub.deposit, sub.relayerKey)
      BY SubFields, <2>1 DEF Storage, Cell
    <3> QED BY <3>1, SubFields, Literals, CellType
  <2>2. sub' = [sub EXCEPT !.seqno = @ + 1, !.charging = FALSE] \/ sub' = sub
    BY DEF JettonExcesses
  <2> QED BY <2>1, <2>2, SubFields
<1> QED BY <1>1 DEF JettonExcesses, TypeOK, chain, history

LEMMA TransferNotificationType ==
    ASSUME TypeOK, NEW a \in TokenAmounts, NEW c \in ParsedAmounts, TransferNotification(a, c)
    PROVE  TypeOK'
<1>1. a \in Nat /\ c \in Nat
  BY SubscriptionConstants
<1>2. sub' \in Storage
  <2>1. ASSUME NEW t, t = [sub EXCEPT !.seqno = @ + 1, !.deposit = @ + c]
        PROVE  t \in Storage
    <3>1. t = Cell(sub.seqno + 1, sub.status, sub.charging, sub.paused, sub.retry,
                   sub.period, sub.nextBilling, sub.graceEnd, sub.maxPeriods,
                   sub.periodsCharged, sub.amount, sub.deposit + c, sub.relayerKey)
      BY SubFields, <2>1 DEF Storage, Cell
    <3>2. sub.deposit + c \in Nat
      BY <1>1, SubFields
    <3> QED BY <3>1, <3>2, SubFields, CellType
  <2>2. sub' = [sub EXCEPT !.seqno = @ + 1, !.deposit = @ + c] \/ sub' = sub
    BY DEF TransferNotification
  <2> QED BY <2>1, <2>2, SubFields
<1>3. tokens' \in Nat /\ credited' \in Nat
  BY <1>1 DEF TransferNotification, TypeOK
<1> QED BY <1>2, <1>3 DEF TransferNotification, TypeOK, chain

LEMMA ClockType == ASSUME TypeOK, Tick \/ \E k \in Keys : SignCharge(k) PROVE TypeOK'
<1>1. CASE Tick
  BY <1>1 DEF Tick, TypeOK, jetton, history
<1>2. ASSUME NEW k \in Keys, SignCharge(k) PROVE TypeOK'
  <2>1. [seqno |-> sub.seqno, timestamp |-> now, key |-> k] \in SignedCharge
    BY SubFields DEF TypeOK, SignedCharge
  <2> QED BY <1>2, <2>1 DEF SignCharge, TypeOK, jetton, history
<1> QED BY <1>1, <1>2

\* Every step keeps the types.
LEMMA TypeStep == ASSUME TypeOK, [Next]_vars PROVE TypeOK'
<1>1. CASE Tick \/ \E k \in Keys : SignCharge(k)
  BY <1>1, ClockType
<1>2. CASE ExternalMessage
  BY <1>2, ChargeRefusedType, EndTermType, EndGraceType, ChargeUnfundedType, ChargeType
  DEF ExternalMessage
<1>3. CASE OwnerOrSubscriber
  BY <1>3, CancelType, PlainTransferType, TopUpType, PauseSubType, ResumeSubType,
     EmergencyPauseType, RotateRelayerType, ApplyPlanType, SetMaxPeriodsType
  DEF OwnerOrSubscriber
<1>4. CASE Network
  BY <1>4, DeliveredType, BouncedType, JettonExcessesType, TransferNotificationType
  DEF Network
<1>5. CASE UNCHANGED vars
  BY <1>5 DEF vars, jetton, chain, history, TypeOK
<1> QED BY <1>1, <1>2, <1>3, <1>4, <1>5 DEF Next

\* Type correctness: the storage cell keeps the shape save_storage gives it, and
\* no subtraction on deposit, balance or billing time underflows.
THEOREM TypeCorrect == Spec => []TypeOK
<1>1. Init => TypeOK
  BY InitType
<1>2. TypeOK /\ [Next]_vars => TypeOK'
  BY TypeStep
<1> QED BY <1>1, <1>2, PTL DEF Spec

-----------------------------------------------------------------------------
(* Retries and the grace deadline: CleanUnlessGrace is inductive.          *)

LEMMA CloseOutStorage ==
    ASSUME NEW s, NEW b, CloseOut(s, b)
    PROVE  sub' = s \/ sub' = sub
  BY DEF CloseOut

\* Steps that leave the storage cell alone.
LEMMA StorageUntouched ==
    ASSUME NEW m, \/ Tick \/ \E k \in Keys : SignCharge(k)
                  \/ ChargeRefused \/ ChargeRolledBack
                  \/ Landed(m) \/ BounceUnread(m) \/ TransferDone(m)
    PROVE  sub' = sub
  BY DEF Tick, SignCharge, ChargeRefused, ChargeRolledBack, Landed, BounceUnread, TransferDone

LEMMA CleanExternal ==
    ASSUME TypeOK, CleanUnlessGrace, ExternalMessage
    PROVE  CleanUnlessGrace'
<1>1. CASE ChargeRefused \/ ChargeRolledBack
  BY <1>1 DEF ChargeRefused, ChargeRolledBack, CleanUnlessGrace
<1>2. CASE EndTerm
  <2>1. sub'.status = "CANCELLED" \/ sub' = sub
    BY <1>2, SubFields DEF EndTerm, CloseOut, Storage
  <2> QED BY <2>1 DEF CleanUnlessGrace
<1>3. CASE EndGrace
  <2>1. sub'.status = "CANCELLED" \/ sub' = sub
    BY <1>3, SubFields DEF EndGrace, CloseOut, Storage
  <2> QED BY <2>1 DEF CleanUnlessGrace
<1>4. CASE ChargeUnfunded
  <2>1. OnChargeFailed(sub.retry, sub.graceEnd, now).status \in {"GRACE", "CANCELLED"}
    <3>1. sub.retry \in Nat /\ sub.graceEnd \in Nat /\ now \in Nat
      BY SubFields
    <3> QED BY <3>1, FailureType
  <2>2. sub'.status \in {"GRACE", "CANCELLED"} \/ sub' = sub
    BY <1>4, <2>1, SubFields DEF ChargeUnfunded, CloseOut, Storage
  <2> QED BY <2>2 DEF CleanUnlessGrace
<1>5. CASE Charge
  <2>1. sub'.retry = 0 /\ sub'.graceEnd = 0
    BY <1>5, SubFields DEF Charge, Storage
  <2> QED BY <2>1 DEF CleanUnlessGrace
<1> QED BY <1>1, <1>2, <1>3, <1>4, <1>5 DEF ExternalMessage

LEMMA CleanOperation ==
    ASSUME TypeOK, CleanUnlessGrace, OwnerOrSubscriber
    PROVE  CleanUnlessGrace'
<1>1. CASE CancelTon \/ CancelJetton
  <2>1. Cancelled.status = "CANCELLED"
    BY SubFields DEF Cancelled, Storage
  <2>2. sub' = Cancelled \/ sub' = sub
    BY <1>1 DEF CancelTon, CancelJetton, CloseOut
  <2> QED BY <2>1, <2>2 DEF CleanUnlessGrace
<1>2. ASSUME NEW v \in TopUps, PlainTransfer(v) PROVE CleanUnlessGrace'
  BY <1>2, SubFields DEF PlainTransfer, Store, Storage, CleanUnlessGrace
<1>3. ASSUME NEW v \in TopUps, TopUp(v) PROVE CleanUnlessGrace'
  <2> DEFINE s == [sub EXCEPT !.seqno = @ + 1, !.deposit = Credit(v)]
  <2>1. s.status = sub.status /\ s.retry = sub.retry /\ s.graceEnd = sub.graceEnd
    BY SubFields DEF Storage
  <2>2. Reinstated(s).retry = 0 /\ Reinstated(s).graceEnd = 0
    BY SubFields DEF Reinstated, Storage
  <2>3. sub' = s \/ sub' = Reinstated(s)
    BY <1>3 DEF TopUp, Store
  <2> HIDE DEF s
  <2> QED BY <2>1, <2>2, <2>3 DEF CleanUnlessGrace
<1>4. CASE PauseSub
  BY <1>4, SubFields DEF PauseSub, Store, Storage, CleanUnlessGrace
<1>5. CASE ResumeSub
  BY <1>5, SubFields DEF ResumeSub, Store, Storage, CleanUnlessGrace
<1>6. CASE EmergencyPause
  BY <1>6, SubFields DEF EmergencyPause, Store, Storage, CleanUnlessGrace
<1>7. ASSUME NEW k \in Keys, RotateRelayer(k) PROVE CleanUnlessGrace'
  BY <1>7, SubFields DEF RotateRelayer, Store, Storage, CleanUnlessGrace
<1>8. ASSUME NEW p \in Plans, ApplyPlan(p) PROVE CleanUnlessGrace'
  BY <1>8, SubFields DEF ApplyPlan, Store, Storage, CleanUnlessGrace
<1>9. ASSUME NEW n \in PeriodCaps, SetMaxPeriods(n) PROVE CleanUnlessGrace'
  BY <1>9, SubFields DEF SetMaxPeriods, Store, Storage, CleanUnlessGrace
<1> QED BY <1>1, <1>2, <1>3, <1>4, <1>5, <1>6, <1>7, <1>8, <1>9 DEF OwnerOrSubscriber

LEMMA CleanNetwork ==
    ASSUME TypeOK, CleanUnlessGrace, Network
    PROVE  CleanUnlessGrace'
<1>1. ASSUME NEW m \in outbox, Landed(m) \/ BounceUnread(m) \/ TransferDone(m)
      PROVE  CleanUnlessGrace'
  BY <1>1, StorageUntouched DEF CleanUnlessGrace
<1>2. ASSUME NEW m \in outbox, PaymentBounced(m) PROVE CleanUnlessGrace'
  <2>1. OnChargeFailed(sub.retry, sub.graceEnd, now).status \in {"GRACE", "CANCELLED"}
    <3>1. sub.retry \in Nat /\ sub.graceEnd \in Nat /\ now \in Nat
      BY SubFields
    <3> QED BY <3>1, FailureType
  <2>2. sub'.status \in {"GRACE", "CANCELLED"}
    BY <1>2, <2>1, SubFields DEF PaymentBounced, Storage
  <2> QED BY <2>2 DEF CleanUnlessGrace
<1>3. ASSUME NEW m \in outbox, FeeBounced(m) PROVE CleanUnlessGrace'
  BY <1>3, SubFields DEF FeeBounced, Storage, CleanUnlessGrace
<1>4. CASE JettonExcesses
  BY <1>4, SubFields DEF JettonExcesses, Storage, CleanUnlessGrace
<1>5. ASSUME NEW a, NEW c, TransferNotification(a, c) PROVE CleanUnlessGrace'
  BY <1>5, SubFields DEF TransferNotification, Storage, CleanUnlessGrace
<1> QED BY <1>1, <1>2, <1>3, <1>4, <1>5 DEF Network

\* No retry and no deadline outlives its grace window, for all constants: any
\* number of keys, plans, seqnos and top-up values (on_charge_failed, OP_TOP_UP).
THEOREM NoLeftoverGrace == Spec => []CleanUnlessGrace
<1>1. Init => CleanUnlessGrace
  BY DEF Init, CleanUnlessGrace
<1>2. TypeOK /\ CleanUnlessGrace /\ [Next]_vars => CleanUnlessGrace'
  <2> SUFFICES ASSUME TypeOK, CleanUnlessGrace, [Next]_vars PROVE CleanUnlessGrace'
    OBVIOUS
  <2>1. CASE Tick \/ \E k \in Keys : SignCharge(k)
    BY <2>1, StorageUntouched DEF CleanUnlessGrace
  <2>2. CASE UNCHANGED vars
    BY <2>2 DEF vars, CleanUnlessGrace
  <2> QED BY <2>1, <2>2, CleanExternal, CleanOperation, CleanNetwork DEF Next
<1> QED BY <1>1, <1>2, TypeCorrect, PTL DEF Spec

-----------------------------------------------------------------------------
(* The billing clock.                                                      *)

\* A step that moves neither the billing time nor the period.
ClockKept == sub'.nextBilling = sub.nextBilling /\ sub'.period = sub.period

LEMMA ClockKeptExternal ==
    ASSUME TypeOK, ExternalMessage, ~Charge
    PROVE  ClockKept
<1>1. CASE ChargeRefused \/ ChargeRolledBack
  BY <1>1 DEF ChargeRefused, ChargeRolledBack, ClockKept
<1>2. CASE EndTerm
  BY <1>2, SubFields DEF EndTerm, CloseOut, Storage, ClockKept
<1>3. CASE EndGrace
  BY <1>3, SubFields DEF EndGrace, CloseOut, Storage, ClockKept
<1>4. CASE ChargeUnfunded
  BY <1>4, SubFields DEF ChargeUnfunded, CloseOut, Storage, ClockKept
<1> QED BY <1>1, <1>2, <1>3, <1>4 DEF ExternalMessage

LEMMA ClockKeptOperation ==
    ASSUME TypeOK, OwnerOrSubscriber, ~ResumeSub, ~\E p \in Plans : ApplyPlan(p)
    PROVE  ClockKept
<1>1. CASE CancelTon \/ CancelJetton
  <2>1. Cancelled.nextBilling = sub.nextBilling /\ Cancelled.period = sub.period
    BY SubFields DEF Cancelled, Storage
  <2>2. sub' = Cancelled \/ sub' = sub
    BY <1>1 DEF CancelTon, CancelJetton, CloseOut
  <2> QED BY <2>1, <2>2 DEF ClockKept
<1>2. ASSUME NEW v \in TopUps, PlainTransfer(v) PROVE ClockKept
  BY <1>2, SubFields DEF PlainTransfer, Store, Storage, ClockKept
<1>3. ASSUME NEW v \in TopUps, TopUp(v) PROVE ClockKept
  <2> DEFINE s == [sub EXCEPT !.seqno = @ + 1, !.deposit = Credit(v)]
  <2>1. s.nextBilling = sub.nextBilling /\ s.period = sub.period
    BY SubFields DEF Storage
  <2>2. /\ Reinstated(s).nextBilling = sub.nextBilling
        /\ Reinstated(s).period = sub.period
    BY SubFields DEF Reinstated, Storage
  <2>3. sub' = s \/ sub' = Reinstated(s)
    BY <1>3 DEF TopUp, Store
  <2> HIDE DEF s
  <2> QED BY <2>1, <2>2, <2>3 DEF ClockKept
<1>4. CASE PauseSub
  BY <1>4, SubFields DEF PauseSub, Store, Storage, ClockKept
<1>5. CASE EmergencyPause
  BY <1>5, SubFields DEF EmergencyPause, Store, Storage, ClockKept
<1>6. ASSUME NEW k \in Keys, RotateRelayer(k) PROVE ClockKept
  BY <1>6, SubFields DEF RotateRelayer, Store, Storage, ClockKept
<1>7. ASSUME NEW n \in PeriodCaps, SetMaxPeriods(n) PROVE ClockKept
  BY <1>7, SubFields DEF SetMaxPeriods, Store, Storage, ClockKept
<1> QED BY <1>1, <1>2, <1>3, <1>4, <1>5, <1>6, <1>7 DEF OwnerOrSubscriber

LEMMA ClockKeptNetwork ==
    ASSUME TypeOK, Network, ~\E m \in outbox : PaymentBounced(m)
    PROVE  ClockKept
<1>1. ASSUME NEW m \in outbox, Landed(m) \/ BounceUnread(m) \/ TransferDone(m)
      PROVE  ClockKept
  BY <1>1, StorageUntouched DEF ClockKept
<1>2. ASSUME NEW m \in outbox, FeeBounced(m) PROVE ClockKept
  BY <1>2, SubFields DEF FeeBounced, Storage, ClockKept
<1>3. CASE JettonExcesses
  BY <1>3, SubFields DEF JettonExcesses, Storage, ClockKept
<1>4. ASSUME NEW a, NEW c, TransferNotification(a, c) PROVE ClockKept
  BY <1>4, SubFields DEF TransferNotification, Storage, ClockKept
<1> QED BY <1>1, <1>2, <1>3, <1>4 DEF Network

\* Block time only advances.
LEMMA TimeAdvances == ASSUME TypeOK, [Next]_vars PROVE now' >= now /\ now' \in Nat
<1>1. now' \in Nat
  BY TypeStep, SubscriptionConstants DEF TypeOK
<1>2. now' = now \/ now' > now
  BY DEF Next, Tick, SignCharge, ExternalMessage, ChargeRefused, EndTerm, EndGrace,
         ChargeUnfunded, Charge, ChargeRolledBack, OwnerOrSubscriber, CancelTon,
         CancelJetton, PlainTransfer, TopUp, PauseSub, ResumeSub, EmergencyPause,
         RotateRelayer, ApplyPlan, SetMaxPeriods, Store, Network, Landed,
         PaymentBounced, FeeBounced, BounceUnread, Returns, TransferDone,
         JettonExcesses, TransferNotification, vars, chain
<1> QED BY <1>1, <1>2, SubFields

LEMMA AheadStep ==
    ASSUME TypeOK, NeverBilledAhead, [Next]_vars
    PROVE  NeverBilledAhead'
<1>1. now \in Nat /\ now' \in Nat /\ now' >= now
  BY TimeAdvances, SubFields
<1>2. /\ sub.nextBilling \in Nat /\ sub.period \in Nat /\ CHARGE_TOLERANCE_SEC \in Nat
  BY SubFields, ConstantTypes
<1>3. FirstBilling \in Nat /\ FirstBilling' = FirstBilling
  BY SubscriptionConstants DEF FirstBilling
<1>4. CASE ClockKept
  BY <1>1, <1>2, <1>3, <1>4 DEF ClockKept, NeverBilledAhead
<1>5. CASE Charge
  <2>1. sub'.nextBilling = sub.nextBilling + sub.period /\ sub'.period = sub.period
    BY <1>5, SubFields DEF Charge, Storage
  <2>2. sub.nextBilling <= now + CHARGE_TOLERANCE_SEC
    BY <1>1, <1>2, <1>5 DEF Charge, MayCharge, Chargeable, IsBillingDue
  <2> QED BY <1>1, <1>2, <2>1, <2>2 DEF NeverBilledAhead
<1>6. CASE ResumeSub
  <2>1. sub'.nextBilling = now + sub.period /\ sub'.period = sub.period
    BY <1>6, SubFields DEF ResumeSub, Store, Storage
  <2> QED BY <1>1, <1>2, <2>1 DEF NeverBilledAhead
<1>7. ASSUME NEW p \in Plans, ApplyPlan(p) PROVE NeverBilledAhead'
  <2>1. p.period \in Nat
    BY SubscriptionConstants
  <2>2. sub'.nextBilling = now + p.period /\ sub'.period = p.period
    BY <1>7, SubFields DEF ApplyPlan, Store, Storage
  <2> QED BY <1>1, <1>2, <2>1, <2>2 DEF NeverBilledAhead
<1>8. ASSUME NEW m \in outbox, PaymentBounced(m) PROVE NeverBilledAhead'
  <2>1. sub'.nextBilling = sub.nextBilling - sub.period /\ sub'.period = sub.period
    BY <1>8, SubFields DEF PaymentBounced, Storage
  <2> QED BY <1>1, <1>2, <1>3, <2>1 DEF NeverBilledAhead
<1>9. CASE Tick \/ \E k \in Keys : SignCharge(k)
  BY <1>4, <1>9, StorageUntouched DEF ClockKept
<1>10. CASE UNCHANGED vars
  BY <1>4, <1>10 DEF vars, ClockKept
<1> QED BY <1>4, <1>5, <1>6, <1>7, <1>8, <1>9, <1>10, ClockKeptExternal, ClockKeptOperation,
           ClockKeptNetwork DEF Next, ExternalMessage

\* The subscriber is never billed more than a period and the tolerance ahead of
\* time, for any interleaving of charges by any number of keys, pauses, plan
\* changes and bounces (is_billing_due, advance_billing).
THEOREM NeverAhead == Spec => []NeverBilledAhead
<1>1. Init => NeverBilledAhead
  BY SubscriptionConstants DEF Init, NeverBilledAhead, FirstBilling
<1>2. TypeOK /\ NeverBilledAhead /\ [Next]_vars => NeverBilledAhead'
  BY AheadStep
<1> QED BY <1>1, <1>2, TypeCorrect, PTL DEF Spec

-----------------------------------------------------------------------------
(* The grace deadline.                                                     *)

DeadlineKept ==
    sub.status = "GRACE" /\ sub'.status = "GRACE" /\ sub.graceEnd > 0
        => sub'.graceEnd = sub.graceEnd

LEMMA FailureKeepsDeadline ==
    ASSUME NEW retry \in Nat, NEW graceEnd \in Nat \ {0}, NEW t \in Nat,
           OnChargeFailed(retry, graceEnd, t).status = "GRACE"
    PROVE  OnChargeFailed(retry, graceEnd, t).graceEnd = graceEnd
  BY ConstantTypes DEF OnChargeFailed

LEMMA DeadlineExternal ==
    ASSUME TypeOK, ExternalMessage
    PROVE  DeadlineKept
<1>1. CASE ChargeRefused \/ ChargeRolledBack
  BY <1>1 DEF ChargeRefused, ChargeRolledBack, DeadlineKept
<1>2. CASE EndTerm
  BY <1>2, SubFields DEF EndTerm, CloseOut, Storage, DeadlineKept
<1>3. CASE EndGrace
  BY <1>3, SubFields DEF EndGrace, CloseOut, Storage, DeadlineKept
<1>4. CASE ChargeUnfunded
  <2> DEFINE f == OnChargeFailed(sub.retry, sub.graceEnd, now)
  <2>1. sub.retry \in Nat /\ sub.graceEnd \in Nat /\ now \in Nat
    BY SubFields
  <2>2. f.status = "GRACE" /\ sub.graceEnd > 0 => f.graceEnd = sub.graceEnd
    BY <2>1, FailureKeepsDeadline
  <2>3. sub' = sub \/ (sub'.status = f.status /\ sub'.graceEnd = f.graceEnd)
    BY <1>4, SubFields DEF ChargeUnfunded, CloseOut, Storage
  <2> HIDE DEF f
  <2> QED BY <2>2, <2>3 DEF DeadlineKept
<1>5. CASE Charge
  BY <1>5, SubFields DEF Charge, Storage, DeadlineKept
<1> QED BY <1>1, <1>2, <1>3, <1>4, <1>5 DEF ExternalMessage

LEMMA DeadlineOperation ==
    ASSUME TypeOK, OwnerOrSubscriber
    PROVE  DeadlineKept
<1>1. CASE CancelTon \/ CancelJetton
  <2>1. Cancelled.status = "CANCELLED"
    BY SubFields DEF Cancelled, Storage
  <2>2. sub' = Cancelled \/ sub' = sub
    BY <1>1 DEF CancelTon, CancelJetton, CloseOut
  <2> QED BY <2>1, <2>2 DEF DeadlineKept
<1>2. ASSUME NEW v \in TopUps, PlainTransfer(v) PROVE DeadlineKept
  BY <1>2, SubFields DEF PlainTransfer, Store, Storage, DeadlineKept
<1>3. ASSUME NEW v \in TopUps, TopUp(v) PROVE DeadlineKept
  <2> DEFINE s == [sub EXCEPT !.seqno = @ + 1, !.deposit = Credit(v)]
  <2>1. s.graceEnd = sub.graceEnd
    BY SubFields DEF Storage
  <2>2. Reinstated(s).status = "ACTIVE"
    BY SubFields DEF Reinstated, Storage
  <2>3. sub' = s \/ sub' = Reinstated(s)
    BY <1>3 DEF TopUp, Store
  <2> HIDE DEF s
  <2> QED BY <2>1, <2>2, <2>3 DEF DeadlineKept
<1>4. CASE PauseSub
  BY <1>4, SubFields DEF PauseSub, Store, Storage, DeadlineKept
<1>5. CASE ResumeSub
  BY <1>5, SubFields DEF ResumeSub, Store, Storage, DeadlineKept
<1>6. CASE EmergencyPause
  BY <1>6, SubFields DEF EmergencyPause, Store, Storage, DeadlineKept
<1>7. ASSUME NEW k \in Keys, RotateRelayer(k) PROVE DeadlineKept
  BY <1>7, SubFields DEF RotateRelayer, Store, Storage, DeadlineKept
<1>8. ASSUME NEW p \in Plans, ApplyPlan(p) PROVE DeadlineKept
  BY <1>8, SubFields DEF ApplyPlan, Store, Storage, DeadlineKept
<1>9. ASSUME NEW n \in PeriodCaps, SetMaxPeriods(n) PROVE DeadlineKept
  BY <1>9, SubFields DEF SetMaxPeriods, Store, Storage, DeadlineKept
<1> QED BY <1>1, <1>2, <1>3, <1>4, <1>5, <1>6, <1>7, <1>8, <1>9 DEF OwnerOrSubscriber

LEMMA DeadlineNetwork ==
    ASSUME TypeOK, Network
    PROVE  DeadlineKept
<1>1. ASSUME NEW m \in outbox, Landed(m) \/ BounceUnread(m) \/ TransferDone(m)
      PROVE  DeadlineKept
  BY <1>1, StorageUntouched DEF DeadlineKept
<1>2. ASSUME NEW m \in outbox, PaymentBounced(m) PROVE DeadlineKept
  <2> DEFINE f == OnChargeFailed(sub.retry, sub.graceEnd, now)
  <2>1. sub.retry \in Nat /\ sub.graceEnd \in Nat /\ now \in Nat
    BY SubFields
  <2>2. f.status = "GRACE" /\ sub.graceEnd > 0 => f.graceEnd = sub.graceEnd
    BY <2>1, FailureKeepsDeadline
  <2>3. sub'.status = f.status /\ sub'.graceEnd = f.graceEnd
    BY <1>2, SubFields DEF PaymentBounced, Storage
  <2> HIDE DEF f
  <2> QED BY <2>2, <2>3 DEF DeadlineKept
<1>3. ASSUME NEW m \in outbox, FeeBounced(m) PROVE DeadlineKept
  BY <1>3, SubFields DEF FeeBounced, Storage, DeadlineKept
<1>4. CASE JettonExcesses
  BY <1>4, SubFields DEF JettonExcesses, Storage, DeadlineKept
<1>5. ASSUME NEW a, NEW c, TransferNotification(a, c) PROVE DeadlineKept
  BY <1>5, SubFields DEF TransferNotification, Storage, DeadlineKept
<1> QED BY <1>1, <1>2, <1>3, <1>4, <1>5 DEF Network

\* The deadline of a grace window stands, whatever top-ups, failures, plan
\* changes and bounces happen inside it (on_charge_failed, OP_TOP_UP).
THEOREM DeadlineStands == Spec => GraceDeadlineFixed
<1>1. TypeOK /\ [Next]_vars =>
        [sub.status = "GRACE" /\ sub'.status = "GRACE" /\ sub.graceEnd > 0
            => sub'.graceEnd = sub.graceEnd]_vars
  <2> SUFFICES ASSUME TypeOK, Next PROVE DeadlineKept
    BY DEF DeadlineKept
  <2>1. CASE Tick \/ \E k \in Keys : SignCharge(k)
    BY <2>1, StorageUntouched DEF DeadlineKept
  <2> QED BY <2>1, DeadlineExternal, DeadlineOperation, DeadlineNetwork DEF Next
<1> QED BY <1>1, TypeCorrect, PTL DEF Spec, GraceDeadlineFixed

-----------------------------------------------------------------------------
(* Payments: what a step does to those under way, and to what became of    *)
(* the others.                                                             *)

Payments == {m \in outbox : IsPayment(m)}

\* The seqno moves by one, within the bound, or stays.
SeqnoMoves ==
    \/ sub'.seqno = sub.seqno
    \/ sub'.seqno = sub.seqno + 1 /\ sub.seqno < MaxSeqno

\* A step that is not about payments: it may send a refund of tokens.
Aside ==
    /\ Payments' = Payments /\ settled' = settled /\ returned' = returned
    /\ sub'.periodsCharged = sub.periodsCharged
    /\ SeqnoMoves
    /\ \A m \in Sent : m.seqno < sub'.seqno

\* A step that takes m from the messages under way.
Takes(m) == m \in Payments /\ outbox' = outbox \ {m} /\ sub'.seqno = sub.seqno

Arrives(m) ==
    /\ Takes(m) /\ settled' = settled \cup {m.seqno} /\ returned' = returned
    /\ sub'.periodsCharged = sub.periodsCharged

ComesBack(m) ==
    /\ Takes(m) /\ settled' = settled /\ returned' = returned \cup {m.seqno}
    /\ sub'.periodsCharged \in {sub.periodsCharged, TakenBack(sub.periodsCharged)}
    /\ PaymentBounced(m) \/ BounceUnread(m)

LEMMA SameMessages ==
    ASSUME outbox' = outbox
    PROVE  Payments' = Payments /\ Sent = {} /\ LivePayments' = settled' \cup SeqnosOf(outbox)
  BY DEF Payments, Sent, LivePayments

\* Handlers that only rewrite storage are aside.
LEMMA StoreAside ==
    ASSUME TypeOK, NEW s, NEW v, Store(s, v),
           s.periodsCharged = sub.periodsCharged, s.seqno \in {sub.seqno, sub.seqno + 1}
    PROVE  Aside
<1>1. sub.seqno \in Nat
  BY SubFields
<1>2. sub' = s /\ sub.seqno < MaxSeqno /\ UNCHANGED <<outbox, settled, returned>>
  BY DEF Store
<1> QED BY <1>1, <1>2, SameMessages DEF Aside, SeqnoMoves

LEMMA AsideExternal ==
    ASSUME TypeOK, ExternalMessage, ~Charge
    PROVE  Aside
<1>1. outbox' = outbox /\ settled' = settled /\ returned' = returned
  BY DEF ExternalMessage, ChargeRefused, ChargeRolledBack, EndTerm, EndGrace, ChargeUnfunded,
         history
<1>2. SeqnoMoves /\ sub'.periodsCharged = sub.periodsCharged
  <2>0. sub.seqno < MaxSeqno
    BY DEF ExternalMessage, ChargeRefused, ChargeRolledBack, EndTerm, EndGrace, ChargeUnfunded,
           MayCharge, Accepted
  <2>1. CASE ChargeRefused \/ ChargeRolledBack
    BY <2>1, SubFields DEF ChargeRefused, ChargeRolledBack, SeqnoMoves
  <2>2. CASE EndTerm
    <3> DEFINE s == [sub EXCEPT !.seqno = @ + 1, !.status = "CANCELLED", !.charging = FALSE,
                                !.graceEnd = 0, !.deposit = 0]
    <3>1. s.seqno = sub.seqno + 1 /\ s.periodsCharged = sub.periodsCharged
      BY SubFields DEF Storage
    <3>2. CloseOut(s, Left)
      BY <2>2 DEF EndTerm
    <3> HIDE DEF s
    <3> QED BY <2>0, <3>1, <3>2, CloseOutStorage, SubFields DEF SeqnoMoves
  <2>3. CASE EndGrace
    <3> DEFINE s == [sub EXCEPT !.seqno = @ + 1, !.status = "CANCELLED", !.charging = FALSE,
                                !.graceEnd = 0]
    <3>1. s.seqno = sub.seqno + 1 /\ s.periodsCharged = sub.periodsCharged
      BY SubFields DEF Storage
    <3>2. CloseOut(s, Left)
      BY <2>3 DEF EndGrace
    <3> HIDE DEF s
    <3> QED BY <2>0, <3>1, <3>2, CloseOutStorage, SubFields DEF SeqnoMoves
  <2>4. CASE ChargeUnfunded
    <3> DEFINE f == OnChargeFailed(sub.retry, sub.graceEnd, now)
               s == [sub EXCEPT !.seqno = @ + 1, !.status = f.status, !.charging = FALSE,
                                !.retry = f.retry, !.graceEnd = f.graceEnd]
    <3>1. s.seqno = sub.seqno + 1 /\ s.periodsCharged = sub.periodsCharged
      BY SubFields DEF Storage
    <3>2. CloseOut(s, Left) \/ sub' = s
      BY <2>4 DEF ChargeUnfunded
    <3> HIDE DEF s
    <3> QED BY <2>0, <3>1, <3>2, CloseOutStorage, SubFields DEF SeqnoMoves
  <2> QED BY <2>1, <2>2, <2>3, <2>4 DEF ExternalMessage
<1> QED BY <1>1, <1>2, SubFields, SameMessages DEF Aside, SeqnoMoves

LEMMA AsideOperation ==
    ASSUME TypeOK, OwnerOrSubscriber
    PROVE  Aside
<1>1. CASE CancelTon \/ CancelJetton
  <2>1. /\ Cancelled.seqno = sub.seqno + 1 /\ Cancelled.periodsCharged = sub.periodsCharged
        /\ sub.seqno \in Nat
    BY SubFields DEF Cancelled, Storage
  <2>2. UNCHANGED history /\ sub.seqno < MaxSeqno
    BY <1>1 DEF CancelTon, CancelJetton, CancelGuard
  <2>3. \/ outbox' = outbox /\ (sub' = Cancelled \/ sub' = sub)
        \/ /\ outbox' = outbox \cup FeeMessage("tokenRefund", sub.deposit)
           /\ sub' = Cancelled
    BY <1>1 DEF CancelTon, CancelJetton, CloseOut
  <2>4. \A m \in FeeMessage("tokenRefund", sub.deposit) : ~IsPayment(m) /\ m.seqno = sub.seqno
    BY DEF FeeMessage, Outgoing, IsPayment
  <2>5. Payments' = Payments /\ \A m \in Sent : m.seqno < sub'.seqno
    BY <2>1, <2>3, <2>4 DEF Payments, Sent
  <2> QED BY <2>1, <2>2, <2>3, <2>5 DEF Aside, SeqnoMoves, history
<1>2. ASSUME NEW v \in TopUps, PlainTransfer(v) PROVE Aside
  BY <1>2, SubFields, StoreAside DEF PlainTransfer, Storage
<1>3. ASSUME NEW v \in TopUps, TopUp(v) PROVE Aside
  <2> DEFINE s == [sub EXCEPT !.seqno = @ + 1, !.deposit = Credit(v)]
             t == IF sub.status = "GRACE" /\ HasFundsForCharge(s.deposit, s.amount)
                  THEN Reinstated(s) ELSE s
  <2>1. s.seqno = sub.seqno + 1 /\ s.periodsCharged = sub.periodsCharged
    BY SubFields DEF Storage
  <2>2. Reinstated(s).seqno = sub.seqno + 1 /\ Reinstated(s).periodsCharged = sub.periodsCharged
    BY SubFields DEF Reinstated, Storage
  <2>3. Store(t, v)
    BY <1>3 DEF TopUp
  <2>4. t = s \/ t = Reinstated(s)
    OBVIOUS
  <2> HIDE DEF s, t
  <2> QED BY <2>1, <2>2, <2>3, <2>4, StoreAside
<1>4. CASE PauseSub
  BY <1>4, SubFields, StoreAside DEF PauseSub, Storage
<1>5. CASE ResumeSub
  BY <1>5, SubFields, StoreAside DEF ResumeSub, Storage
<1>6. CASE EmergencyPause
  BY <1>6, SubFields, StoreAside DEF EmergencyPause, Storage
<1>7. ASSUME NEW k \in Keys, RotateRelayer(k) PROVE Aside
  BY <1>7, SubFields, StoreAside DEF RotateRelayer, Storage
<1>8. ASSUME NEW p \in Plans, ApplyPlan(p) PROVE Aside
  BY <1>8, SubFields, StoreAside DEF ApplyPlan, Storage
<1>9. ASSUME NEW n \in PeriodCaps, SetMaxPeriods(n) PROVE Aside
  BY <1>9, SubFields, StoreAside DEF SetMaxPeriods, Storage
<1> QED BY <1>1, <1>2, <1>3, <1>4, <1>5, <1>6, <1>7, <1>8, <1>9 DEF OwnerOrSubscriber

LEMMA NetworkEffect ==
    ASSUME TypeOK, Network
    PROVE  Aside \/ \E m \in Payments : Arrives(m) \/ ComesBack(m)
<1>1. ASSUME NEW m \in outbox, Landed(m) \/ TransferDone(m)
      PROVE  Aside \/ Arrives(m)
  <2>1. /\ outbox' = outbox \ {m} /\ sub' = sub /\ settled' = Note(settled, m)
        /\ returned' = returned /\ sub.seqno \in Nat
    BY <1>1, SubFields DEF Landed, TransferDone
  <2>2. CASE IsPayment(m)
    BY <2>1, <2>2 DEF Arrives, Takes, Note, Payments
  <2>3. CASE ~IsPayment(m)
    BY <2>1, <2>3 DEF Aside, SeqnoMoves, Note, Payments, Sent
  <2> QED BY <2>2, <2>3
<1>2. ASSUME NEW m \in outbox, PaymentBounced(m) \/ FeeBounced(m) \/ BounceUnread(m)
      PROVE  Aside \/ ComesBack(m)
  <2>1. /\ outbox' = outbox \ {m} /\ returned' = Note(returned, m)
        /\ settled' = settled /\ sub.seqno \in Nat
    BY <1>2, SubFields DEF PaymentBounced, FeeBounced, BounceUnread, Returns
  <2>2. sub'.seqno = sub.seqno
    BY <1>2, SubFields DEF PaymentBounced, FeeBounced, BounceUnread, Storage
  <2>3. CASE IsPayment(m)
    <3>1. sub'.periodsCharged \in {sub.periodsCharged, TakenBack(sub.periodsCharged)}
      BY <1>2, SubFields DEF PaymentBounced, FeeBounced, BounceUnread, Storage
    <3>2. PaymentBounced(m) \/ BounceUnread(m)
      BY <1>2, <2>3 DEF FeeBounced, IsPayment
    <3> QED BY <2>1, <2>2, <2>3, <3>1, <3>2 DEF ComesBack, Takes, Note, Payments
  <2>4. CASE ~IsPayment(m)
    <3>1. sub'.periodsCharged = sub.periodsCharged
      BY <1>2, <2>4, SubFields DEF PaymentBounced, FeeBounced, BounceUnread, Storage, IsPayment
    <3> QED BY <2>1, <2>2, <2>4, <3>1 DEF Aside, SeqnoMoves, Note, Payments, Sent
  <2> QED BY <2>3, <2>4
<1>3. CASE JettonExcesses
  <2>1. UNCHANGED <<outbox, settled, returned>>
    BY <1>3 DEF JettonExcesses, history
  <2>2. SeqnoMoves /\ sub'.periodsCharged = sub.periodsCharged
    BY <1>3, SubFields DEF JettonExcesses, Storage, SeqnoMoves
  <2> QED BY <2>1, <2>2, SameMessages, SubFields DEF Aside, SeqnoMoves
<1>4. ASSUME NEW a, NEW c, TransferNotification(a, c) PROVE Aside
  <2>1. UNCHANGED <<outbox, settled, returned>>
    BY <1>4 DEF TransferNotification
  <2>2. SeqnoMoves /\ sub'.periodsCharged = sub.periodsCharged
    BY <1>4, SubFields DEF TransferNotification, Storage, SeqnoMoves
  <2> QED BY <2>1, <2>2, SameMessages, SubFields DEF Aside, SeqnoMoves
<1>5. ASSUME NEW m \in outbox, Arrives(m) \/ ComesBack(m)
      PROVE  \E o \in Payments : Arrives(o) \/ ComesBack(o)
  BY <1>5 DEF Arrives, ComesBack, Takes
<1> QED BY <1>1, <1>2, <1>3, <1>4, <1>5 DEF Network

\* Whatever happens, payments are left alone, sent by a charge, or one of them
\* arrives or comes back.
LEMMA StepEffect ==
    ASSUME TypeOK, [Next]_vars
    PROVE  Aside \/ Charge \/ \E m \in Payments : Arrives(m) \/ ComesBack(m)
<1>1. CASE Tick \/ \E k \in Keys : SignCharge(k)
  <2>1. UNCHANGED <<sub, outbox, settled, returned>>
    BY <1>1 DEF Tick, SignCharge, history
  <2> QED BY <2>1, SameMessages, SubFields DEF Aside, SeqnoMoves
<1>2. CASE UNCHANGED vars
  <2>1. UNCHANGED <<sub, outbox, settled, returned>>
    BY <1>2 DEF vars, history
  <2> QED BY <2>1, SameMessages, SubFields DEF Aside, SeqnoMoves
<1> QED BY <1>1, <1>2, AsideExternal, AsideOperation, NetworkEffect DEF Next

\* Seqnos name payments of the one kind this subscription makes: no two share one, and one that is under way has neither
\* arrived nor come back.
PaymentsInv ==
    /\ \A m \in outbox : m.seqno < sub.seqno
    /\ \A n \in settled \cup returned : n < sub.seqno
    /\ \A m \in Payments : m.seqno \notin settled \cup returned
    /\ \A m, o \in Payments : m.seqno = o.seqno => m = o
    /\ \A m \in Payments : m.kind = PaymentKind
    /\ sub.seqno <= MaxSeqno

\* Every payment that may still count is counted.
CountInv ==
    /\ IsFiniteSet(LivePayments)
    /\ Cardinality(LivePayments) <= sub.periodsCharged

LEMMA OutboxTypes ==
    ASSUME TypeOK
    PROVE  /\ sub.seqno \in Nat /\ settled \subseteq Nat /\ returned \subseteq Nat
           /\ \A m \in outbox : m \in Message /\ m.seqno \in Nat /\ m.amount \in Nat
  BY SubFields DEF TypeOK, Message

\* What a charge sends: one payment under the seqno it consumes, and fees.
LEMMA ChargeSends ==
    ASSUME TypeOK, Charge
    PROVE  LET split == SplitFee(sub.amount, FeeBps)
               pay   == Outgoing(PaymentKind, split.net)
           IN  /\ outbox' = outbox \cup ChargeMessages(split)
               /\ \A m \in ChargeMessages(split) : m.seqno = sub.seqno
               /\ pay \in ChargeMessages(split) /\ IsPayment(pay) /\ pay.seqno = sub.seqno
               /\ \A m \in ChargeMessages(split) : IsPayment(m) => m = pay
               /\ UNCHANGED <<settled, returned>>
               /\ sub'.seqno = sub.seqno + 1
               /\ sub'.periodsCharged = sub.periodsCharged + 1
               /\ sub'.deposit = sub.deposit - sub.amount
<1> DEFINE split == SplitFee(sub.amount, FeeBps)
           pay   == Outgoing(PaymentKind, split.net)
<1>1. outbox' = outbox \cup ChargeMessages(split) /\ UNCHANGED <<settled, returned>>
  BY DEF Charge, history
<1>2. /\ sub'.seqno = sub.seqno + 1 /\ sub'.periodsCharged = sub.periodsCharged + 1
      /\ sub'.deposit = sub.deposit - sub.amount
  BY SubFields DEF Charge, PeriodCounted, Debit, Storage
<1> HIDE DEF split
<1>3. PaymentKind \in {"payment", "transfer"}
  BY DEF PaymentKind
<1>4. pay.kind = PaymentKind /\ pay.seqno = sub.seqno
  BY DEF Outgoing
<1>5. \A m \in ChargeMessages(split) : m.seqno = sub.seqno
  BY DEF ChargeMessages, FeeMessage, Outgoing
<1>6. \A m \in ChargeMessages(split) : m # pay => m.kind \in {"fee", "protocolFee"}
  BY DEF ChargeMessages, FeeMessage, Outgoing
<1>7. pay \in ChargeMessages(split)
  BY DEF ChargeMessages
<1> QED BY <1>1, <1>2, <1>3, <1>4, <1>5, <1>6, <1>7 DEF split, IsPayment

\* Payments and live payments after each kind of step.
LEMMA ChargeMoves ==
    ASSUME TypeOK, PaymentsInv, Charge
    PROVE  /\ \E pay : /\ Payments' = Payments \cup {pay} /\ pay.seqno = sub.seqno
                       /\ IsPayment(pay) /\ pay.kind = PaymentKind
           /\ LivePayments' = LivePayments \cup {sub.seqno}
           /\ sub.seqno \notin LivePayments
<1> DEFINE split == SplitFee(sub.amount, FeeBps)
           pay   == Outgoing(PaymentKind, split.net)
           msgs  == ChargeMessages(split)
<1>0. pay.kind = PaymentKind
  BY DEF Outgoing
<1>1. /\ outbox' = outbox \cup msgs
      /\ pay \in msgs /\ IsPayment(pay) /\ pay.seqno = sub.seqno
      /\ \A m \in msgs : IsPayment(m) => m = pay
      /\ settled' = settled
  BY ChargeSends
<1> HIDE DEF pay, msgs
<1>2. Payments' = Payments \cup {pay}
  BY <1>1 DEF Payments
<1>3. LivePayments' = LivePayments \cup {sub.seqno}
  BY <1>1 DEF LivePayments, SeqnosOf
<1>4. sub.seqno \notin LivePayments
  BY OutboxTypes DEF PaymentsInv, LivePayments, SeqnosOf
<1> QED BY <1>0, <1>1, <1>2, <1>3, <1>4

LEMMA TakenMoves ==
    ASSUME TypeOK, PaymentsInv, NEW m \in Payments, Takes(m)
    PROVE  /\ Payments' = Payments \ {m}
           /\ SeqnosOf(outbox') = SeqnosOf(outbox) \ {m.seqno}
           /\ m.seqno \in SeqnosOf(outbox) /\ m.seqno \notin settled
<1>1. m \in outbox /\ IsPayment(m) /\ outbox' = outbox \ {m}
  BY DEF Takes, Payments
<1>2. Payments' = Payments \ {m}
  BY <1>1 DEF Payments
<1>3. \A o \in outbox : IsPayment(o) /\ o.seqno = m.seqno => o = m
  BY <1>1 DEF PaymentsInv, Payments
<1>4. m.seqno \in SeqnosOf(outbox) /\ m.seqno \notin settled
  BY <1>1 DEF SeqnosOf, PaymentsInv
<1>5. SeqnosOf(outbox') = SeqnosOf(outbox) \ {m.seqno}
  BY <1>1, <1>3 DEF SeqnosOf
<1> QED BY <1>2, <1>4, <1>5

LEMMA AsideMoves ==
    ASSUME Aside
    PROVE  SeqnosOf(outbox') = SeqnosOf(outbox) /\ LivePayments' = LivePayments
<1>1. settled' = settled /\ {m \in outbox' : IsPayment(m)} = {m \in outbox : IsPayment(m)}
  BY DEF Aside, Payments
<1>2. SeqnosOf(outbox') = SeqnosOf(outbox)
  BY <1>1, Zenon DEF SeqnosOf
<1> QED BY <1>1, <1>2 DEF LivePayments

LEMMA PaymentsStep ==
    ASSUME TypeOK, PaymentsInv, [Next]_vars
    PROVE  PaymentsInv'
<1>0. TypeOK'
  BY TypeStep
<1>1. sub.seqno \in Nat /\ sub'.seqno \in Nat
  <2>1. sub' \in Storage
    BY <1>0 DEF TypeOK
  <2> QED BY <2>1, FieldTypes, SubFields
<1>2. CASE Aside
  <2>1. /\ Payments' = Payments /\ settled' = settled /\ returned' = returned
        /\ sub.seqno <= sub'.seqno /\ sub'.seqno <= MaxSeqno
    BY <1>1, <1>2, SubscriptionConstants DEF Aside, SeqnoMoves, PaymentsInv
  <2>2. \A m \in outbox' : m.seqno < sub'.seqno
    BY <1>1, <1>2, <2>1, OutboxTypes DEF Aside, Sent, PaymentsInv
  <2>3. \A n \in settled' \cup returned' : n < sub'.seqno
    BY <1>1, <2>1, OutboxTypes DEF PaymentsInv
  <2> QED BY <2>1, <2>2, <2>3 DEF PaymentsInv
<1>3. CASE Charge
  <2>1. /\ sub'.seqno = sub.seqno + 1 /\ UNCHANGED <<settled, returned>>
        /\ \A m \in outbox' \ outbox : m.seqno = sub.seqno
    BY <1>3, ChargeSends
  <2>2. PICK pay : /\ Payments' = Payments \cup {pay} /\ pay.seqno = sub.seqno
                   /\ IsPayment(pay) /\ pay.kind = PaymentKind
    BY <1>3, ChargeMoves
  <2>3. \A m \in outbox' : m.seqno < sub'.seqno
    BY <1>1, <2>1, OutboxTypes DEF PaymentsInv
  <2>4. \A n \in settled' \cup returned' : n < sub.seqno /\ n < sub'.seqno
    BY <1>1, <2>1, OutboxTypes DEF PaymentsInv
  <2>5. \A m \in Payments : m.seqno < sub.seqno /\ m.seqno \in Nat
    BY OutboxTypes DEF PaymentsInv, Payments
  <2>6. \A m \in Payments' : m.seqno \notin settled' \cup returned'
    BY <1>1, <2>1, <2>2, <2>4 DEF PaymentsInv
  <2>7. \A m, o \in Payments' : m.seqno = o.seqno => m = o
    BY <1>1, <2>2, <2>5 DEF PaymentsInv
  <2>8. \A m \in Payments' : m.kind = PaymentKind
    BY <2>2 DEF PaymentsInv
  <2>9. sub'.seqno <= MaxSeqno
    BY <1>1, <1>3, <2>1, SubscriptionConstants DEF Charge, MayCharge, Accepted
  <2> QED BY <2>3, <2>4, <2>6, <2>7, <2>8, <2>9 DEF PaymentsInv
<1>4. ASSUME NEW m \in Payments, Arrives(m) \/ ComesBack(m) PROVE PaymentsInv'
  <2>1. /\ Takes(m) /\ settled' \cup returned' = settled \cup returned \cup {m.seqno}
        /\ sub'.seqno = sub.seqno /\ outbox' = outbox \ {m}
    BY <1>4 DEF Arrives, ComesBack, Takes
  <2>2. Payments' = Payments \ {m} /\ m \in outbox
    BY <2>1, TakenMoves DEF Payments
  <2>3. \A n \in settled' \cup returned' : n < sub'.seqno
    BY <2>1, <2>2 DEF PaymentsInv
  <2>4. \A o \in outbox' : o.seqno < sub'.seqno
    BY <2>1 DEF PaymentsInv
  <2>5. \A o \in Payments' : o.seqno \notin settled' \cup returned'
    BY <2>1, <2>2 DEF PaymentsInv
  <2> QED BY <2>1, <2>2, <2>3, <2>4, <2>5 DEF PaymentsInv
<1> QED BY <1>2, <1>3, <1>4, StepEffect

LEMMA CountStep ==
    ASSUME TypeOK, PaymentsInv, CountInv, [Next]_vars
    PROVE  CountInv'
<1>0. Cardinality(LivePayments) \in Nat /\ sub.periodsCharged \in Nat
  BY FS_CardinalityType, SubFields DEF CountInv
<1>1. CASE Aside
  BY <1>1, AsideMoves DEF CountInv, Aside
<1>2. CASE Charge
  <2>1. /\ LivePayments' = LivePayments \cup {sub.seqno} /\ sub.seqno \notin LivePayments
        /\ sub'.periodsCharged = sub.periodsCharged + 1
    BY <1>2, ChargeMoves, ChargeSends
  <2>2. /\ IsFiniteSet(LivePayments')
        /\ Cardinality(LivePayments') = Cardinality(LivePayments) + 1
    BY <2>1, FS_AddElement DEF CountInv
  <2> QED BY <1>0, <2>1, <2>2 DEF CountInv
<1>3. ASSUME NEW m \in Payments, Arrives(m) PROVE CountInv'
  <2>1. LivePayments' = LivePayments
    BY <1>3, TakenMoves DEF Arrives, LivePayments
  <2> QED BY <1>3, <2>1 DEF CountInv, Arrives
<1>4. ASSUME NEW m \in Payments, ComesBack(m) PROVE CountInv'
  <2>1. /\ m.seqno \in LivePayments
        /\ LivePayments' = LivePayments \ {m.seqno}
    BY <1>4, TakenMoves DEF ComesBack, LivePayments
  <2>2. /\ IsFiniteSet(LivePayments')
        /\ Cardinality(LivePayments') = Cardinality(LivePayments) - 1
    BY <2>1, FS_RemoveElement DEF CountInv
  <2>3. Cardinality(LivePayments') \in Nat
    BY <2>2, FS_CardinalityType
  <2>4. sub'.periodsCharged \in {sub.periodsCharged, TakenBack(sub.periodsCharged)}
    BY <1>4 DEF ComesBack
  <2>5. Cardinality(LivePayments') <= sub'.periodsCharged
    BY <1>0, <2>2, <2>3, <2>4 DEF CountInv, TakenBack
  <2> QED BY <2>2, <2>5 DEF CountInv
<1> QED BY <1>1, <1>2, <1>3, <1>4, StepEffect

LEMMA PaymentsAlways == Spec => [](TypeOK /\ PaymentsInv /\ CountInv)
<1>1. Init => TypeOK /\ PaymentsInv /\ CountInv
  <2> SUFFICES ASSUME Init PROVE PaymentsInv /\ CountInv
    BY InitType
  <2>1. Payments = {} /\ LivePayments = {} /\ sub.periodsCharged = 0
    BY DEF Init, Payments, LivePayments, SeqnosOf
  <2>2. PaymentsInv
    BY <2>1, SubscriptionConstants DEF Init, PaymentsInv
  <2> QED BY <2>1, <2>2, FS_EmptySet DEF CountInv
<1>2. TypeOK /\ PaymentsInv /\ CountInv /\ [Next]_vars => (TypeOK /\ PaymentsInv /\ CountInv)'
  BY TypeStep, PaymentsStep, CountStep
<1> QED BY <1>1, <1>2, PTL DEF Spec

\* Only a charge sends a payment.
LEMMA OnlyChargePays ==
    ASSUME TypeOK, PaymentsInv, [Next]_vars, SeqnosOf(Sent) # {}
    PROVE  Charge
<1>1. CASE Aside
  <2>1. \A m \in Sent : ~IsPayment(m)
    BY <1>1 DEF Aside, Sent, Payments
  <2> QED BY <2>1 DEF SeqnosOf
<1>2. ASSUME NEW m \in Payments, Arrives(m) \/ ComesBack(m) PROVE FALSE
  <2>1. Sent = {}
    BY <1>2 DEF Arrives, ComesBack, Takes, Sent
  <2> QED BY <2>1 DEF SeqnosOf
<1> QED BY <1>1, <1>2, StepEffect

\* A fixed term is not overrun, for any plans, caps, fees, either token and
\* whether bounces can be read or not (TermReached, on_charge_bounced).
THEOREM TermHolds == Spec => TermNeverOverrun
<1> DEFINE Within == SeqnosOf(Sent) # {} /\ sub.maxPeriods > 0
                       => Cardinality(LivePayments') <= sub.maxPeriods
<1>1. ASSUME TypeOK, PaymentsInv, CountInv, [Next]_vars
      PROVE  [Within]_vars
  <2> SUFFICES ASSUME SeqnosOf(Sent) # {}, sub.maxPeriods > 0
               PROVE  Cardinality(LivePayments') <= sub.maxPeriods
    OBVIOUS
  <2>1. Charge
    BY <1>1, OnlyChargePays
  <2>2. sub.periodsCharged < sub.maxPeriods
    BY <1>1, <2>1, SubFields DEF Charge, MayCharge, TermReached
  <2>3. Cardinality(LivePayments') = Cardinality(LivePayments) + 1
    BY <1>1, <2>1, ChargeMoves, FS_AddElement DEF CountInv
  <2>4. Cardinality(LivePayments) \in Nat /\ Cardinality(LivePayments) <= sub.periodsCharged
    BY <1>1, FS_CardinalityType DEF CountInv
  <2> QED BY <1>1, <2>2, <2>3, <2>4, SubFields
<1>2. TypeOK /\ PaymentsInv /\ CountInv /\ [Next]_vars => [Within]_vars
  BY <1>1
<1> QED BY <1>2, PaymentsAlways, PTL DEF Spec, TermNeverOverrun

-----------------------------------------------------------------------------
(* What a charge debits.                                                   *)

\* What the messages of one kind among those sent carry.
Part(msgs, kind) ==
    LET ms == {m \in msgs : m.kind = kind}
    IN  IF ms = {} THEN 0 ELSE (CHOOSE m \in ms : TRUE).amount

\* They carry cut, in one message or, if it is nothing, in none.
Carries(msgs, kind, cut) ==
    /\ \A m \in msgs : m.kind = kind => m.amount = cut
    /\ (\A m \in msgs : m.kind # kind) => cut = 0

LEMMA PartOf ==
    ASSUME NEW msgs, NEW kind, NEW cut,
           Carries(msgs, kind, cut)
    PROVE  Part(msgs, kind) = cut
<1> DEFINE ms == {m \in msgs : m.kind = kind}
<1>1. CASE ms = {}
  BY <1>1 DEF Part, Carries
<1>2. CASE ms # {}
  <2>1. (CHOOSE m \in ms : TRUE) \in ms
    BY <1>2
  <2> DEFINE one == CHOOSE m \in ms : TRUE
  <2>2. one.amount = cut
    <3> HIDE DEF one
    <3> QED BY <2>1 DEF one, Carries
  <2>3. Part(msgs, kind) = one.amount
    BY <1>2 DEF Part
  <2> QED BY <2>2, <2>3
<1> QED BY <1>1, <1>2

\* What a charge sends was not under way before.
LEMMA ChargeSent ==
    ASSUME TypeOK, PaymentsInv, Charge
    PROVE  Sent = ChargeMessages(SplitFee(sub.amount, FeeBps))
<1> DEFINE msgs == ChargeMessages(SplitFee(sub.amount, FeeBps))
<1>1. outbox' = outbox \cup msgs /\ \A m \in msgs : m.seqno = sub.seqno
  BY ChargeSends
<1> HIDE DEF msgs
<1>2. \A m \in msgs : m \notin outbox
  BY <1>1, OutboxTypes DEF PaymentsInv
<1> QED BY <1>1, <1>2 DEF Sent, msgs

LEMMA ChargeParts ==
    ASSUME TypeOK
    PROVE  LET split == SplitFee(sub.amount, FeeBps)
               msgs  == ChargeMessages(split)
           IN  /\ Part(msgs, PaymentKind) = split.net
               /\ Part(msgs, "fee") = split.fee
               /\ Part(msgs, "protocolFee") = split.protocolFee
<1> DEFINE split == SplitFee(sub.amount, FeeBps)
           msgs  == ChargeMessages(split)
<1> HIDE DEF split
<1>1. /\ PaymentKind \notin {"fee", "protocolFee"}
      /\ \A kind, cut : Outgoing(kind, cut).kind = kind /\ Outgoing(kind, cut).amount = cut
  BY DEF PaymentKind, Outgoing
<1>2. Part(msgs, PaymentKind) = split.net
  <2>1. \A m \in msgs : m.kind = PaymentKind => m.amount = split.net
    BY <1>1 DEF ChargeMessages, FeeMessage
  <2>2. Outgoing(PaymentKind, split.net) \in msgs
    BY DEF ChargeMessages
  <2>3. Carries(msgs, PaymentKind, split.net)
    BY <1>1, <2>1, <2>2 DEF Carries
  <2> HIDE DEF msgs
  <2> QED BY <2>3, PartOf
<1>3. Part(msgs, "fee") = split.fee
  <2>1. \A m \in msgs : m.kind = "fee" => m.amount = split.fee
    BY <1>1 DEF ChargeMessages, FeeMessage
  <2>2. split.fee = 0 \/ Outgoing("fee", split.fee) \in msgs
    BY DEF ChargeMessages, FeeMessage
  <2>3. Carries(msgs, "fee", split.fee)
    BY <1>1, <2>1, <2>2 DEF Carries
  <2> HIDE DEF msgs
  <2> QED BY <2>3, PartOf
<1>4. Part(msgs, "protocolFee") = split.protocolFee
  <2>1. \A m \in msgs : m.kind = "protocolFee" => m.amount = split.protocolFee
    BY <1>1 DEF ChargeMessages, FeeMessage
  <2>2. split.protocolFee = 0 \/ Outgoing("protocolFee", split.protocolFee) \in msgs
    BY DEF ChargeMessages, FeeMessage
  <2>3. Carries(msgs, "protocolFee", split.protocolFee)
    BY <1>1, <2>1, <2>2 DEF Carries
  <2> HIDE DEF msgs
  <2> QED BY <2>3, PartOf
<1> QED BY <1>2, <1>3, <1>4 DEF split

\* A charge debits what it sends, for any price and fees, in TON and in tokens
\* (split_fee, execute_charge).
THEOREM DebitIsSent == Spec => DebitMatchesMessages
<1> DEFINE Matches ==
             SeqnosOf(Sent) # {} =>
               LET part(kind) == LET ms == {m \in Sent : m.kind = kind}
                                 IN  IF ms = {} THEN 0 ELSE (CHOOSE m \in ms : TRUE).amount
               IN  sub.deposit - sub'.deposit =
                     part(PaymentKind) + part("fee") + part("protocolFee")
<1>1. ASSUME TypeOK, PaymentsInv, [Next]_vars, SeqnosOf(Sent) # {}
      PROVE  sub.deposit - sub'.deposit =
               Part(Sent, PaymentKind) + Part(Sent, "fee") + Part(Sent, "protocolFee")
  <2> DEFINE split == SplitFee(sub.amount, FeeBps)
  <2>1. Charge
    BY <1>1, OnlyChargePays
  <2>2. Sent = ChargeMessages(split) /\ sub'.deposit = sub.deposit - sub.amount
    BY <1>1, <2>1, ChargeSent, ChargeSends
  <2>3. /\ Part(Sent, PaymentKind) = split.net
        /\ Part(Sent, "fee") = split.fee
        /\ Part(Sent, "protocolFee") = split.protocolFee
    BY <1>1, <2>2, ChargeParts
  <2>4. /\ split.net \in Nat /\ split.fee \in Nat /\ split.protocolFee \in Nat
        /\ sub.amount = split.net + split.fee + split.protocolFee
        /\ sub.deposit \in Nat /\ sub.amount \in Nat
    BY <1>1, SubFields, SplitType
  <2> HIDE DEF split
  <2> QED BY <2>2, <2>3, <2>4
<1>2. TypeOK /\ PaymentsInv /\ [Next]_vars => [Matches]_vars
  BY <1>1 DEF Part
<1> QED BY <1>2, PaymentsAlways, PTL DEF Spec, DebitMatchesMessages

-----------------------------------------------------------------------------
(* The balance.                                                            *)

\* An operation that sends nothing brings at least its gas.
LEMMA StorePays ==
    ASSUME TypeOK, NEW s, NEW v \in Nat, v >= ExecGas, Store(s, v)
    PROVE  Sent = {} /\ balance' >= balance
<1>1. balance \in Nat /\ ExecGas \in Nat
  BY ConstantTypes DEF TypeOK, Money
<1> QED BY <1>1 DEF Store, With, Sent

LEMMA OperationPays ==
    ASSUME TypeOK, OwnerOrSubscriber
    PROVE  CancelTon \/ CancelJetton \/ (Sent = {} /\ balance' >= balance)
<1>1. ASSUME NEW v \in TopUps, PlainTransfer(v) \/ TopUp(v)
      PROVE  Sent = {} /\ balance' >= balance
  <2>1. v \in Nat /\ v >= ExecGas
    BY SubscriptionConstants DEF Money
  <2>2. PICK s : Store(s, v)
    BY <1>1 DEF PlainTransfer, TopUp
  <2> QED BY <2>1, <2>2, StorePays
<1>2. CASE PauseSub \/ ResumeSub \/ EmergencyPause \/ (\E k \in Keys : RotateRelayer(k))
             \/ (\E n \in PeriodCaps : SetMaxPeriods(n))
  <2>1. PICK s : Store(s, OpValue)
    BY <1>2 DEF PauseSub, ResumeSub, EmergencyPause, RotateRelayer, SetMaxPeriods
  <2> QED BY <2>1, ConstantTypes, StorePays
<1>3. ASSUME NEW p \in Plans, ApplyPlan(p) PROVE Sent = {} /\ balance' >= balance
  <2>1. PICK s : Store(s, FACTORY_DEPLOY_GAS)
    BY <1>3 DEF ApplyPlan
  <2> QED BY <2>1, ConstantTypes, StorePays
<1> QED BY <1>1, <1>2, <1>3 DEF OwnerOrSubscriber

LEMMA NetworkPays ==
    ASSUME TypeOK, Network
    PROVE  Sent = {} /\ balance' >= balance
<1>0. balance \in Nat
  BY DEF TypeOK, Money
<1>1. ASSUME NEW m \in outbox, Returns(m) PROVE Sent = {} /\ balance' >= balance
  <2>1. Value(m) \in Nat
    BY ConstantTypes DEF TypeOK, Message, Value
  <2>2. Recovered(m) \in Nat
    BY <2>1, ConstantTypes DEF Recovered
  <2> QED BY <1>0, <1>1, <2>2 DEF Returns, Sent
<1>2. ASSUME NEW m \in outbox, Landed(m) \/ TransferDone(m)
      PROVE  Sent = {} /\ balance' >= balance
  BY <1>0, <1>2 DEF Landed, TransferDone, Sent
<1>3. CASE JettonExcesses
  BY <1>0, <1>3 DEF JettonExcesses, Sent
<1>4. ASSUME NEW a, NEW c, TransferNotification(a, c) PROVE Sent = {} /\ balance' >= balance
  BY <1>0, <1>4 DEF TransferNotification, Sent
<1> QED BY <1>1, <1>2, <1>3, <1>4 DEF Network, PaymentBounced, FeeBounced, BounceUnread

\* Time and signatures cost nothing, and neither does standing still.
LEMMA ClockPays ==
    ASSUME TypeOK, Tick \/ (\E k \in Keys : SignCharge(k)) \/ UNCHANGED vars
    PROVE  Sent = {} /\ balance' >= balance
<1>1. balance \in Nat
  BY DEF TypeOK, Money
<1> QED BY <1>1 DEF Tick, SignCharge, vars, Sent

\* Under the emergency pause nothing leaves the contract, whoever sends what
\* (require_not_paused).
THEOREM PauseFreezes == Spec => FrozenWhilePaused
<1> DEFINE Frozen == sub.paused => Sent = {} /\ balance' >= balance
<1>1. ASSUME TypeOK, [Next]_vars, sub.paused PROVE Sent = {} /\ balance' >= balance
  <2>1. ~ExternalMessage
    BY <1>1 DEF ExternalMessage, ChargeRefused, EndTerm, EndGrace, ChargeUnfunded, Charge,
                ChargeRolledBack, MayCharge, Accepted
  <2>2. ~CancelTon /\ ~CancelJetton
    BY <1>1 DEF CancelTon, CancelJetton, CancelGuard
  <2> QED BY <1>1, <2>1, <2>2, OperationPays, NetworkPays, ClockPays DEF Next
<1>2. TypeOK /\ [Next]_vars => [Frozen]_vars
  BY <1>1
<1> QED BY <1>2, TypeCorrect, PTL DEF Spec, FrozenWhilePaused

\* A transaction that sends leaves the rent reserve, whatever it sends
\* (execute_charge, send_refund).
THEOREM ReserveSurvives == Spec => SendsKeepReserve
<1> DEFINE Keeps == Sent # {} => balance' >= STORAGE_RESERVE
<1>1. ASSUME TypeOK, [Next]_vars, Sent # {} PROVE balance' >= STORAGE_RESERVE
  <2>1. CASE Charge
    <3> DEFINE split == SplitFee(sub.amount, FeeBps)
    <3>1. split.net \in Nat /\ split.fee \in Nat /\ split.protocolFee \in Nat
      BY <1>1, SubFields, SplitType
    <3>2. ChargeFits(split) /\ balance' = Left - ChargeCost(split)
      BY <2>1 DEF Charge
    <3> HIDE DEF split
    <3>3. ChargeCost(split) \in Nat
      BY <3>1, ConstantTypes DEF ChargeCost, PaymentCost, FeeCost
    <3>4. Left \in Int
      BY <1>1, ConstantTypes DEF Left, TypeOK, Money
    <3> QED BY <3>2, <3>3, <3>4, ConstantTypes DEF ChargeFits
  <2>2. CASE ExternalMessage /\ ~Charge
    <3>1. outbox' = outbox
      BY <2>2 DEF ExternalMessage, ChargeRefused, ChargeRolledBack, EndTerm, EndGrace,
                  ChargeUnfunded
    <3> QED BY <1>1, <3>1 DEF Sent
  <2>3. CASE CancelTon
    BY <1>1, <2>3 DEF CancelTon, Sent
  <2>4. CASE CancelJetton
    <3>1. balance' = STORAGE_RESERVE \/ outbox' = outbox
      BY <2>4 DEF CancelJetton
    <3> QED BY <1>1, <3>1, ConstantTypes DEF Sent
  <2> QED BY <1>1, <2>1, <2>2, <2>3, <2>4, OperationPays, NetworkPays, ClockPays DEF Next
<1>2. TypeOK /\ [Next]_vars => [Keeps]_vars
  BY <1>1
<1> QED BY <1>2, TypeCorrect, PTL DEF Spec, SendsKeepReserve

-----------------------------------------------------------------------------
(* Cancellation.                                                           *)

LEMMA StatusKept ==
    ASSUME TypeOK, sub.status = "CANCELLED", OwnerOrSubscriber
    PROVE  sub'.status = "CANCELLED"
<1>1. ~CancelTon /\ ~CancelJetton /\ ~PauseSub /\ ~ResumeSub
  BY DEF CancelTon, CancelJetton, CancelGuard, NotCancelled, PauseSub, ResumeSub
<1>2. /\ \A v \in TopUps : ~TopUp(v)
      /\ \A p \in Plans : ~ApplyPlan(p)
      /\ \A n \in PeriodCaps : ~SetMaxPeriods(n)
  BY DEF TopUp, ApplyPlan, SetMaxPeriods, NotCancelled
<1>3. ASSUME NEW v \in TopUps, PlainTransfer(v) PROVE sub'.status = "CANCELLED"
  BY <1>3, SubFields DEF PlainTransfer, Store, Storage
<1>4. CASE EmergencyPause
  BY <1>4, SubFields DEF EmergencyPause, Store, Storage
<1>5. ASSUME NEW k \in Keys, RotateRelayer(k) PROVE sub'.status = "CANCELLED"
  BY <1>5, SubFields DEF RotateRelayer, Store, Storage
<1> QED BY <1>1, <1>2, <1>3, <1>4, <1>5 DEF OwnerOrSubscriber

\* A cancelled subscription pays nobody, and only a payment that comes back
\* after the cancellation revives it (require_not_cancelled, on_charge_bounced).
THEOREM CancelledStays == Spec => RevivedOnlyByLateBounce
<1> DEFINE Stays == sub.status = "CANCELLED" =>
                      /\ Sent = {}
                      /\ sub'.status # "CANCELLED" => returned' # returned
<1>1. ASSUME TypeOK, PaymentsInv, [Next]_vars, sub.status = "CANCELLED"
      PROVE  Sent = {} /\ (sub'.status # "CANCELLED" => returned' # returned)
  <2>1. CASE ExternalMessage
    <3>1. ChargeRefused
      BY <1>1, <2>1 DEF ExternalMessage, EndTerm, EndGrace, ChargeUnfunded, Charge,
                        ChargeRolledBack, MayCharge, Chargeable
    <3> QED BY <1>1, <3>1 DEF ChargeRefused, Sent
  <2>2. CASE OwnerOrSubscriber
    <3>1. ~CancelTon /\ ~CancelJetton
      BY <1>1 DEF CancelTon, CancelJetton, CancelGuard, NotCancelled
    <3> QED BY <1>1, <2>2, <3>1, StatusKept, OperationPays
  <2>3. CASE Network
    <3>1. ASSUME NEW m \in outbox, PaymentBounced(m) PROVE returned' # returned
      <4>1. m \in Payments /\ returned' = returned \cup {m.seqno}
        BY <3>1 DEF PaymentBounced, Returns, Note, IsPayment, Payments
      <4> QED BY <1>1, <4>1 DEF PaymentsInv
    <3>2. ASSUME NEW m \in outbox,
                 Landed(m) \/ FeeBounced(m) \/ BounceUnread(m) \/ TransferDone(m)
          PROVE  sub'.status = "CANCELLED"
      <4>1. FeeBounced(m) => sub'.status = sub.status
        BY <1>1, SubFields DEF FeeBounced, Storage
      <4>2. Landed(m) \/ BounceUnread(m) \/ TransferDone(m) => sub' = sub
        BY StorageUntouched
      <4> QED BY <1>1, <3>2, <4>1, <4>2
    <3>3. CASE JettonExcesses
      <4>1. \/ sub' = sub
            \/ sub' = [sub EXCEPT !.seqno = @ + 1, !.charging = FALSE]
        BY <3>3 DEF JettonExcesses
      <4>2. sub'.status = sub.status
        BY <1>1, <4>1, SubFields DEF Storage
      <4> QED BY <1>1, <2>3, <4>2, NetworkPays
    <3>4. ASSUME NEW a, NEW c, TransferNotification(a, c) PROVE sub'.status = "CANCELLED"
      BY <1>1, <3>4, SubFields DEF TransferNotification, Storage
    <3>5. sub'.status # "CANCELLED" => returned' # returned
      BY <2>3, <3>1, <3>2, <3>3, <3>4 DEF Network
    <3> QED BY <1>1, <2>3, <3>5, NetworkPays
  <2>4. CASE Tick \/ (\E k \in Keys : SignCharge(k)) \/ UNCHANGED vars
    <3>1. sub' = sub
      BY <2>4 DEF Tick, SignCharge, vars
    <3> QED BY <1>1, <2>4, <3>1, ClockPays
  <2> QED BY <1>1, <2>1, <2>2, <2>3, <2>4 DEF Next
<1>2. TypeOK /\ PaymentsInv /\ [Next]_vars => [Stays]_vars
  BY <1>1
<1> QED BY <1>2, PaymentsAlways, PTL DEF Spec, RevivedOnlyByLateBounce

\* A cancellation that refunds leaves only the reserve.
LEMMA CloseOutRefunds ==
    ASSUME NEW s, NEW b, CloseOut(s, b), RefundDue(sub.deposit), sub' # sub
    PROVE  balance' = STORAGE_RESERVE
  BY DEF CloseOut

\* Operations other than a cancellation cancel nothing.
LEMMA NotCancelledKept ==
    ASSUME TypeOK, sub.status # "CANCELLED", OwnerOrSubscriber
    PROVE  CancelTon \/ CancelJetton \/ sub'.status # "CANCELLED"
<1>1. ASSUME NEW v \in TopUps, PlainTransfer(v) PROVE sub'.status # "CANCELLED"
  BY <1>1, SubFields DEF PlainTransfer, Store, Storage
<1>2. ASSUME NEW v \in TopUps, TopUp(v) PROVE sub'.status # "CANCELLED"
  <2> DEFINE s == [sub EXCEPT !.seqno = @ + 1, !.deposit = Credit(v)]
  <2>1. s.status = sub.status
    BY SubFields DEF Storage
  <2>2. Reinstated(s).status = "ACTIVE"
    BY SubFields DEF Reinstated, Storage
  <2>3. sub' = s \/ sub' = Reinstated(s)
    BY <1>2 DEF TopUp, Store
  <2> HIDE DEF s
  <2> QED BY <2>1, <2>2, <2>3
<1>3. CASE PauseSub
  BY <1>3, SubFields DEF PauseSub, Store, Storage
<1>4. CASE ResumeSub
  BY <1>4, SubFields DEF ResumeSub, Store, Storage
<1>5. CASE EmergencyPause
  BY <1>5, SubFields DEF EmergencyPause, Store, Storage
<1>6. ASSUME NEW k \in Keys, RotateRelayer(k) PROVE sub'.status # "CANCELLED"
  BY <1>6, SubFields DEF RotateRelayer, Store, Storage
<1>7. ASSUME NEW p \in Plans, ApplyPlan(p) PROVE sub'.status # "CANCELLED"
  BY <1>7, SubFields DEF ApplyPlan, Store, Storage
<1>8. ASSUME NEW n \in PeriodCaps, SetMaxPeriods(n) PROVE sub'.status # "CANCELLED"
  BY <1>8, SubFields DEF SetMaxPeriods, Store, Storage
<1> QED BY <1>1, <1>2, <1>3, <1>4, <1>5, <1>6, <1>7, <1>8 DEF OwnerOrSubscriber

\* A payment comes back that can be read.
PaymentReturns == \E m \in outbox : PaymentBounced(m)

\* Every way to cancel but the last failure, if a bounce is that, refunds.
LEMMA CancelStep ==
    ASSUME TypeOK, [Next]_vars, NotCancelled, sub'.status = "CANCELLED",
           RefundDue(sub.deposit), PaymentType = "TON"
    PROVE  balance' = STORAGE_RESERVE \/ PaymentReturns
<1>1. sub' # sub
  BY DEF NotCancelled
<1>2. CASE EndTerm
  BY <1>1, <1>2, CloseOutRefunds DEF EndTerm
<1>3. CASE EndGrace
  BY <1>1, <1>3, CloseOutRefunds DEF EndGrace
<1>4. CASE ChargeUnfunded
  <2> DEFINE f == OnChargeFailed(sub.retry, sub.graceEnd, now)
             s == [sub EXCEPT !.seqno = @ + 1, !.status = f.status, !.charging = FALSE,
                              !.retry = f.retry, !.graceEnd = f.graceEnd]
  <2>1. CloseOut(s, Left) \/ (f.status = "GRACE" /\ sub' = s)
    BY <1>4 DEF ChargeUnfunded
  <2>2. s.status = f.status
    BY SubFields DEF Storage
  <2> HIDE DEF s
  <2> QED BY <1>1, <2>1, <2>2, CloseOutRefunds
<1>5. CASE ChargeRefused \/ ChargeRolledBack
  BY <1>1, <1>5 DEF ChargeRefused, ChargeRolledBack
<1>6. CASE Charge
  <2>1. sub'.status = "ACTIVE"
    BY <1>6, SubFields DEF Charge, Storage
  <2> QED BY <2>1
<1>7. CASE CancelTon
  BY <1>1, <1>7, CloseOutRefunds DEF CancelTon
<1>8. ~CancelJetton
  BY DEF CancelJetton
<1>9. CASE OwnerOrSubscriber /\ ~CancelTon /\ ~CancelJetton
  BY <1>9, NotCancelledKept DEF NotCancelled
<1>10. CASE Network
  <2>1. ASSUME NEW m \in outbox, Landed(m) \/ BounceUnread(m) \/ TransferDone(m)
        PROVE  FALSE
    BY <1>1, <2>1, StorageUntouched
  <2>2. ASSUME NEW m \in outbox, FeeBounced(m) PROVE FALSE
    BY <2>2, SubFields DEF FeeBounced, Storage, NotCancelled
  <2>3. CASE JettonExcesses
    BY <2>3, SubFields DEF JettonExcesses, Storage, NotCancelled
  <2>4. ASSUME NEW a, NEW c, TransferNotification(a, c) PROVE FALSE
    BY <2>4, SubFields DEF TransferNotification, Storage, NotCancelled
  <2> QED BY <1>10, <2>1, <2>2, <2>3, <2>4 DEF Network, PaymentReturns
<1>11. CASE Tick \/ (\E k \in Keys : SignCharge(k)) \/ UNCHANGED vars
  BY <1>1, <1>11 DEF Tick, SignCharge, vars
<1> QED BY <1>2, <1>3, <1>4, <1>5, <1>6, <1>7, <1>8, <1>9, <1>10, <1>11
    DEF Next, ExternalMessage

\* Whoever or whatever cancels a TON subscription with a deposit worth refunding,
\* its money leaves with it (send_refund), unless the last failure is a payment
\* that comes back (on_charge_bounced, which refunds nothing).
THEOREM CancelRefundsOrBounced ==
    Spec => [][ PaymentType = "TON" /\ RefundDue(sub.deposit)
                /\ NotCancelled /\ sub'.status = "CANCELLED"
                  => balance' = STORAGE_RESERVE \/ PaymentReturns ]_vars
<1> DEFINE Refunds == PaymentType = "TON" /\ RefundDue(sub.deposit)
                        /\ NotCancelled /\ sub'.status = "CANCELLED"
                        => balance' = STORAGE_RESERVE \/ PaymentReturns
<1>1. TypeOK /\ [Next]_vars => [Refunds]_vars
  BY CancelStep
<1> QED BY <1>1, TypeCorrect, PTL DEF Spec

\* So with the header the senders write every cancellation of a TON subscription
\* refunds: no bounce of a payment can be read.
THEOREM CancelRefunds == ~BodyInRef => (Spec => CancelReturnsFunds)
<1> SUFFICES ASSUME ~BodyInRef PROVE Spec => CancelReturnsFunds
  OBVIOUS
<1> DEFINE Refunds == PaymentType = "TON" /\ RefundDue(sub.deposit)
                        /\ NotCancelled /\ sub'.status = "CANCELLED"
                        => balance' = STORAGE_RESERVE
<1>1. ~PaymentReturns
  BY DEF PaymentReturns, PaymentBounced
<1>2. TypeOK /\ [Next]_vars => [Refunds]_vars
  BY <1>1, CancelStep
<1> QED BY <1>2, TypeCorrect, PTL DEF Spec, CancelReturnsFunds

-----------------------------------------------------------------------------
(* Transfers of tokens, as long as nobody pauses.                          *)

\* The flag is up while a transfer or its excesses are under way.
TransfersInv ==
    /\ \A m \in outbox : m.kind = "payment" => PaymentType = "TON"
    /\ PaymentType = "TON" => Transfers = {} /\ excesses = 0
    /\ ~sub.charging => Transfers = {} /\ excesses = 0
    /\ \/ Transfers = {} /\ excesses <= 1
       \/ excesses = 0 /\ \E m : Transfers = {m}

\* A step that has nothing to do with them.
TransfersKept ==
    /\ Transfers' = Transfers /\ excesses' = excesses /\ sub'.charging = sub.charging
    /\ \A m \in outbox' : m.kind = "payment" => m \in outbox

LEMMA KeptTransfers == ASSUME TransfersInv, TransfersKept PROVE TransfersInv'
  BY DEF TransfersInv, TransfersKept

LEMMA TransfersExternal ==
    ASSUME TypeOK, TransfersInv, ExternalMessage
    PROVE  TransfersInv'
<1>1. CASE ChargeRefused \/ ChargeRolledBack
  <2>1. TransfersKept
    BY <1>1 DEF ChargeRefused, ChargeRolledBack, TransfersKept, Transfers, jetton
  <2> QED BY <2>1, KeptTransfers
<1>2. CASE EndTerm \/ EndGrace \/ ChargeUnfunded
  <2>1. outbox' = outbox /\ excesses' = excesses /\ ~sub.charging
    BY <1>2 DEF EndTerm, EndGrace, ChargeUnfunded, Chargeable, jetton
  <2>2. sub'.charging = FALSE
    <3>1. CASE EndTerm
      BY <2>1, <3>1, SubFields DEF EndTerm, CloseOut, Storage
    <3>2. CASE EndGrace
      BY <2>1, <3>2, SubFields DEF EndGrace, CloseOut, Storage
    <3>3. CASE ChargeUnfunded
      BY <2>1, <3>3, SubFields DEF ChargeUnfunded, CloseOut, Storage
    <3> QED BY <1>2, <3>1, <3>2, <3>3
  <2>3. TransfersKept
    BY <2>1, <2>2, SubFields DEF TransfersKept, Transfers
  <2> QED BY <2>3, KeptTransfers
<1>3. CASE Charge
  <2> DEFINE split == SplitFee(sub.amount, FeeBps)
             pay   == Outgoing(PaymentKind, split.net)
             msgs  == ChargeMessages(split)
  <2>1. Transfers = {} /\ excesses' = 0
    BY <1>3 DEF Charge, MayCharge, Chargeable, TransfersInv, jetton
  <2>2. /\ outbox' = outbox \cup msgs /\ IsPayment(pay)
        /\ pay \in msgs /\ \A m \in msgs : IsPayment(m) => m = pay
    BY <1>3, ChargeSends
  <2>3. pay.kind = PaymentKind
    BY DEF Outgoing
  <2>4. sub'.charging = (PaymentType = "JETTON")
    BY <1>3, SubFields DEF Charge, Storage
  <2> HIDE DEF pay, msgs
  <2>5. \A m \in outbox' : m.kind = "payment" => PaymentType = "TON"
    BY <2>2, <2>3 DEF TransfersInv, PaymentKind, IsPayment
  <2>6. CASE PaymentType = "TON"
    <3>1. \A m \in msgs : m.kind # "transfer"
      BY <2>2, <2>3, <2>6 DEF PaymentKind, IsPayment
    <3>2. Transfers' = {}
      BY <2>1, <2>2, <3>1 DEF Transfers
    <3> QED BY <2>1, <2>5, <2>6, <3>2 DEF TransfersInv
  <2>7. CASE PaymentType = "JETTON"
    <3>1. pay.kind = "transfer"
      BY <2>3, <2>7 DEF PaymentKind
    <3>2. Transfers' = {pay}
      BY <2>1, <2>2, <3>1 DEF Transfers, IsPayment
    <3>3. PaymentType # "TON" /\ sub'.charging
      BY <2>4, <2>7
    <3> QED BY <2>1, <2>5, <3>2, <3>3 DEF TransfersInv
  <2> QED BY <2>6, <2>7, SubscriptionConstants
<1> QED BY <1>1, <1>2, <1>3 DEF ExternalMessage

LEMMA TransfersOperation ==
    ASSUME TypeOK, TransfersInv, OwnerOrSubscriber, {"pause", "emergency"} \cap Ops = {}
    PROVE  TransfersInv'
<1> SUFFICES TransfersKept
  BY KeptTransfers
<1>0. "pause" \notin Ops /\ "emergency" \notin Ops
  OBVIOUS
<1>1. CASE CancelTon \/ CancelJetton
  <2>1. ~sub.charging /\ ~Cancelled.charging
    BY <1>1, SubFields DEF CancelTon, CancelJetton, CancelGuard, Cancelled, Storage
  <2>2. /\ sub' = Cancelled \/ sub' = sub
        /\ excesses' = excesses
        /\ outbox' = outbox \/ outbox' = outbox \cup FeeMessage("tokenRefund", sub.deposit)
    BY <1>1 DEF CancelTon, CancelJetton, CloseOut, jetton
  <2>3. sub'.charging = sub.charging
    <3>1. Cancelled.charging = FALSE
      BY SubFields DEF Cancelled, Storage
    <3> QED BY <2>1, <2>2, <3>1, SubFields
  <2>4. \A m \in FeeMessage("tokenRefund", sub.deposit) : m.kind = "tokenRefund"
    BY DEF FeeMessage, Outgoing
  <2> QED BY <2>2, <2>3, <2>4 DEF TransfersKept, Transfers
<1>2. ASSUME outbox' = outbox, excesses' = excesses, sub'.charging = sub.charging
      PROVE  TransfersKept
  BY <1>2 DEF TransfersKept, Transfers
<1>3. ASSUME NEW v \in TopUps, PlainTransfer(v) PROVE TransfersKept
  BY <1>2, <1>3, SubFields DEF PlainTransfer, Store, Storage, jetton
<1>4. ASSUME NEW v \in TopUps, TopUp(v) PROVE TransfersKept
  <2> DEFINE s == [sub EXCEPT !.seqno = @ + 1, !.deposit = Credit(v)]
  <2>1. s.charging = sub.charging /\ Reinstated(s).charging = sub.charging
    BY SubFields DEF Reinstated, Storage
  <2>2. (sub' = s \/ sub' = Reinstated(s)) /\ outbox' = outbox /\ excesses' = excesses
    BY <1>4 DEF TopUp, Store, jetton
  <2> HIDE DEF s
  <2> QED BY <1>2, <2>1, <2>2
<1>5. ~PauseSub /\ ~ResumeSub /\ ~EmergencyPause
  BY <1>0 DEF PauseSub, ResumeSub, EmergencyPause
<1>6. ASSUME NEW k \in Keys, RotateRelayer(k) PROVE TransfersKept
  BY <1>2, <1>6, SubFields DEF RotateRelayer, Store, Storage, jetton
<1>7. ASSUME NEW p \in Plans, ApplyPlan(p) PROVE TransfersKept
  BY <1>2, <1>7, SubFields DEF ApplyPlan, Store, Storage, jetton
<1>8. ASSUME NEW n \in PeriodCaps, SetMaxPeriods(n) PROVE TransfersKept
  BY <1>2, <1>8, SubFields DEF SetMaxPeriods, Store, Storage, jetton
<1> QED BY <1>1, <1>3, <1>4, <1>5, <1>6, <1>7, <1>8 DEF OwnerOrSubscriber

LEMMA TransfersNetwork ==
    ASSUME TypeOK, TransfersInv, Network
    PROVE  TransfersInv'
<1>0. excesses \in Nat
  BY DEF TypeOK
<1>1. ASSUME NEW m \in outbox, Landed(m) \/ FeeBounced(m) PROVE TransfersInv'
  <2>1. /\ m.kind # "transfer" /\ outbox' = outbox \ {m} /\ excesses' = excesses
        /\ sub'.charging = sub.charging
    BY <1>1, SubFields DEF Landed, FeeBounced, Returns, Storage, jetton
  <2>2. TransfersKept
    BY <2>1 DEF TransfersKept, Transfers
  <2> QED BY <2>2, KeptTransfers
<1>2. ASSUME NEW m \in outbox, PaymentBounced(m) PROVE TransfersInv'
  <2>1. m.kind = "payment" /\ outbox' = outbox \ {m} /\ excesses' = excesses
    BY <1>2 DEF PaymentBounced, Returns, jetton
  <2>2. Transfers = {} /\ excesses = 0
    BY <2>1 DEF TransfersInv
  <2>3. Transfers' = {}
    BY <2>1, <2>2 DEF Transfers
  <2> QED BY <2>1, <2>2, <2>3 DEF TransfersInv
<1>3. ASSUME NEW m \in outbox, BounceUnread(m) \/ TransferDone(m) PROVE TransfersInv'
  <2>1. /\ outbox' = outbox \ {m} /\ sub' = sub
        /\ excesses' = excesses \/ (m.kind = "transfer" /\ excesses' = excesses + 1)
    BY <1>3 DEF BounceUnread, TransferDone, Returns, jetton
  <2>2. Transfers' = Transfers \ {m}
    BY <2>1 DEF Transfers
  <2>3. CASE m.kind # "transfer"
    <3>1. TransfersKept
      BY <2>1, <2>2, <2>3 DEF TransfersKept, Transfers
    <3> QED BY <3>1, KeptTransfers
  <2>4. CASE m.kind = "transfer"
    <3>1. m \in Transfers
      BY <2>4 DEF Transfers
    <3>2. Transfers = {m} /\ excesses = 0 /\ sub.charging /\ PaymentType # "TON"
      BY <3>1 DEF TransfersInv
    <3>3. Transfers' = {} /\ excesses' <= 1 /\ sub'.charging
      BY <2>1, <2>2, <3>2
    <3>4. \A o \in outbox' : o.kind = "payment" => PaymentType = "TON"
      BY <2>1 DEF TransfersInv
    <3> QED BY <3>2, <3>3, <3>4 DEF TransfersInv
  <2> QED BY <2>3, <2>4
<1>4. CASE JettonExcesses
  <2>1. excesses > 0 /\ excesses' = excesses - 1 /\ outbox' = outbox
    BY <1>4 DEF JettonExcesses
  <2>2. Transfers = {} /\ excesses' = 0
    BY <1>0, <2>1 DEF TransfersInv
  <2>3. Transfers' = {}
    BY <2>1, <2>2 DEF Transfers
  <2>4. \A m \in outbox' : m.kind = "payment" => PaymentType = "TON"
    BY <2>1 DEF TransfersInv
  <2> QED BY <2>2, <2>3, <2>4 DEF TransfersInv
<1>5. ASSUME NEW a, NEW c, TransferNotification(a, c) PROVE TransfersInv'
  <2>1. outbox' = outbox /\ excesses' = excesses /\ sub'.charging = sub.charging
    BY <1>5, SubFields DEF TransferNotification, Storage
  <2>2. TransfersKept
    BY <2>1 DEF TransfersKept, Transfers
  <2> QED BY <2>2, KeptTransfers
<1> QED BY <1>1, <1>2, <1>3, <1>4, <1>5 DEF Network

\* As long as nobody pauses, one transfer waits for its excesses at a time,
\* whoever refuses it, cancels, tops up or changes the plan meanwhile
\* (charging_in_progress).
THEOREM OneTransfer ==
    {"pause", "emergency"} \cap Ops = {} => (Spec => []OneTransferAtATime)
<1> SUFFICES ASSUME {"pause", "emergency"} \cap Ops = {} PROVE Spec => []OneTransferAtATime
  OBVIOUS
<1>1. Init => TypeOK /\ TransfersInv
  <2> SUFFICES ASSUME Init PROVE TransfersInv
    BY InitType
  <2>1. outbox = {} /\ excesses = 0 /\ Transfers = {}
    BY DEF Init, Transfers
  <2> QED BY <2>1 DEF TransfersInv
<1>2. ASSUME TypeOK, TransfersInv, [Next]_vars PROVE TypeOK' /\ TransfersInv'
  <2>1. CASE Tick \/ (\E k \in Keys : SignCharge(k)) \/ UNCHANGED vars
    <3>1. TransfersKept
      BY <2>1 DEF Tick, SignCharge, vars, jetton, TransfersKept, Transfers
    <3> QED BY <1>2, <3>1, KeptTransfers, TypeStep
  <2> QED BY <1>2, <2>1, TransfersExternal, TransfersOperation, TransfersNetwork, TypeStep
      DEF Next
<1>3. ASSUME TypeOK, TransfersInv PROVE OneTransferAtATime
  <2>1. excesses \in Nat
    BY <1>3 DEF TypeOK
  <2>2. CASE Transfers = {} /\ excesses <= 1
    <3>1. Cardinality(Transfers) = 0
      BY <2>2, FS_EmptySet
    <3> QED BY <2>1, <2>2, <3>1 DEF OneTransferAtATime
  <2>3. CASE excesses = 0 /\ \E m : Transfers = {m}
    <3>1. Cardinality(Transfers) = 1
      BY <2>3, FS_Singleton
    <3> QED BY <2>3, <3>1 DEF OneTransferAtATime
  <2> QED BY <1>3, <2>2, <2>3 DEF TransfersInv
<1>4. TypeOK /\ TransfersInv => OneTransferAtATime
  BY <1>3
<1>5. TypeOK /\ TransfersInv /\ [Next]_vars => (TypeOK /\ TransfersInv)'
  BY <1>2
<1> QED BY <1>1, <1>4, <1>5, PTL DEF Spec

-----------------------------------------------------------------------------
(* The count of periods, and the ledger.                                   *)

Periods == {Period} \cup {p.period : p \in Plans}

\* As many bounces as a run can see never take the billing time below zero,
\* whatever period they are taken back by: with block time in seconds since
\* 1970 they would have to undo half a century.
RoomToRollBack ==
    \E longest \in Nat : /\ \A q \in Periods : q <= longest
                         /\ longest * MaxSeqno <= Epoch

\* Only what came back can have taken the billing time below the deployment.
RoomInv(longest) ==
    /\ sub.period <= longest /\ Epoch <= now
    /\ IsFiniteSet(returned)
    /\ Epoch <= sub.nextBilling + longest * Cardinality(returned)

LEMMA ReturnedGrows ==
    ASSUME TypeOK, PaymentsInv, IsFiniteSet(returned), [Next]_vars
    PROVE  /\ IsFiniteSet(returned') /\ Cardinality(returned) \in Nat
           /\ Cardinality(returned') \in {Cardinality(returned), Cardinality(returned) + 1}
           /\ (\E m \in outbox : PaymentBounced(m)) =>
                  Cardinality(returned') = Cardinality(returned) + 1
<1>0. Cardinality(returned) \in Nat
  BY FS_CardinalityType
<1>1. ASSUME NEW m \in Payments, returned' = returned \cup {m.seqno}
      PROVE  /\ IsFiniteSet(returned')
             /\ Cardinality(returned') = Cardinality(returned) + 1
  <2>1. m.seqno \notin returned
    BY DEF PaymentsInv
  <2> QED BY <1>1, <2>1, FS_AddElement
<1>2. returned' = returned \/ \E m \in Payments : returned' = returned \cup {m.seqno}
  BY StepEffect, ChargeSends DEF Aside, Arrives, ComesBack
<1>3. ASSUME NEW m \in outbox, PaymentBounced(m)
      PROVE  m \in Payments /\ returned' = returned \cup {m.seqno}
  BY <1>3 DEF PaymentBounced, Returns, Note, IsPayment, Payments
<1> QED BY <1>0, <1>1, <1>2, <1>3

LEMMA RoomStep ==
    ASSUME NEW longest \in Nat, \A q \in Periods : q <= longest,
           TypeOK, PaymentsInv, RoomInv(longest), [Next]_vars
    PROVE  RoomInv(longest)'
<1> DEFINE n  == Cardinality(returned)
           n1 == Cardinality(returned')
<1>1. /\ IsFiniteSet(returned') /\ n \in Nat /\ n1 \in {n, n + 1}
      /\ (\E m \in outbox : PaymentBounced(m)) => n1 = n + 1
  BY ReturnedGrows DEF RoomInv
<1>2. now \in Nat /\ now' \in Nat /\ now' >= now /\ Epoch \in Nat
  BY TimeAdvances, SubFields, SubscriptionConstants
<1>3. sub.nextBilling \in Nat /\ sub.period \in Nat
  BY SubFields
<1>4. sub.period <= longest /\ Epoch <= now /\ Epoch <= sub.nextBilling + longest * n
  BY DEF RoomInv
<1> SUFFICES sub'.period <= longest /\ Epoch <= sub'.nextBilling + longest * n1
  BY <1>1, <1>2, <1>4 DEF RoomInv
<1> HIDE DEF n, n1
<1>5. /\ longest * n \in Nat /\ longest * (n + 1) = longest * n + longest
      /\ longest * n1 \in Nat
  BY <1>1
<1>6. longest * n <= longest * n1
  BY <1>1, <1>5
<1>7. CASE ClockKept
  BY <1>2, <1>3, <1>4, <1>5, <1>6, <1>7 DEF ClockKept
<1>8. CASE Charge
  <2>1. sub'.nextBilling = sub.nextBilling + sub.period /\ sub'.period = sub.period
    BY <1>8, SubFields DEF Charge, Storage
  <2> QED BY <1>2, <1>3, <1>4, <1>5, <1>6, <2>1
<1>9. CASE ResumeSub
  <2>1. sub'.nextBilling = now + sub.period /\ sub'.period = sub.period
    BY <1>9, SubFields DEF ResumeSub, Store, Storage
  <2> QED BY <1>2, <1>3, <1>4, <1>5, <2>1
<1>10. ASSUME NEW p \in Plans, ApplyPlan(p)
       PROVE  sub'.period <= longest /\ Epoch <= sub'.nextBilling + longest * n1
  <2>1. p.period \in Nat /\ p.period <= longest
    BY SubscriptionConstants DEF Periods
  <2>2. sub'.nextBilling = now + p.period /\ sub'.period = p.period
    BY <1>10, SubFields DEF ApplyPlan, Store, Storage
  <2> QED BY <1>2, <1>4, <1>5, <2>1, <2>2
<1>11. ASSUME NEW m \in outbox, PaymentBounced(m)
       PROVE  sub'.period <= longest /\ Epoch <= sub'.nextBilling + longest * n1
  <2>1. sub'.nextBilling = sub.nextBilling - sub.period /\ sub'.period = sub.period
    BY <1>11, SubFields DEF PaymentBounced, Storage
  <2>2. longest * n1 = longest * n + longest
    BY <1>1, <1>5, <1>11
  <2> QED BY <1>2, <1>3, <1>4, <1>5, <2>1, <2>2
<1>12. CASE Tick \/ \E k \in Keys : SignCharge(k)
  BY <1>7, <1>12, StorageUntouched DEF ClockKept
<1>13. CASE UNCHANGED vars
  BY <1>7, <1>13 DEF vars, ClockKept
<1> QED BY <1>7, <1>8, <1>9, <1>10, <1>11, <1>12, <1>13, ClockKeptExternal,
           ClockKeptOperation, ClockKeptNetwork DEF Next, ExternalMessage

\* What came back is less than all the seqnos consumed.
LEMMA ReturnedBound ==
    ASSUME TypeOK, PaymentsInv, NEW m \in Payments
    PROVE  IsFiniteSet(returned) /\ Cardinality(returned) + 1 <= MaxSeqno
<1> DEFINE top == sub.seqno - 1
           more == returned \cup {m.seqno}
<1>1. /\ m.seqno \in Nat /\ m.seqno < sub.seqno /\ sub.seqno \in Nat
      /\ returned \subseteq Nat /\ \A k \in returned : k < sub.seqno
      /\ sub.seqno <= MaxSeqno /\ MaxSeqno \in Nat
  BY OutboxTypes, SubscriptionConstants DEF PaymentsInv, Payments
<1>2. more \subseteq 0..top /\ top \in Int /\ top >= 0
  <2>1. top \in Nat /\ m.seqno \in 0..top
    BY <1>1
  <2>2. \A k \in returned : k \in 0..top
    BY <1>1, <2>1
  <2> QED BY <2>1, <2>2
<1>3. IsFiniteSet(0..top) /\ Cardinality(0..top) = top + 1
  BY <1>2, FS_Interval
<1>4. IsFiniteSet(more) /\ Cardinality(more) <= top + 1
  BY <1>2, <1>3, FS_Subset
<1>5. IsFiniteSet(returned) /\ Cardinality(returned) \in Nat
  BY <1>4, FS_Subset, FS_CardinalityType
<1>6. m.seqno \notin returned
  BY DEF PaymentsInv
<1>7. Cardinality(more) = Cardinality(returned) + 1
  BY <1>5, <1>6, FS_AddElement
<1> QED BY <1>1, <1>4, <1>5, <1>7

\* So a payment that comes back is always taken back.
LEMMA RollBackFits ==
    ASSUME NEW longest \in Nat, longest * MaxSeqno <= Epoch,
           TypeOK, PaymentsInv, RoomInv(longest), NEW m \in Payments
    PROVE  sub.period <= sub.nextBilling
<1> DEFINE n == Cardinality(returned)
<1>1. n \in Nat /\ n + 1 <= MaxSeqno /\ MaxSeqno \in Nat
  BY ReturnedBound, FS_CardinalityType, SubscriptionConstants
<1>2. sub.nextBilling \in Nat /\ sub.period \in Nat /\ Epoch \in Nat
  BY SubFields, SubscriptionConstants
<1>3. sub.period <= longest /\ Epoch <= sub.nextBilling + longest * n
  BY DEF RoomInv
<1> HIDE DEF n
<1>4. /\ longest * n \in Nat /\ longest * MaxSeqno \in Nat
      /\ longest * (n + 1) = longest * n + longest
      /\ longest * (n + 1) <= longest * MaxSeqno
  BY <1>1
<1> QED BY <1>2, <1>3, <1>4

MatchInv == IsFiniteSet(CountedPayments) /\ PeriodsMatchPayments

\* A bounce that is read is taken back, for any other nothing is.
LEMMA ReadOrUnread ==
    ASSUME TypeOK, PaymentsInv, NEW m \in Payments, ComesBack(m),
           BouncesRead => sub.period <= sub.nextBilling
    PROVE  \/ BouncesRead /\ PaymentBounced(m)
           \/ ~BouncesRead /\ BounceUnread(m)
<1>1. m.kind = PaymentKind /\ PaymentType \in {"TON", "JETTON"}
  BY SubscriptionConstants DEF PaymentsInv
<1>2. sub.period \in Nat /\ sub.nextBilling \in Nat
  BY SubFields
<1>3. CASE BouncesRead
  BY <1>1, <1>2, <1>3 DEF BouncesRead, PaymentKind, ComesBack, BounceUnread
<1>4. CASE ~BouncesRead
  BY <1>1, <1>4 DEF BouncesRead, PaymentKind, ComesBack, PaymentBounced
<1> QED BY <1>3, <1>4

\* What becomes of the payments that count: a charge adds one, a bounce that is
\* read removes one, nothing else moves them.
CountsOne ==
    /\ CountedPayments' = CountedPayments \cup {sub.seqno} /\ sub.seqno \notin CountedPayments
    /\ sub'.periodsCharged = sub.periodsCharged + 1

TakesOneBack(m) ==
    /\ CountedPayments' = CountedPayments \ {m.seqno} /\ m.seqno \in CountedPayments
    /\ sub'.periodsCharged = TakenBack(sub.periodsCharged)

SameCount ==
    CountedPayments' = CountedPayments /\ sub'.periodsCharged = sub.periodsCharged

LEMMA CountedMoves ==
    ASSUME TypeOK, PaymentsInv, [Next]_vars,
           \A m \in Payments : BouncesRead => sub.period <= sub.nextBilling
    PROVE  \/ Charge /\ CountsOne
           \/ BouncesRead /\ \E m \in Payments : TakesOneBack(m)
           \/ ~Charge /\ SameCount
<1>1. CASE Charge
  <2>1. /\ LivePayments' = LivePayments \cup {sub.seqno} /\ sub.seqno \notin LivePayments
        /\ sub'.periodsCharged = sub.periodsCharged + 1 /\ returned' = returned
    BY <1>1, ChargeMoves, ChargeSends
  <2>2. sub.seqno \notin returned
    BY OutboxTypes DEF PaymentsInv
  <2> QED BY <1>1, <2>1, <2>2 DEF CountsOne, CountedPayments
<1>2. CASE ~Charge /\ Aside
  BY <1>2, AsideMoves DEF Aside, SameCount, CountedPayments
<1>3. ASSUME NEW m \in Payments, Arrives(m), ~Charge PROVE SameCount
  <2>1. LivePayments' = LivePayments
    BY <1>3, TakenMoves DEF Arrives, LivePayments
  <2> QED BY <1>3, <2>1 DEF Arrives, SameCount, CountedPayments
<1>4. ASSUME NEW m \in Payments, ComesBack(m), ~Charge
      PROVE  (BouncesRead /\ TakesOneBack(m)) \/ SameCount
  <2>1. /\ m.seqno \in LivePayments /\ LivePayments' = LivePayments \ {m.seqno}
        /\ returned' = returned \cup {m.seqno}
    BY <1>4, TakenMoves DEF ComesBack, LivePayments
  <2>2. CASE BouncesRead /\ PaymentBounced(m)
    <3>1. sub'.periodsCharged = TakenBack(sub.periodsCharged)
      BY <2>2, SubFields DEF PaymentBounced, Storage
    <3> QED BY <2>1, <2>2, <3>1 DEF TakesOneBack, CountedPayments
  <2>3. CASE ~BouncesRead /\ BounceUnread(m)
    <3>1. sub' = sub
      BY <2>3, StorageUntouched
    <3> QED BY <2>1, <2>3, <3>1 DEF SameCount, CountedPayments
  <2> QED BY <1>4, <2>2, <2>3, ReadOrUnread
<1> QED BY <1>1, <1>2, <1>3, <1>4, StepEffect

LEMMA MatchStep ==
    ASSUME TypeOK, PaymentsInv, MatchInv, [Next]_vars,
           \A m \in Payments : BouncesRead => sub.period <= sub.nextBilling
    PROVE  MatchInv'
<1>0. Cardinality(CountedPayments) \in Nat /\ sub.periodsCharged = Cardinality(CountedPayments)
  BY FS_CardinalityType DEF MatchInv, PeriodsMatchPayments
<1>1. CASE CountsOne
  <2>1. /\ IsFiniteSet(CountedPayments')
        /\ Cardinality(CountedPayments') = Cardinality(CountedPayments) + 1
    BY <1>1, FS_AddElement DEF CountsOne, MatchInv
  <2> QED BY <1>0, <1>1, <2>1 DEF CountsOne, MatchInv, PeriodsMatchPayments
<1>2. ASSUME NEW m \in Payments, TakesOneBack(m) PROVE MatchInv'
  <2>1. /\ IsFiniteSet(CountedPayments')
        /\ Cardinality(CountedPayments') = Cardinality(CountedPayments) - 1
    BY <1>2, FS_RemoveElement DEF TakesOneBack, MatchInv
  <2>2. Cardinality(CountedPayments') \in Nat
    BY <2>1, FS_CardinalityType
  <2>3. sub'.periodsCharged = sub.periodsCharged - 1
    BY <1>0, <1>2, <2>1, <2>2 DEF TakesOneBack, TakenBack
  <2> QED BY <1>0, <2>1, <2>3 DEF MatchInv, PeriodsMatchPayments
<1>3. CASE SameCount
  BY <1>3 DEF SameCount, MatchInv, PeriodsMatchPayments
<1> QED BY <1>1, <1>2, <1>3, CountedMoves

\* What PeriodsMatchPayments rests on, with the longest period of the plans.
MatchAlways(longest) ==
    /\ TypeOK /\ PaymentsInv /\ MatchInv
    /\ BouncesRead => RoomInv(longest)

\* The longest period leaves room for what may be rolled back.
LongEnough(longest) ==
    (\A q \in Periods : q <= longest) /\ longest * MaxSeqno <= Epoch

LEMMA MatchInit ==
    ASSUME NEW longest \in Nat, BouncesRead => LongEnough(longest), Init
    PROVE  MatchAlways(longest)
<1>1. TypeOK
  BY InitType
<1>2. Payments = {} /\ LivePayments = {} /\ returned = {} /\ settled = {} /\ outbox = {}
  BY DEF Init, Payments, LivePayments, SeqnosOf
<1>3. sub.seqno = 0 /\ sub.periodsCharged = 0 /\ sub.period = Period
      /\ sub.nextBilling = FirstBilling /\ now = Epoch
  BY DEF Init
<1>4. PaymentsInv
  BY <1>2, <1>3, SubscriptionConstants DEF PaymentsInv
<1>5. MatchInv
  <2>1. CountedPayments = {}
    BY <1>2 DEF CountedPayments
  <2> QED BY <1>3, <2>1, FS_EmptySet DEF MatchInv, PeriodsMatchPayments
<1>6. ASSUME LongEnough(longest) PROVE RoomInv(longest)
  <2>1. Epoch <= FirstBilling + longest * 0 /\ Epoch \in Nat
    BY SubscriptionConstants DEF FirstBilling
  <2>2. Period <= longest
    BY <1>6 DEF LongEnough, Periods
  <2> QED BY <1>2, <1>3, <2>1, <2>2, FS_EmptySet DEF RoomInv
<1> QED BY <1>1, <1>4, <1>5, <1>6 DEF MatchAlways

LEMMA MatchAlwaysStep ==
    ASSUME NEW longest \in Nat, BouncesRead => LongEnough(longest),
           MatchAlways(longest), [Next]_vars
    PROVE  MatchAlways(longest)'
<1>1. TypeOK /\ PaymentsInv /\ MatchInv /\ (BouncesRead => RoomInv(longest))
  BY DEF MatchAlways
<1>2. \A m \in Payments : BouncesRead => sub.period <= sub.nextBilling
  BY <1>1, RollBackFits DEF LongEnough
<1>3. TypeOK' /\ PaymentsInv'
  BY <1>1, TypeStep, PaymentsStep
<1>4. BouncesRead => RoomInv(longest)'
  BY <1>1, RoomStep DEF LongEnough
<1>5. MatchInv'
  BY <1>1, <1>2, MatchStep
<1> QED BY <1>3, <1>4, <1>5 DEF MatchAlways

\* The periods counted as charged are the payments that left, less those whose
\* bounce is read: for either token and header, any prices, fees, plans and caps,
\* and whatever pauses, plan changes and cancellations they overtake
\* (execute_charge, on_charge_bounced).  The condition on time concerns readable
\* bounces alone; the committed header has none.
THEOREM PeriodsMatch ==
    (BouncesRead => RoomToRollBack) => (Spec => []PeriodsMatchPayments)
<1> SUFFICES ASSUME BouncesRead => RoomToRollBack
             PROVE  Spec => []PeriodsMatchPayments
  OBVIOUS
<1>1. PICK longest \in Nat : BouncesRead => LongEnough(longest)
  <2>1. CASE BouncesRead
    BY <2>1 DEF RoomToRollBack, LongEnough
  <2>2. CASE ~BouncesRead
    BY <2>2
  <2> QED BY <2>1, <2>2
<1> DEFINE Always == MatchAlways(longest)
<1>2. Init => Always
  BY <1>1, MatchInit
<1>3. Always /\ [Next]_vars => Always'
  BY <1>1, MatchAlwaysStep
<1>4. Always => PeriodsMatchPayments
  BY DEF MatchAlways, MatchInv
<1> HIDE DEF Always
<1> QED BY <1>2, <1>3, <1>4, PTL DEF Spec

LedgerInv == sub.amount = Price /\ LedgerConserved

\* A step that changes no terms, and credits to the deposit of a subscription that
\* stays what came in.
DepositKept ==
    /\ sub'.amount = sub.amount
    /\ sub'.status # "CANCELLED" => sub'.deposit - sub.deposit = credited' - credited

LEMMA StoreDeposit ==
    ASSUME TypeOK, TypeOK', NEW s, NEW v, Store(s, v), s.amount = sub.amount
    PROVE  DepositKept
<1>1. sub' = s /\ credited' = credited + (s.deposit - sub.deposit)
  BY DEF Store
<1>2. sub' \in Storage
  BY DEF TypeOK
<1>3. sub'.deposit \in Nat /\ sub.deposit \in Nat /\ credited \in Nat
  BY <1>2, FieldTypes, SubFields DEF TypeOK
<1> QED BY <1>1, <1>3 DEF DepositKept

LEMMA DepositExternal ==
    ASSUME TypeOK, ExternalMessage, ~Charge
    PROVE  DepositKept
<1>0. sub.deposit \in Nat /\ credited \in Nat
  BY SubFields DEF TypeOK
<1>1. credited' = credited
  BY DEF ExternalMessage, ChargeRefused, ChargeRolledBack, EndTerm, EndGrace, ChargeUnfunded,
         history
<1>2. /\ sub'.deposit = sub.deposit \/ sub'.status = "CANCELLED"
      /\ sub'.amount = sub.amount
  <2>1. CASE ChargeRefused \/ ChargeRolledBack
    BY <2>1 DEF ChargeRefused, ChargeRolledBack
  <2>2. CASE EndTerm
    BY <2>2, SubFields DEF EndTerm, CloseOut, Storage
  <2>3. CASE EndGrace
    BY <2>3, SubFields DEF EndGrace, CloseOut, Storage
  <2>4. CASE ChargeUnfunded
    BY <2>4, SubFields DEF ChargeUnfunded, CloseOut, Storage
  <2> QED BY <2>1, <2>2, <2>3, <2>4 DEF ExternalMessage
<1> QED BY <1>0, <1>1, <1>2 DEF DepositKept

LEMMA DepositOperation ==
    ASSUME TypeOK, TypeOK', OwnerOrSubscriber, ~BodyInRef
    PROVE  DepositKept
<1>1. ASSUME NEW s, NEW v, Store(s, v), s.amount = sub.amount PROVE DepositKept
  BY <1>1, StoreDeposit
<1>2. CASE CancelTon \/ CancelJetton
  <2>1. Cancelled.status = "CANCELLED" /\ Cancelled.amount = sub.amount
    BY SubFields DEF Cancelled, Storage
  <2>2. (sub' = Cancelled \/ sub' = sub) /\ credited' = credited
    BY <1>2 DEF CancelTon, CancelJetton, CloseOut, history
  <2>3. sub.deposit \in Nat /\ credited \in Nat
    BY SubFields DEF TypeOK
  <2> QED BY <2>1, <2>2, <2>3 DEF DepositKept
<1>3. ASSUME NEW v \in TopUps, PlainTransfer(v) PROVE DepositKept
  BY <1>1, <1>3, SubFields DEF PlainTransfer, Storage
<1>4. ASSUME NEW v \in TopUps, TopUp(v) PROVE DepositKept
  <2> DEFINE s == [sub EXCEPT !.seqno = @ + 1, !.deposit = Credit(v)]
             t == IF sub.status = "GRACE" /\ HasFundsForCharge(s.deposit, s.amount)
                  THEN Reinstated(s) ELSE s
  <2>1. s.amount = sub.amount /\ Reinstated(s).amount = sub.amount
    BY SubFields DEF Reinstated, Storage
  <2>2. Store(t, v)
    BY <1>4 DEF TopUp
  <2>3. t = s \/ t = Reinstated(s)
    OBVIOUS
  <2> HIDE DEF s, t
  <2> QED BY <1>1, <2>1, <2>2, <2>3
<1>5. CASE PauseSub
  BY <1>1, <1>5, SubFields DEF PauseSub, Storage
<1>6. CASE ResumeSub
  BY <1>1, <1>6, SubFields DEF ResumeSub, Storage
<1>7. CASE EmergencyPause
  BY <1>1, <1>7, SubFields DEF EmergencyPause, Storage
<1>8. ASSUME NEW k \in Keys, RotateRelayer(k) PROVE DepositKept
  BY <1>1, <1>8, SubFields DEF RotateRelayer, Storage
<1>9. ASSUME NEW n \in PeriodCaps, SetMaxPeriods(n) PROVE DepositKept
  BY <1>1, <1>9, SubFields DEF SetMaxPeriods, Storage
<1>10. ~\E p \in Plans : ApplyPlan(p)
  BY DEF ApplyPlan
<1> QED BY <1>2, <1>3, <1>4, <1>5, <1>6, <1>7, <1>8, <1>9, <1>10 DEF OwnerOrSubscriber

LEMMA DepositNetwork ==
    ASSUME TypeOK, Network, ~BodyInRef
    PROVE  DepositKept
<1>0. sub.deposit \in Nat /\ credited \in Nat
  BY SubFields DEF TypeOK
<1>1. ASSUME NEW m \in outbox, Landed(m) \/ BounceUnread(m) \/ TransferDone(m)
      PROVE  DepositKept
  <2>1. sub' = sub /\ credited' = credited
    BY <1>1 DEF Landed, BounceUnread, Returns, TransferDone
  <2> QED BY <1>0, <2>1 DEF DepositKept
<1>2. \A m \in outbox : ~FeeBounced(m) /\ ~PaymentBounced(m)
  BY DEF FeeBounced, PaymentBounced
<1>3. CASE JettonExcesses
  <2>1. credited' = credited
    BY <1>3 DEF JettonExcesses, history
  <2>2. \/ sub' = sub
        \/ sub' = [sub EXCEPT !.seqno = @ + 1, !.charging = FALSE]
    BY <1>3 DEF JettonExcesses
  <2>3. sub'.deposit = sub.deposit /\ sub'.amount = sub.amount
    BY <2>2, SubFields DEF Storage
  <2> QED BY <1>0, <2>1, <2>3 DEF DepositKept
<1>4. ASSUME NEW a \in TokenAmounts, NEW c \in ParsedAmounts, TransferNotification(a, c)
      PROVE  DepositKept
  <2>1. credited' = credited + c /\ c \in Nat
    BY <1>4, SubscriptionConstants DEF TransferNotification
  <2>2. sub' = IF c > 0 THEN [sub EXCEPT !.seqno = @ + 1, !.deposit = @ + c] ELSE sub
    BY <1>4 DEF TransferNotification
  <2>3. sub'.deposit = sub.deposit + c /\ sub'.amount = sub.amount
    BY <1>0, <2>1, <2>2, SubFields DEF Storage
  <2> QED BY <1>0, <2>1, <2>3 DEF DepositKept
<1> QED BY <1>1, <1>2, <1>3, <1>4 DEF Network

\* A step other than a charge.
LEMMA DepositStep ==
    ASSUME TypeOK, [Next]_vars, ~BodyInRef, ~Charge
    PROVE  DepositKept
<1>1. CASE ExternalMessage
  BY <1>1, DepositExternal
<1>2. CASE OwnerOrSubscriber
  BY <1>2, DepositOperation, TypeStep
<1>3. CASE Network
  BY <1>3, DepositNetwork
<1>4. CASE Tick \/ (\E k \in Keys : SignCharge(k)) \/ UNCHANGED vars
  <2>1. sub' = sub /\ credited' = credited
    BY <1>4 DEF Tick, SignCharge, vars, history
  <2>2. sub.deposit \in Nat /\ credited \in Nat
    BY SubFields DEF TypeOK
  <2> QED BY <2>1, <2>2 DEF DepositKept
<1> QED BY <1>1, <1>2, <1>3, <1>4 DEF Next

\* With the committed header nothing revives a cancelled subscription.
LEMMA CancelledForGood ==
    ASSUME TypeOK, [Next]_vars, ~BodyInRef, sub.status = "CANCELLED"
    PROVE  sub'.status = "CANCELLED"
<1>1. CASE ExternalMessage
  <2>1. ChargeRefused
    BY <1>1 DEF ExternalMessage, EndTerm, EndGrace, ChargeUnfunded, Charge,
                ChargeRolledBack, MayCharge, Chargeable
  <2> QED BY <2>1 DEF ChargeRefused
<1>2. CASE OwnerOrSubscriber
  BY <1>2, StatusKept
<1>3. CASE Network
  <2>1. ASSUME NEW m \in outbox, Landed(m) \/ BounceUnread(m) \/ TransferDone(m)
        PROVE  sub' = sub
    BY <2>1, StorageUntouched
  <2>2. \A m \in outbox : ~FeeBounced(m) /\ ~PaymentBounced(m)
    BY DEF FeeBounced, PaymentBounced
  <2>3. CASE JettonExcesses
    BY <2>3, SubFields DEF JettonExcesses, Storage
  <2>4. ASSUME NEW a, NEW c, TransferNotification(a, c) PROVE sub'.status = "CANCELLED"
    BY <2>4, SubFields DEF TransferNotification, Storage
  <2> QED BY <1>3, <2>1, <2>2, <2>3, <2>4 DEF Network
<1>4. CASE Tick \/ (\E k \in Keys : SignCharge(k)) \/ UNCHANGED vars
  BY <1>4 DEF Tick, SignCharge, vars
<1> QED BY <1>1, <1>2, <1>3, <1>4 DEF Next

LEMMA LedgerStep ==
    ASSUME TypeOK, PaymentsInv, MatchInv, LedgerInv, [Next]_vars, ~BodyInRef
    PROVE  LedgerInv'
<1> DEFINE n  == Cardinality(CountedPayments)
           n1 == Cardinality(CountedPayments')
<1>0. ~BouncesRead
  BY DEF BouncesRead
<1>1. n = sub.periodsCharged /\ n1 = sub'.periodsCharged /\ n \in Nat
  <2>1. MatchInv'
    BY <1>0, MatchStep
  <2> QED BY <2>1, SubFields DEF MatchInv, PeriodsMatchPayments
<1>2. /\ sub.deposit \in Nat /\ credited \in Nat /\ credited' \in Nat /\ sub'.deposit \in Nat
      /\ Price \in Nat /\ sub.amount = Price
  <2>1. sub' \in Storage /\ credited' \in Nat
    BY TypeStep DEF TypeOK
  <2> QED BY <2>1, FieldTypes, SubFields, SubscriptionConstants DEF TypeOK, LedgerInv, Money
<1>3. sub.status # "CANCELLED" => sub.deposit + Price * n = credited
  BY <1>2 DEF LedgerInv, LedgerConserved
<1> HIDE DEF n, n1
<1>4. CASE Charge
  <2>1. /\ sub'.deposit = sub.deposit - Price /\ credited' = credited
        /\ n1 = n + 1 /\ sub'.amount = Price
    <3>1. credited' = credited /\ sub'.amount = sub.amount
      BY <1>4, SubFields DEF Charge, history, Storage
    <3> QED BY <1>1, <1>2, <1>4, <3>1, ChargeSends
  <2>2. sub.status # "CANCELLED"
    BY <1>4 DEF Charge, MayCharge, Chargeable
  <2> DEFINE paid == Price * n
  <2>3. paid \in Nat /\ Price * (n + 1) = paid + Price /\ sub.deposit + paid = credited
    BY <1>1, <1>2, <1>3, <2>2
  <2>4. Price * n1 = paid + Price
    BY <2>1, <2>3
  <2> HIDE DEF paid
  <2>5. sub'.deposit + Price * n1 = credited'
    BY <1>2, <2>1, <2>3, <2>4
  <2> QED BY <2>1, <2>5 DEF LedgerInv, LedgerConserved, n1
<1>5. CASE ~Charge
  <2>1. DepositKept
    BY <1>5, DepositStep
  <2>2. n1 = n
    BY <1>0, <1>5, CountedMoves DEF SameCount, n, n1
  <2>3. sub'.amount = Price
    BY <1>2, <2>1 DEF DepositKept
  <2>4. ASSUME sub'.status # "CANCELLED" PROVE sub'.deposit + Price * n1 = credited'
    <3>1. sub.status # "CANCELLED"
      BY <2>4, CancelledForGood
    <3> DEFINE paid == Price * n
    <3>2. paid \in Nat /\ sub.deposit + paid = credited /\ Price * n1 = paid
      BY <1>1, <1>2, <1>3, <2>2, <3>1
    <3>3. sub'.deposit - sub.deposit = credited' - credited
      BY <2>1, <2>4 DEF DepositKept
    <3> HIDE DEF paid
    <3> QED BY <1>2, <3>2, <3>3
  <2> QED BY <2>3, <2>4 DEF LedgerInv, LedgerConserved, n1
<1> QED BY <1>4, <1>5

\* With the committed header the deposit of a subscription that is not cancelled
\* is what came in less the gross price of every payment that left, whatever
\* became of it: for either token and any fees, caps, top-ups, pauses and bounces
\* (execute_charge, OP_TOP_UP, the bounce branch of onInternalMessage).
THEOREM LedgerHolds == ~BodyInRef => (Spec => []LedgerConserved)
<1> SUFFICES ASSUME ~BodyInRef PROVE Spec => []LedgerConserved
  OBVIOUS
<1> DEFINE Always == MatchAlways(0) /\ LedgerInv
<1>1. ~BouncesRead
  BY DEF BouncesRead
<1>2. ASSUME Init PROVE LedgerInv
  <2>1. CountedPayments = {} /\ Cardinality(CountedPayments) = 0
    BY <1>2, FS_EmptySet DEF Init, CountedPayments, LivePayments, SeqnosOf
  <2>2. sub.amount = Price /\ sub.deposit = InitialDeposit /\ credited = InitialDeposit
    BY <1>2 DEF Init
  <2>3. credited \in Nat /\ Price \in Nat
    BY <1>2, InitType, SubscriptionConstants DEF TypeOK, Money
  <2> QED BY <2>1, <2>2, <2>3 DEF LedgerInv, LedgerConserved
<1>3. Init => Always
  BY <1>1, <1>2, MatchInit
<1>4. Always /\ [Next]_vars => Always'
  <2> SUFFICES ASSUME Always, [Next]_vars PROVE Always'
    OBVIOUS
  <2>1. TypeOK /\ PaymentsInv /\ MatchInv
    BY DEF MatchAlways
  <2>2. LedgerInv'
    BY <2>1, LedgerStep
  <2> QED BY <1>1, <2>2, MatchAlwaysStep
<1>5. Always => LedgerConserved
  BY DEF LedgerInv
<1> HIDE DEF Always
<1> QED BY <1>3, <1>4, <1>5, PTL DEF Spec
=============================================================================
