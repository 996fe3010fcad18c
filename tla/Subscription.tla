----------------------------- MODULE Subscription -----------------------------
(***************************************************************************)
(* One Subscription contract: its persistent storage (c4), its balance and *)
(* the messages it has sent, driven by signed external messages, by the    *)
(* internal messages of subscriber, service owner and Factory, and by      *)
(* whatever becomes of its own messages: they land, or bounce back late.   *)
(*                                                                         *)
(* An action is one transaction of the contract.  A transaction whose      *)
(* action phase runs out of balance keeps its gas and loses its effects:   *)
(* storage is unchanged and nothing is sent (Left, *Fits below).           *)
(***************************************************************************)
EXTENDS BillingRules, FiniteSets

CONSTANTS
    CHARGE_LEAD_S,  \* how early the relayer tries
    PAYMENT_GAS, FEE_MSG_GAS, KEEPER_REWARD, JETTON_TRANSFER_GAS, FACTORY_DEPLOY_GAS,
    \* Prices of the network: gas of one transaction, forwarding one message,
    \* and what callers attach to an operation.
    ExecGas, FwdFee, OpValue,
    \* Storage fields no handler writes.
    PaymentType,    \* "TON" or "JETTON"
    KeeperMode,     \* TRUE: anyone may trigger a charge
    FeeBps,
    \* FALSE is the committed code: every sender writes the Either bit 0
    \* (body inline) and then stores the body as a reference, so a receiver
    \* sees no op.  TRUE explores the handlers as the tests drive them, with
    \* bodies built by hand.
    BodyInRef,
    \* What the deploying Factory put into storage.
    Epoch, Period, TrialPeriod, Price, FirstDeposit,
    \* Inputs and bounds of a run.
    Keys,           \* relayer keys ever in use
    EagerSigner,    \* TRUE: a key holder signs whenever it likes; FALSE: only for
                    \* a charge that is due, as the repository's relayer does
    Times,          \* instants at which blocks are produced
    TopUps,         \* values a subscriber adds
    Plans,          \* plans the Factory may apply: [amount, period]
    PeriodCaps,     \* arguments of OP_SET_MAX_PERIODS
    TokenAmounts,   \* jettons a subscriber transfers in
    ParsedAmounts,  \* what the notification handler may read as the amount
    Ops,            \* the operations the run uses, of "cancel", "topUp", "pause",
                    \* "emergency" and "rotate"
    MaxSeqno,       \* bound on the transactions of a run that advance seqno
    MaxFunds        \* bound on the funds that unsolicited transfers build up

Money == Nat

ASSUME SubscriptionConstants ==
    /\ \A c \in {PAYMENT_GAS, FEE_MSG_GAS, KEEPER_REWARD, JETTON_TRANSFER_GAS,
                 FACTORY_DEPLOY_GAS, ExecGas, FwdFee, OpValue} : c \in Money
    /\ CHARGE_LEAD_S \in Nat
    /\ OpValue >= ExecGas /\ FACTORY_DEPLOY_GAS >= ExecGas
    /\ PaymentType \in {"TON", "JETTON"} /\ KeeperMode \in BOOLEAN
    /\ FeeBps \in 0..MAX_FEE_BPS /\ BodyInRef \in BOOLEAN
    /\ Epoch \in Times /\ Times \subseteq Nat
    /\ Period \in Nat \ {0} /\ TrialPeriod \in Nat
    /\ Price \in Money \ {0} /\ FirstDeposit \in Money
    /\ FirstDeposit >= ExecGas + STORAGE_RESERVE
    /\ PaymentType = "TON" => HasFundsForCharge(FirstDeposit, Price)
    /\ EagerSigner \in BOOLEAN
    /\ TopUps \subseteq Money /\ \A v \in TopUps : v >= ExecGas
    /\ Plans \subseteq [amount : Money \ {0}, period : Nat \ {0}]
    /\ PeriodCaps \subseteq Nat
    /\ TokenAmounts \subseteq Nat /\ ParsedAmounts \subseteq Nat
    /\ MaxSeqno \in Nat /\ MaxFunds \in Nat

VARIABLES
    sub,        \* the storage cell
    balance,    \* the account's real balance
    outbox,     \* messages sent and neither consumed nor returned yet
    tokens,     \* jettons in the contract's own jetton wallet
    excesses,   \* OP_JETTON_EXCESSES under way to the contract
    now,        \* block time
    signed,     \* charge messages the relayer signed that are still fresh
    settled,    \* history: seqnos of charges whose payment reached the service
    returned,   \* history: seqnos of charges whose payment bounced
    credited    \* history: all that was ever added to the deposit from outside

chain   == <<now, signed>>
history == <<settled, returned, credited>>
jetton  == <<tokens, excesses>>
vars    == <<sub, balance, outbox, jetton, chain, history>>

Status == {"TRIAL", "ACTIVE", "PAUSED", "GRACE", "CANCELLED"}

Storage == [seqno : Nat, status : Status, charging : BOOLEAN, paused : BOOLEAN,
            retry : Nat, period : Nat \ {0}, nextBilling : Nat, graceEnd : Nat,
            maxPeriods : Nat, periodsCharged : Nat, amount : Money \ {0},
            deposit : Money, relayerKey : Keys]

\* "payment" and the two fees are TON; "transfer" and "tokenRefund" go to the
\* jetton wallet.  Notifications, rewards and refunds cannot come back and
\* only leave the balance.
Message == [kind : {"payment", "fee", "protocolFee", "transfer", "tokenRefund"},
            seqno : Nat, amount : Nat]

SignedCharge == [seqno : Nat, timestamp : Times, key : Keys]

TypeOK ==
    /\ sub \in Storage
    /\ balance \in Money /\ tokens \in Nat /\ excesses \in Nat
    /\ outbox \subseteq Message
    /\ now \in Times /\ signed \subseteq SignedCharge
    /\ settled \subseteq Nat /\ returned \subseteq Nat /\ credited \in Nat

-----------------------------------------------------------------------------
(* Deployment by the Factory, its value credited by the empty-body branch. *)

FirstBilling == Epoch + IF TrialPeriod > 0 THEN TrialPeriod ELSE Period

InitialDeposit == IF PaymentType = "TON" THEN FirstDeposit ELSE 0

Init ==
    /\ \E k \in Keys :
         sub = [seqno |-> 0, status |-> IF TrialPeriod > 0 THEN "TRIAL" ELSE "ACTIVE",
                charging |-> FALSE, paused |-> FALSE, retry |-> 0, period |-> Period,
                nextBilling |-> FirstBilling, graceEnd |-> 0, maxPeriods |-> 0,
                periodsCharged |-> 0, amount |-> Price,
                deposit |-> InitialDeposit, relayerKey |-> k]
    /\ balance = FirstDeposit - ExecGas
    /\ outbox = {} /\ tokens = 0 /\ excesses = 0
    /\ now = Epoch /\ signed = {}
    /\ settled = {} /\ returned = {} /\ credited = InitialDeposit

-----------------------------------------------------------------------------
(* Time, and the holders of relayer keys.                                  *)

Tick ==
    \E t \in Times :
        /\ t > now
        /\ now' = t
        /\ signed' = {m \in signed : IsMsgFresh(t, m.timestamp)}
        /\ UNCHANGED <<sub, balance, outbox, jetton, history>>

\* What the relayer reads from the getters before it signs.
LooksDue ==
    /\ sub.status \notin {"CANCELLED", "PAUSED"}
    /\ now >= sub.nextBilling - CHARGE_LEAD_S

\* Whoever holds key k reads the seqno getter and signs a charge.  Only the
\* newest message per key is kept: an older one has a lower seqno, or the same
\* and expires sooner.
SignCharge(k) ==
    /\ ~KeeperMode /\ (EagerSigner \/ LooksDue)
    /\ signed' = {m \in signed : m.key # k}
                    \cup {[seqno |-> sub.seqno, timestamp |-> now, key |-> k]}
    /\ UNCHANGED <<sub, balance, outbox, jetton, now, history>>

-----------------------------------------------------------------------------
(* External messages: the guards up to acceptExternalMessage.  A signed    *)
(* message stays in the network, so it may be delivered again.             *)

\* Slip: require_not_paused left out.
AcceptedWhilePaused ==
    /\ KeeperMode \/ \E m \in signed : /\ m.seqno = sub.seqno
                                       /\ IsMsgFresh(now, m.timestamp)
                                       /\ m.key = sub.relayerKey
    /\ balance >= ExecGas
    /\ sub.seqno < MaxSeqno

Accepted ==
    /\ ~sub.paused
    /\ KeeperMode \/ \E m \in signed : /\ m.seqno = sub.seqno
                                       /\ IsMsgFresh(now, m.timestamp)
                                       /\ m.key = sub.relayerKey
    /\ balance >= ExecGas
    /\ sub.seqno < MaxSeqno

\* What an accepted external message leaves of the balance before any send.
Left == balance - ExecGas

\* Mutated: the charging flag is not looked at.
ChargeableWhileCharging ==
    /\ sub.status \in {"ACTIVE", "TRIAL", "GRACE"}
    /\ IsBillingDue(now, sub.nextBilling)

Chargeable ==
    /\ ~sub.charging
    /\ sub.status \in {"ACTIVE", "TRIAL", "GRACE"}
    /\ IsBillingDue(now, sub.nextBilling)

\* Slip: one period too many.
TermExceeded == sub.maxPeriods > 0 /\ sub.periodsCharged > sub.maxPeriods

TermReached == sub.maxPeriods > 0 /\ sub.periodsCharged >= sub.maxPeriods
GraceOver   == sub.status = "GRACE" /\ GraceExpired(now, sub.graceEnd)
Funded      == HasFundsForCharge(sub.deposit, sub.amount)

\* The asserts of execute_charge come after acceptance: gas is burnt.
ChargeRefused ==
    /\ Accepted /\ ~Chargeable
    /\ balance' = Left
    /\ UNCHANGED <<sub, outbox, jetton, chain, history>>

\* A refund sends all above the reserve (reserve, then mode 128).
RefundFits(b) == b > STORAGE_RESERVE + FwdFee

\* Slip: the refund forgotten.
CloseWithoutRefund(s, b) == sub' = s /\ balance' = b

\* End the subscription with storage s and a refund, from balance b.
CloseOut(s, b) ==
    \/ /\ RefundDue(sub.deposit) /\ RefundFits(b)
       /\ sub' = s /\ balance' = STORAGE_RESERVE
    \/ /\ RefundDue(sub.deposit) /\ ~RefundFits(b)
       /\ sub' = sub /\ balance' = b
    \/ /\ ~RefundDue(sub.deposit)
       /\ sub' = s /\ balance' = b

\* Fixed term consumed.
EndTerm ==
    /\ Accepted /\ Chargeable /\ TermReached
    /\ CloseOut([sub EXCEPT !.seqno = @ + 1, !.status = "CANCELLED", !.charging = FALSE,
                            !.graceEnd = 0, !.deposit = 0], Left)
    /\ UNCHANGED <<outbox, jetton, chain, history>>

\* Grace window over: looked at before the funds are.
EndGrace ==
    /\ Accepted /\ Chargeable /\ ~TermReached /\ GraceOver
    /\ CloseOut([sub EXCEPT !.seqno = @ + 1, !.status = "CANCELLED", !.charging = FALSE,
                            !.graceEnd = 0], Left)
    /\ UNCHANGED <<outbox, jetton, chain, history>>

\* Deposit too small: into GRACE, or cancelled on the MAX_RETRY-th failure.
ChargeUnfunded ==
    /\ Accepted /\ Chargeable /\ ~TermReached /\ ~GraceOver /\ ~Funded
    /\ LET f == OnChargeFailed(sub.retry, sub.graceEnd, now)
           s == [sub EXCEPT !.seqno = @ + 1, !.status = f.status, !.charging = FALSE,
                            !.retry = f.retry, !.graceEnd = f.graceEnd]
       IN  \/ f.status = "CANCELLED" /\ CloseOut(s, Left)
           \/ f.status = "GRACE" /\ sub' = s /\ balance' = Left
    /\ UNCHANGED <<outbox, jetton, chain, history>>

PaymentKind == IF PaymentType = "TON" THEN "payment" ELSE "transfer"

Outgoing(kind, amount) == [kind |-> kind, seqno |-> sub.seqno, amount |-> amount]

\* A fee of zero sends no message.
FeeMessage(kind, cut) == IF cut = 0 THEN {} ELSE {Outgoing(kind, cut)}

ChargeMessages(split) ==
    {Outgoing(PaymentKind, split.net)}
        \cup FeeMessage("fee", split.fee)
        \cup FeeMessage("protocolFee", split.protocolFee)

PaymentCost(net) ==
    FwdFee + IF PaymentType = "TON" THEN net + PAYMENT_GAS ELSE JETTON_TRANSFER_GAS

FeeCost(cut) == IF cut = 0 THEN 0 ELSE cut + FEE_MSG_GAS

\* Payment, the two fees, the Factory's notification and the keeper's reward.
ChargeCost(split) ==
    PaymentCost(split.net) + FeeCost(split.fee) + FeeCost(split.protocolFee)
        + FEE_MSG_GAS + IF KeeperMode THEN KEEPER_REWARD ELSE 0

\* Slip: no reserve before the sends.
FitsWithoutReserve(split) == Left >= ChargeCost(split)

ChargeFits(split) == Left >= STORAGE_RESERVE + ChargeCost(split)

MayCharge == Accepted /\ Chargeable /\ ~TermReached /\ ~GraceOver /\ Funded

\* Slips: the first period after a trial is not counted; the fees are not debited.
UncountedAfterTrial(n) == IF sub.status = "TRIAL" THEN n ELSE n + 1

DebitOfNet(split) == split.net

PeriodCounted(n) == n + 1

Debit(split) == sub.amount

\* A successful cycle.  The jetton path raises the charging flag.
Charge ==
    LET split == SplitFee(sub.amount, FeeBps)
    IN  /\ MayCharge /\ ChargeFits(split)
        /\ sub' = [sub EXCEPT !.seqno = @ + 1, !.status = "ACTIVE",
                              !.charging = PaymentType = "JETTON",
                              !.retry = 0, !.graceEnd = 0,
                              !.nextBilling = @ + sub.period,
                              !.periodsCharged = PeriodCounted(@),
                              !.deposit = @ - Debit(split)]
        /\ balance' = Left - ChargeCost(split)
        /\ outbox' = outbox \cup ChargeMessages(split)
        /\ UNCHANGED <<jetton, chain, history>>

\* All checks pass, but the balance cannot pay the messages.
ChargeRolledBack ==
    /\ MayCharge /\ ~ChargeFits(SplitFee(sub.amount, FeeBps))
    /\ balance' = Left
    /\ UNCHANGED <<sub, outbox, jetton, chain, history>>

ExternalMessage ==
    \/ ChargeRefused \/ EndTerm \/ EndGrace
    \/ ChargeUnfunded \/ Charge \/ ChargeRolledBack

-----------------------------------------------------------------------------
(* Internal messages.  A handler that throws returns its value and changes *)
(* nothing, so only calls that pass the guards are steps.                  *)

\* Balance once an operation that came with value v has paid its gas.
With(v) == balance + v - ExecGas

\* A handler that only rewrites storage and sends nothing.
Store(s, v) ==
    /\ sub.seqno < MaxSeqno
    /\ sub' = s
    /\ balance' = With(v)
    /\ credited' = credited + (s.deposit - sub.deposit)
    /\ UNCHANGED <<outbox, jetton, chain, settled, returned>>

\* Slip: require_not_cancelled left out.
AnyStatus == TRUE

NotCancelled == sub.status # "CANCELLED"

CancelGuard ==
    /\ "cancel" \in Ops /\ sub.seqno < MaxSeqno
    /\ ~sub.paused /\ NotCancelled /\ ~sub.charging

Cancelled == [sub EXCEPT !.seqno = @ + 1, !.status = "CANCELLED", !.charging = FALSE,
                         !.graceEnd = 0, !.deposit = 0]

\* OP_CANCEL by the service owner or the subscriber.
CancelTon ==
    /\ CancelGuard /\ PaymentType = "TON"
    /\ CloseOut(Cancelled, With(OpValue))
    /\ UNCHANGED <<outbox, jetton, chain, history>>

TokenRefundCost == IF sub.deposit = 0 THEN 0 ELSE JETTON_TRANSFER_GAS + FwdFee

CancelJetton ==
    /\ CancelGuard /\ PaymentType = "JETTON"
    /\ \/ /\ RefundFits(With(OpValue) - TokenRefundCost)
          /\ sub' = Cancelled /\ balance' = STORAGE_RESERVE
          /\ outbox' = outbox \cup FeeMessage("tokenRefund", sub.deposit)
       \/ /\ ~RefundFits(With(OpValue) - TokenRefundCost)
          /\ balance' = With(OpValue)
          /\ UNCHANGED <<sub, outbox>>
    /\ UNCHANGED <<jetton, chain, history>>

Credit(v) == sub.deposit + IF PaymentType = "TON" THEN v ELSE 0

\* Plain transfer, from anyone and in any status: no seqno step.
PlainTransfer(v) ==
    /\ balance < MaxFunds /\ sub.deposit < MaxFunds
    /\ Store([sub EXCEPT !.deposit = Credit(v)], v)

\* Slip: the retries used up in one grace window count in the next.
ReinstatedWithRetries(s) == [s EXCEPT !.status = "ACTIVE", !.graceEnd = 0]

Reinstated(s) == [s EXCEPT !.status = "ACTIVE", !.retry = 0, !.graceEnd = 0]

\* OP_TOP_UP: only a top-up that covers a charge ends the grace window.
TopUp(v) ==
    /\ "topUp" \in Ops /\ NotCancelled
    /\ LET s == [sub EXCEPT !.seqno = @ + 1, !.deposit = Credit(v)]
       IN  Store(IF sub.status = "GRACE" /\ HasFundsForCharge(s.deposit, s.amount)
                 THEN Reinstated(s) ELSE s, v)

PauseSub ==
    /\ "pause" \in Ops /\ sub.status \in {"ACTIVE", "TRIAL"}
    /\ Store([sub EXCEPT !.seqno = @ + 1, !.status = "PAUSED", !.charging = FALSE], OpValue)

ResumeSub ==
    /\ "pause" \in Ops /\ sub.status = "PAUSED"
    /\ Store([sub EXCEPT !.seqno = @ + 1, !.status = "ACTIVE", !.charging = FALSE,
                         !.nextBilling = now + sub.period, !.graceEnd = 0], OpValue)

EmergencyPause ==
    /\ "emergency" \in Ops
    /\ Store([sub EXCEPT !.seqno = @ + 1, !.charging = FALSE, !.paused = ~@], OpValue)

RotateRelayer(k) ==
    /\ "rotate" \in Ops
    /\ Store([sub EXCEPT !.seqno = @ + 1, !.relayerKey = k], OpValue)

\* OP_APPLY_PLAN is only ever sent by the Factory, header bit included.
ApplyPlan(p) ==
    /\ BodyInRef /\ NotCancelled /\ ~sub.charging
    /\ Store([sub EXCEPT !.seqno = @ + 1, !.amount = p.amount, !.period = p.period,
                         !.nextBilling = now + p.period,
                         !.status = IF HasFundsForCharge(sub.deposit, p.amount)
                                    THEN @ ELSE "GRACE"], FACTORY_DEPLOY_GAS)

SetMaxPeriods(n) ==
    /\ NotCancelled
    /\ Store([sub EXCEPT !.seqno = @ + 1, !.maxPeriods = n], OpValue)

OwnerOrSubscriber ==
    \/ CancelTon \/ CancelJetton
    \/ \E v \in TopUps : PlainTransfer(v) \/ TopUp(v)
    \/ PauseSub \/ ResumeSub \/ EmergencyPause
    \/ \E k \in Keys : RotateRelayer(k)
    \/ \E p \in Plans : ApplyPlan(p)
    \/ \E n \in PeriodCaps : SetMaxPeriods(n)

-----------------------------------------------------------------------------
(* What becomes of the contract's own messages.  Bounces of one kind come  *)
(* back in the order the messages were sent.                               *)

Value(m) ==
    CASE m.kind = "payment"               -> m.amount + PAYMENT_GAS
      [] m.kind \in {"fee", "protocolFee"} -> m.amount + FEE_MSG_GAS
      [] OTHER                            -> JETTON_TRANSFER_GAS

\* What a returning message adds to the balance.
Recovered(m) ==
    IF Value(m) > FwdFee + ExecGas THEN Value(m) - FwdFee - ExecGas ELSE 0

Oldest(m) == \A o \in outbox : o.kind = m.kind => o.seqno >= m.seqno

IsPayment(m) == m.kind \in {"payment", "transfer"}

Note(seqnos, m) == IF IsPayment(m) THEN seqnos \cup {m.seqno} ELSE seqnos

\* A TON message reaches its destination.
Landed(m) ==
    /\ m.kind \in {"payment", "fee", "protocolFee"}
    /\ outbox' = outbox \ {m}
    /\ settled' = Note(settled, m)
    /\ UNCHANGED <<sub, balance, jetton, chain, returned, credited>>

Returns(m) ==
    /\ Oldest(m)
    /\ outbox' = outbox \ {m}
    /\ balance' = balance + Recovered(m)
    /\ returned' = Note(returned, m)
    /\ UNCHANGED <<jetton, chain, settled, credited>>

TakenBack(n) == IF n > 0 THEN n - 1 ELSE 0

\* The whole price comes back, its fees included, whatever became of those.
Restored == sub.amount

\* on_charge_bounced: deposit and billing time go back, by the price and the
\* period the storage holds when the bounce arrives, whatever the status.
PaymentBounced(m) ==
    /\ m.kind = "payment" /\ BodyInRef /\ sub.period <= sub.nextBilling
    /\ LET f == OnChargeFailed(sub.retry, sub.graceEnd, now)
       IN  sub' = [sub EXCEPT !.status = f.status, !.charging = FALSE,
                              !.retry = f.retry, !.graceEnd = f.graceEnd,
                              !.nextBilling = @ - sub.period,
                              !.periodsCharged = TakenBack(@),
                              !.deposit = @ + Restored]
    /\ Returns(m)

FeeBounced(m) ==
    /\ m.kind \in {"fee", "protocolFee"} /\ BodyInRef
    /\ sub' = [sub EXCEPT !.deposit = @ + m.amount]
    /\ Returns(m)

\* The jetton wallet takes a transfer it can read and cover.
WalletTakes(m) == BodyInRef /\ tokens >= m.amount

\* The bounced body carries no op (header bit), an op no branch knows (the
\* jetton wallet), or the handler throws: only the value comes back.
BounceUnread(m) ==
    /\ \/ m.kind \in {"payment", "fee", "protocolFee"} /\ ~BodyInRef
       \/ m.kind = "payment" /\ sub.period > sub.nextBilling
       \/ m.kind \in {"transfer", "tokenRefund"} /\ ~WalletTakes(m)
    /\ UNCHANGED sub
    /\ Returns(m)

\* The wallet moves the tokens.  Only a charge sends its excesses back here.
TransferDone(m) ==
    /\ m.kind \in {"transfer", "tokenRefund"} /\ WalletTakes(m)
    /\ outbox' = outbox \ {m}
    /\ tokens' = tokens - m.amount
    /\ excesses' = IF m.kind = "transfer" THEN excesses + 1 ELSE excesses
    /\ settled' = Note(settled, m)
    /\ UNCHANGED <<sub, balance, chain, returned, credited>>

\* OP_JETTON_EXCESSES: seqno moves only if the flag was up.
JettonExcesses ==
    /\ excesses > 0 /\ sub.seqno < MaxSeqno
    /\ excesses' = excesses - 1
    /\ sub' = IF sub.charging THEN [sub EXCEPT !.seqno = @ + 1, !.charging = FALSE] ELSE sub
    /\ UNCHANGED <<balance, outbox, tokens, chain, history>>

\* The subscriber transfers a tokens in.  The dispatcher has consumed the
\* query id already and the handler skips another 64 bits, so the amount it
\* reads, c, has nothing to do with a; zero is refused and nothing credited.
TransferNotification(a, c) ==
    /\ PaymentType = "JETTON" /\ sub.seqno < MaxSeqno /\ tokens < MaxFunds
    /\ tokens' = tokens + a
    /\ sub' = IF c > 0 THEN [sub EXCEPT !.seqno = @ + 1, !.deposit = @ + c] ELSE sub
    /\ credited' = credited + c
    /\ UNCHANGED <<balance, outbox, excesses, chain, settled, returned>>

Network ==
    \/ \E m \in outbox : \/ Landed(m) \/ PaymentBounced(m) \/ FeeBounced(m)
                         \/ BounceUnread(m) \/ TransferDone(m)
    \/ JettonExcesses
    \/ \E a \in TokenAmounts, c \in ParsedAmounts : TransferNotification(a, c)

Next ==
    \/ Tick
    \/ \E k \in Keys : SignCharge(k)
    \/ ExternalMessage
    \/ OwnerOrSubscriber
    \/ Network

Spec == Init /\ [][Next]_vars
-----------------------------------------------------------------------------
(* Fairness: blocks keep coming, and the relayer's poll loop never stops:  *)
(* it reads the getters, signs for a subscription that is due and delivers *)
(* the message.  Nobody else owes the contract a step.                     *)

RelayerSigns == LooksDue /\ SignCharge(sub.relayerKey)

FairSpec == Spec /\ WF_vars(Tick) /\ WF_vars(RelayerSigns) /\ WF_vars(ExternalMessage)

-----------------------------------------------------------------------------
(* Properties.  Each names the code it is about; the README says with      *)
(* which constants each one holds, and why.                                *)

SeqnosOf(msgs) == {m.seqno : m \in {x \in msgs : IsPayment(x)}}

\* Charges whose payment may still count: it arrived, or is under way.
LivePayments == settled \cup SeqnosOf(outbox)

\* Whether a payment that comes back reaches on_charge_bounced.
BouncesRead == BodyInRef /\ PaymentType = "TON"

\* Payments the period count knows of: a bounce that is read leaves it.
CountedPayments == LivePayments \cup IF BouncesRead THEN {} ELSE returned

Sent == outbox' \ outbox

Transfers == {m \in outbox : m.kind = "transfer"}

\* The retry counter and the grace deadline never survive outside a grace
\* window, so the next failure starts a full window and a full set of retries,
\* whatever top-ups, pauses, plan changes and late bounces came between
\* (subscription.tolk OP_TOP_UP, execute_charge, on_charge_failed).
CleanUnlessGrace ==
    sub.status \in {"TRIAL", "ACTIVE", "PAUSED"} => sub.retry = 0 /\ sub.graceEnd = 0

\* However many holders of the key sign, and however pauses, resumes, plan
\* changes and late bounces move the billing time, the subscriber is never
\* billed further than one period (and the tolerance) ahead of block time: a
\* relayer cannot charge twice for one period (SECURITY.md, property 3).
NeverBilledAhead ==
    \/ sub.nextBilling <= FirstBilling
    \/ sub.nextBilling <= now + CHARGE_TOLERANCE_SEC + sub.period

\* The periods counted as charged are exactly the payments that left, through
\* failures, rollbacks, pauses and whatever comes back late.  A payment that
\* comes back is taken from the count only where a bounce handler reads it: with
\* the committed header, and for jettons with either, it stays counted
\* (execute_charge, on_charge_bounced).
PeriodsMatchPayments ==
    sub.periodsCharged = Cardinality(CountedPayments)

\* With the committed header a subscription that is not cancelled holds as
\* deposit what came in from outside less the gross price of every payment that
\* left, once each, whatever fees, failures, pauses and transfers came between:
\* a payment that comes back is lost to the subscriber (execute_charge, the
\* bounce branch of onInternalMessage; see also BounceRestoresDeposit).
LedgerConserved ==
    sub.status # "CANCELLED" =>
        sub.deposit + sub.amount * Cardinality(CountedPayments) = credited

\* While one jetton transfer waits for its confirmation no second one starts
\* (charging_in_progress; SECURITY.md, properties 1 and 5).
OneTransferAtATime ==
    Cardinality(Transfers) + excesses <= 1

\* The deadline a grace window starts with stands until the window is left: no
\* dust top-up, failed retry or late bounce extends it (the OP_TOP_UP comment).
GraceDeadlineFixed ==
    [][ sub.status = "GRACE" /\ sub'.status = "GRACE" /\ sub.graceEnd > 0
            => sub'.graceEnd = sub.graceEnd ]_vars

\* A charge debits the deposit by exactly what it sends out as payment and
\* fees: rounding neither creates nor destroys money (split_fee).
DebitMatchesMessages ==
    [][ SeqnosOf(Sent) # {} =>
          LET part(kind) == LET ms == {m \in Sent : m.kind = kind}
                            IN  IF ms = {} THEN 0 ELSE (CHOOSE m \in ms : TRUE).amount
          IN  sub.deposit - sub'.deposit =
                part(PaymentKind) + part("fee") + part("protocolFee") ]_vars

\* The only way back from CANCELLED is a payment that bounces after the
\* cancellation (on_charge_bounced looks at no status), and no payment leaves a
\* cancelled subscription.
RevivedOnlyByLateBounce ==
    [][ sub.status = "CANCELLED" =>
            /\ Sent = {}
            /\ sub'.status # "CANCELLED" => returned' # returned ]_vars

\* Under the emergency pause nothing leaves the contract: no charge, no
\* refund, and no gas for a rejected charge (require_not_paused comes before
\* acceptExternalMessage).
FrozenWhilePaused ==
    [][ sub.paused => Sent = {} /\ balance' >= balance ]_vars

\* However a TON subscription comes to be cancelled, by a user, at the end of
\* its term, at the end of grace or after the last retry, a deposit worth
\* refunding leaves with it: only the rent reserve stays (send_refund).
CancelReturnsFunds ==
    [][ PaymentType = "TON" /\ RefundDue(sub.deposit)
        /\ NotCancelled /\ sub'.status = "CANCELLED"
            => balance' = STORAGE_RESERVE ]_vars

\* A jetton subscription that is cancelled sends its tokens back too: "automatic
\* refund on expiry" and "CANCELLED -> refund remaining deposit" (README.md).
CancelReturnsTokens ==
    [][ PaymentType = "JETTON" /\ sub.deposit > 0
        /\ NotCancelled /\ sub'.status = "CANCELLED"
            => Outgoing("tokenRefund", sub.deposit) \in Sent ]_vars

\* Whatever a transaction sends, the rent reserve is still there afterwards
\* (SECURITY.md, property 4).
SendsKeepReserve ==
    [][ Sent # {} => balance' >= STORAGE_RESERVE ]_vars

\* A fixed term is never overrun: when a payment leaves, the payments that
\* arrived or are under way, itself included, are within the cap, and neither a
\* plan change nor a bounce makes room for more (SECURITY.md, property 20).
TermNeverOverrun ==
    [][ SeqnosOf(Sent) # {} /\ sub.maxPeriods > 0
            => Cardinality(LivePayments') <= sub.maxPeriods ]_vars

\* A payment that bounces gives the subscriber its deposit back ("Deposit is
\* always restored if a payment message bounces", README.md).
BounceRestoresDeposit ==
    [][ returned' # returned => sub'.deposit > sub.deposit ]_vars

\* Non-payment ends: a subscription in grace that stays short of funds is
\* cancelled, if its balance can pay the gas of the attempts left and still
\* holds something above the reserve for the refund (retry scheduler; the
\* relayer's loop).
NonPaymentEnds ==
    (/\ sub.status = "GRACE" /\ ~Funded
     /\ balance > STORAGE_RESERVE + FwdFee + MAX_RETRY * ExecGas
     /\ sub.seqno + MAX_RETRY <= MaxSeqno + sub.retry)
        ~> (sub.status # "GRACE" \/ Funded)
=============================================================================
