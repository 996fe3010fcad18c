----------------------------- MODULE BillingRules -----------------------------
(***************************************************************************)
(* The pure rules a Subscription contract bills by: the fee split, the     *)
(* affordability and time checks, the retry scheduler.  Each operator is   *)
(* one @inline helper of utils/, core/ or billing/; none reads the chain,  *)
(* so block time is a parameter.                                           *)
(*                                                                         *)
(* Constants carry the names of the source.  The configurations give times *)
(* in seconds, as the code does, and money in units of 0.01 TON (10^7      *)
(* nanotons): every constant the Subscription uses is a multiple of it but *)
(* MIN_REFUND (0.005), which rounds up to 1 and refuses the same whole     *)
(* units.                                                                  *)
(***************************************************************************)
EXTENDS Integers

CONSTANTS
    MAX_RETRY,             \* failed charges before cancellation
    MAX_FEE_BPS,           \* ceiling of a service fee, in basis points
    PROTOCOL_FEE_BPS,      \* the ORBIT cut, compiled into the contract
    STORAGE_RESERVE,       \* balance kept for rent
    CHARGE_GAS_BUDGET,     \* deposit a charge demands on top of the price
    MIN_REFUND,            \* smallest refund worth a message
    CHARGE_TOLERANCE_SEC,  \* how early a charge may be
    EXT_MSG_TTL,           \* age at which a signed message goes stale
    DEFAULT_GRACE_SEC      \* length of the grace window

ASSUME RuleConstants ==
    /\ MAX_RETRY \in Nat \ {0}
    /\ MAX_FEE_BPS \in Nat /\ PROTOCOL_FEE_BPS \in Nat
    /\ MAX_FEE_BPS + PROTOCOL_FEE_BPS <= 10000
    /\ STORAGE_RESERVE \in Nat /\ CHARGE_GAS_BUDGET \in Nat
    /\ MIN_REFUND \in Nat \ {0}
    /\ CHARGE_TOLERANCE_SEC \in Nat /\ EXT_MSG_TTL \in Nat
    /\ DEFAULT_GRACE_SEC \in Nat \ {0}

\* Basis points of an amount, rounded down.
BpsOf(amount, bps) == (amount * bps) \div 10000

-----------------------------------------------------------------------------
(* Slips the rules could hide.  The mutants of PROJECT.json put each in the *)
(* place of the rule it names, to show which property notices.             *)

\* SplitFee: the protocol fee sent on top of the net amount, not out of it.
SplitAddsProtocolFee(gross, feeBps) ==
    [net |-> gross - BpsOf(gross, feeBps), fee |-> BpsOf(gross, feeBps),
     protocolFee |-> BpsOf(gross, PROTOCOL_FEE_BPS)]

\* HasFundsForCharge: the price left out of the sum.
HasFundsForGasOnly(deposit, amount) == deposit >= STORAGE_RESERVE + CHARGE_GAS_BUDGET

\* IsBillingDue: no lower bound on block time.
DueAtOnce(t, nextBilling) == TRUE

\* OnChargeFailed: every failure starts a new window.
FailureRestartsGrace(retry, graceEnd, t) ==
    IF retry + 1 >= MAX_RETRY
    THEN [status |-> "CANCELLED", retry |-> retry + 1, graceEnd |-> 0]
    ELSE [status |-> "GRACE", retry |-> retry + 1, graceEnd |-> t + DEFAULT_GRACE_SEC]

\* OnChargeFailed: cancels one failure too late.
OneTryTooMany(retry, graceEnd, t) ==
    IF retry >= MAX_RETRY
    THEN [status |-> "CANCELLED", retry |-> retry + 1, graceEnd |-> 0]
    ELSE [status |-> "GRACE", retry |-> retry + 1,
          graceEnd |-> IF graceEnd = 0 THEN t + DEFAULT_GRACE_SEC ELSE graceEnd]

-----------------------------------------------------------------------------
\* Both cuts are taken from the gross price; the service gets the rest.
SplitFee(gross, feeBps) ==
    LET fee         == BpsOf(gross, feeBps)
        protocolFee == BpsOf(gross, PROTOCOL_FEE_BPS)
    IN  [net |-> gross - fee - protocolFee, fee |-> fee, protocolFee |-> protocolFee]

HasFundsForCharge(deposit, amount) ==
    deposit >= amount + STORAGE_RESERVE + CHARGE_GAS_BUDGET

IsBillingDue(t, nextBilling) == t >= nextBilling - CHARGE_TOLERANCE_SEC

IsMsgFresh(t, timestamp) == t - timestamp \in 0..EXT_MSG_TTL

GraceExpired(t, graceEnd) == graceEnd > 0 /\ t >= graceEnd

\* What a failed charge makes of (status, retry_count, grace_end_time).
OnChargeFailed(retry, graceEnd, t) ==
    IF retry + 1 >= MAX_RETRY
    THEN [status |-> "CANCELLED", retry |-> retry + 1, graceEnd |-> 0]
    ELSE [status |-> "GRACE", retry |-> retry + 1,
          graceEnd |-> IF graceEnd = 0 THEN t + DEFAULT_GRACE_SEC ELSE graceEnd]

\* send_refund stays silent below the reserve and for dust.
RefundDue(deposit) ==
    deposit > STORAGE_RESERVE /\ deposit - STORAGE_RESERVE >= MIN_REFUND
=============================================================================
