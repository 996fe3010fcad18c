------------------------------- MODULE Factory -------------------------------
(***************************************************************************)
(* A service's Factory: its plans, what it remembers of each subscriber,   *)
(* the analytics and the keeper pool, between the wallets that write to it *)
(* through the wrapper and the Subscriptions it deploys.                   *)
(*                                                                         *)
(* A message of a wallet is read when it arrives: nothing in it depends on *)
(* the Factory, so a late arrival is a late choice.  What the Factory and  *)
(* a Subscription send each other is under way for any time, in order.     *)
(* A message that the handler throws on comes back and changes nothing.    *)
(* The bodies that contracts write are references; a header bit says so or *)
(* not (BodyInRef), and one that does not makes the body unreadable.       *)
(*                                                                         *)
(* Money is counted in units of 0.005 TON.                                 *)
(***************************************************************************)
EXTENDS Naturals, Sequences, FiniteSets

CONSTANTS
    Users,          \* wallets of subscribers
    Service,        \* service_addr
    Collectors,     \* wallets that may be the protocol's fee collector
    Offers,         \* plans the service may add
    Deposits,       \* what a subscriber asks to deposit
    Contributions,  \* what somebody adds to the keeper pool
    BodyInRef,      \* the headers the contracts write say the body is a
                    \* reference; those of the committed code do not
    MaxPlans, MaxTime, MaxOps   \* bounds of the model

STORAGE_RESERVE    == 10
FACTORY_DEPLOY_GAS == 10
FACTORY_RESERVE    == 20
CHARGE_GAS_BUDGET  == 6
KEEPER_REWARD      == 2
FEE_MSG_GAS        == 2
HANDLING_GAS       == 1     \* what OP_FUND_KEEPER_POOL keeps for itself
FirstDeposit       == 30    \* with which a Registry deploys the Factory

\* What one transaction takes from the balance, at most; a deployment also
\* forwards the code of the Subscription.
Gas       == 1
DeployFee == 2

ASSUME FactoryConstants ==
    /\ Service \notin Users /\ Collectors # {}
    /\ Offers \subseteq [price : Nat \ {0}, trial : BOOLEAN]
    /\ Deposits \subseteq Nat /\ Contributions \subseteq Nat
    /\ BodyInRef \in BOOLEAN
    /\ MaxPlans \in Nat \ {0} /\ MaxTime \in Nat /\ MaxOps \in Nat

VARIABLES
    plans, paused, info, keeperPool, totalCharges, totalRevenue, collector,
    balance,    \* of the Factory
    subs,       \* the deployed Subscriptions
    toSub,      \* messages under way to each Subscription subscribed so far
    toFactory,  \* messages under way from it
    now, ops    \* the block time; how much of MaxOps is used

money == <<balance, keeperPool, totalCharges, totalRevenue>>
wires == <<toSub, toFactory>>
vars  == <<plans, paused, info, money, collector, subs, wires, now, ops>>

\* Plan p here is plan_id p - 1 of the code.
PlanIds == 1..MaxPlans
People  == Users \cup {Service} \cup Collectors
TON     == "TON"
JETTON  == "JETTON"

\* The address of a Subscription is the hash of what it starts with.
Address == [user : Users, plan : PlanIds, price : Nat, trial : BOOLEAN,
            payment : {TON, JETTON}, collector : Collectors, born : 0..MaxTime]
Known   == DOMAIN toSub
Price   == {o.price : o \in Offers}

TypeOK ==
    /\ plans \in Seq([price : Price, trial : BOOLEAN, active : BOOLEAN])
    /\ Len(plans) <= MaxPlans
    /\ paused \in BOOLEAN /\ collector \in Collectors
    /\ \A u \in Users : /\ info[u].trialUsed \in BOOLEAN
                        /\ info[u].sub \in {{}} \cup {{a} : a \in Known}
    /\ keeperPool \in Nat /\ totalCharges \in Nat /\ totalRevenue \in Nat
    /\ balance \in Nat
    /\ \A a \in Known : a \in Address
    /\ DOMAIN subs \subseteq Known /\ DOMAIN toFactory = Known
    /\ \A a \in DOMAIN subs : subs[a] \in [plan : PlanIds, price : Price, cancelled : BOOLEAN]
    /\ now \in 0..MaxTime /\ ops \in 0..MaxOps

(***************************************************************************)
(* Plans and trials.                                                       *)
(***************************************************************************)
Planned(o)    == [price |-> o.price, trial |-> o.trial, active |-> TRUE]
ActivePlan(p) == p \in DOMAIN plans /\ plans[p].active

\* Mutated: plan_count is saved without its increment.
PlanAddedOver(o) == [p \in DOMAIN plans \cup {1} |-> IF p = Len(plans) \/ plans = <<>>
                                                      THEN Planned(o) ELSE plans[p]]
PlanAdded(o) == Append(plans, Planned(o))

StartsTrial(p, used) == plans[p].trial /\ ~used
\* Mutated: the mark says whether the latest plan has a trial.
TrialOfLatest(p, used) == plans[p].trial
TrialMarked(p, used) == used \/ StartsTrial(p, used)

\* subscriber_info after a subscription; no subscription is the empty set.
Remembered(u, a, used) == [info EXCEPT ![u] = [sub |-> {a}, trialUsed |-> used]]

\* The storage of a Factory when it is deployed, with the plans of its config.
Init ==
    /\ \E first \in {<<>>} \cup {<<Planned(o)>> : o \in Offers} : plans = first
    /\ paused = FALSE /\ collector \in Collectors
    /\ info = [u \in Users |-> [sub |-> {}, trialUsed |-> FALSE]]
    /\ keeperPool = 0 /\ totalCharges = 0 /\ totalRevenue = 0
    /\ balance = FirstDeposit
    /\ subs = <<>> /\ toSub = <<>> /\ toFactory = <<>>
    /\ now = 0 /\ ops = 0

(***************************************************************************)
(* What the wrapper sends.                                                 *)
(***************************************************************************)
SubscribeMsg(u, p, payment, deposit) ==
    [op |-> "SUBSCRIBE", from |-> u, plan |-> p, payment |-> payment, value |-> deposit + 40]
AddPlanMsg(u, o)        == [op |-> "ADD_PLAN", from |-> u, offer |-> o, value |-> 10]
DeactivatePlanMsg(u, p) == [op |-> "DEACTIVATE_PLAN", from |-> u, plan |-> p, value |-> 10]
ChangePlanMsg(u, p)     == [op |-> "CHANGE_PLAN", from |-> u, plan |-> p, value |-> 20]
FundKeeperPoolMsg(u, c) == [op |-> "FUND_KEEPER_POOL", from |-> u, value |-> c + 2]
PauseMsg(u)             == [op |-> "FACTORY_PAUSE", from |-> u, value |-> 10]
ResumeMsg(u)            == [op |-> "FACTORY_RESUME", from |-> u, value |-> 10]
WithdrawMsg(u)          == [op |-> "FACTORY_WITHDRAW", from |-> u, value |-> 10]
UpdateProtocolCollectorMsg(u, c) ==
    [op |-> "UPDATE_PROTOCOL_COLLECTOR", from |-> u, collector |-> c, value |-> 10]

\* The message's value comes in, its gas and what is sent go out.
Settle(m, out) == balance' = (balance + m.value) - (out + Gas)
Owner(m)       == m.from = Service

(***************************************************************************)
(* The handlers.                                                           *)
(***************************************************************************)
MinValue(p, payment) ==
    STORAGE_RESERVE + FACTORY_DEPLOY_GAS
        + (IF payment = TON THEN plans[p].price + CHARGE_GAS_BUDGET ELSE 0)

BuildSubInit(m, used) ==
    [user |-> m.from, plan |-> m.plan, price |-> plans[m.plan].price,
     trial |-> StartsTrial(m.plan, used), payment |-> m.payment,
     collector |-> collector, born |-> now]

\* The deployment carries the deposit; what is kept of the value pays for it.
Subscribe(m) ==
    /\ ~paused /\ ActivePlan(m.plan) /\ m.value >= MinValue(m.plan, m.payment)
    /\ LET used == info[m.from].trialUsed
           a    == BuildSubInit(m, used)
           sent == IF a \in Known THEN toSub[a] ELSE <<>>
           back == IF a \in Known THEN toFactory[a] ELSE <<>>
       IN  /\ info' = Remembered(m.from, a, TrialMarked(m.plan, used))
           /\ toSub' = [b \in Known \cup {a} |->
                            IF b = a THEN Append(sent, [op |-> "DEPLOY"]) ELSE toSub[b]]
           /\ toFactory' = [b \in Known \cup {a} |-> IF b = a THEN back ELSE toFactory[b]]
    /\ Settle(m, (m.value - FACTORY_DEPLOY_GAS) + DeployFee)
    /\ UNCHANGED <<plans, paused, keeperPool, totalCharges, totalRevenue, collector, subs>>

AddPlan(m) ==
    /\ Owner(m) /\ Len(plans) < MaxPlans
    /\ plans' = PlanAdded(m.offer)
    /\ Settle(m, 0)
    /\ UNCHANGED <<paused, info, keeperPool, totalCharges, totalRevenue, collector, subs, wires>>

DeactivatePlan(m) ==
    /\ Owner(m) /\ m.plan \in DOMAIN plans
    /\ plans' = [plans EXCEPT ![m.plan].active = FALSE]
    /\ Settle(m, 0)
    /\ UNCHANGED <<paused, info, keeperPool, totalCharges, totalRevenue, collector, subs, wires>>

ApplyPlanBody(p) == [op |-> "APPLY_PLAN", plan |-> p, price |-> plans[p].price]

\* The order goes to the recorded address, whatever the subscriber says.
ChangePlan(m) ==
    /\ m.value >= FACTORY_DEPLOY_GAS /\ ActivePlan(m.plan)
    /\ \E a \in info[m.from].sub : toSub' = [toSub EXCEPT ![a] = Append(@, ApplyPlanBody(m.plan))]
    /\ Settle(m, FACTORY_DEPLOY_GAS)
    /\ UNCHANGED <<plans, paused, info, keeperPool, totalCharges, totalRevenue, collector,
                   subs, toFactory>>

FundKeeperPool(m) ==
    /\ m.value > HANDLING_GAS
    /\ keeperPool' = keeperPool + (m.value - HANDLING_GAS)
    /\ Settle(m, 0)
    /\ UNCHANGED <<plans, paused, info, totalCharges, totalRevenue, collector, subs, wires>>

SetPaused(m, p) ==
    /\ Owner(m) /\ paused' = p
    /\ Settle(m, 0)
    /\ UNCHANGED <<plans, info, keeperPool, totalCharges, totalRevenue, collector, subs, wires>>
Pause(m)  == SetPaused(m, TRUE)
Resume(m) == SetPaused(m, FALSE)

UpdateProtocolCollector(m) ==
    /\ m.from = collector /\ collector' = m.collector
    /\ Settle(m, 0)
    /\ UNCHANGED <<plans, paused, info, keeperPool, totalCharges, totalRevenue, subs, wires>>

\* Mutated: the pool goes with the rest.
KeptWithoutPool == FACTORY_RESERVE
\* What a withdrawal leaves.
Kept == FACTORY_RESERVE + keeperPool

\* The test sees the balance before gas; the reserve is made after it.
Withdraw(m) ==
    /\ Owner(m) /\ balance + m.value > Kept
    /\ balance' = IF balance + m.value - Gas >= Kept THEN Kept ELSE balance + m.value - Gas
    /\ UNCHANGED <<plans, paused, info, keeperPool, totalCharges, totalRevenue, collector,
                   subs, wires>>

(***************************************************************************)
(* Subscriptions and their notifications.                                  *)
(***************************************************************************)
Head1(q, a) == [q EXCEPT ![a] = Tail(@)]

\* The first message deploys; a second one to the same address is a deposit.
Deployed(a) ==
    /\ toSub[a] # <<>> /\ Head(toSub[a]).op = "DEPLOY"
    /\ toSub' = Head1(toSub, a)
    /\ subs' = [b \in DOMAIN subs \cup {a} |->
                    IF b = a /\ a \notin DOMAIN subs
                    THEN [plan |-> a.plan, price |-> a.price, cancelled |-> FALSE] ELSE subs[b]]
    /\ UNCHANGED <<plans, paused, info, money, collector, toFactory, now, ops>>

\* A Subscription throws when it is cancelled or cannot read the order, and the
\* message comes back with its value, to be ignored as every bounced message is.
PlanApplied(a) ==
    /\ toSub[a] # <<>> /\ Head(toSub[a]).op = "APPLY_PLAN"
    /\ toSub' = Head1(toSub, a)
    /\ IF subs[a].cancelled \/ ~BodyInRef
         THEN balance' = balance + FACTORY_DEPLOY_GAS - Gas /\ subs' = subs
         ELSE /\ subs' = [subs EXCEPT ![a].plan = Head(toSub[a]).plan,
                                      ![a].price = Head(toSub[a]).price]
              /\ balance' = balance
    /\ UNCHANGED <<plans, paused, info, keeperPool, totalCharges, totalRevenue, collector,
                   toFactory, now, ops>>

\* A charge of a Subscription that is not cancelled reports the gross price.
Charge(a, hasKeeper) ==
    /\ ops < MaxOps /\ ops' = ops + 1
    /\ a \in DOMAIN subs /\ ~subs[a].cancelled
    /\ toFactory' = [toFactory EXCEPT ![a] =
            Append(@, [amount |-> subs[a].price, hasKeeper |-> hasKeeper])]
    /\ UNCHANGED <<plans, paused, info, money, collector, subs, toSub, now>>

Cancel(a) ==
    /\ a \in DOMAIN subs /\ ~subs[a].cancelled
    /\ subs' = [subs EXCEPT ![a].cancelled = TRUE]
    /\ UNCHANGED <<plans, paused, info, money, collector, wires, now, ops>>

\* Mutated: paid without a look at the pool.
RewardAlways(n) == IF n.hasKeeper THEN KEEPER_REWARD ELSE 0
Reward(n) == IF n.hasKeeper /\ keeperPool >= KEEPER_REWARD THEN KEEPER_REWARD ELSE 0

\* Counted when the sender is the Subscription recorded for its subscriber.
ChargeNotification(a) ==
    /\ BodyInRef /\ toFactory[a] # <<>> /\ a \in info[a.user].sub
    /\ LET n == Head(toFactory[a]) IN
         /\ keeperPool' = keeperPool - Reward(n)
         /\ balance' = balance + FEE_MSG_GAS - Gas - Reward(n)
         /\ totalRevenue' = totalRevenue + n.amount
    /\ totalCharges' = totalCharges + 1
    /\ toFactory' = Head1(toFactory, a)
    /\ UNCHANGED <<plans, paused, info, collector, subs, toSub, now, ops>>

\* Otherwise, and when it cannot read the operation, it throws; the notification
\* does not bounce, its value stays.
NotificationRefused(a) ==
    /\ toFactory[a] # <<>> /\ (~BodyInRef \/ a \notin info[a.user].sub)
    /\ toFactory' = Head1(toFactory, a)
    /\ balance' = balance + FEE_MSG_GAS - Gas
    /\ UNCHANGED <<plans, paused, info, keeperPool, totalCharges, totalRevenue, collector,
                   subs, toSub, now, ops>>

Tick == now < MaxTime /\ now' = now + 1 /\ UNCHANGED <<plans, paused, info, money, collector, subs, wires, ops>>

ByUser(u) ==
    \/ \E p \in PlanIds, pay \in {TON, JETTON}, d \in Deposits : Subscribe(SubscribeMsg(u, p, pay, d))
    \/ \E p \in PlanIds : ChangePlan(ChangePlanMsg(u, p))

ByAnyone(w) ==
    \/ \E o \in Offers : AddPlan(AddPlanMsg(w, o))
    \/ \E p \in PlanIds : DeactivatePlan(DeactivatePlanMsg(w, p))
    \/ \E c \in Contributions : FundKeeperPool(FundKeeperPoolMsg(w, c))
    \/ Pause(PauseMsg(w)) \/ Resume(ResumeMsg(w)) \/ Withdraw(WithdrawMsg(w))
    \/ \E c \in Collectors : UpdateProtocolCollector(UpdateProtocolCollectorMsg(w, c))

\* A message of a wallet arrives.
Receive ==
    /\ ops < MaxOps /\ ops' = ops + 1 /\ now' = now
    /\ (\E u \in Users : ByUser(u)) \/ (\E w \in People : ByAnyone(w))

OfSubscription(a) ==
    \/ Deployed(a) \/ PlanApplied(a) \/ Cancel(a)
    \/ \E k \in BOOLEAN : Charge(a, k)
    \/ ChargeNotification(a) \/ NotificationRefused(a)

Next == Receive \/ Tick \/ \E a \in Known : OfSubscription(a)

Spec == Init /\ [][Next]_vars

(***************************************************************************)
(* Properties.                                                             *)
(***************************************************************************)
\* No subscriber is given a second trial, however often they subscribe, change
\* their mind about plans or cancel in between (should_start_trial).
TrialOnce ==
    \A a, b \in Known : a.trial /\ b.trial /\ a.user = b.user => a = b

\* The Factory can always pay what the keeper pool promises: no withdrawal, no
\* reward and no plan change at the wrapper's value takes it
\* (OP_FACTORY_WITHDRAW, OP_CHARGE_NOTIFICATION).
PoolCovered == balance >= keeperPool

\* Every Subscription, also one a change of plan is still on its way to, has the
\* price its plan was added with: a plan id never comes to mean another plan.
PriceIsThePlans ==
    /\ \A a \in DOMAIN subs : subs[a].price = plans[subs[a].plan].price
    /\ \A a \in Known : a.price = plans[a.plan].price
    /\ \A a \in Known : \A i \in DOMAIN toSub[a] :
         toSub[a][i].op = "APPLY_PLAN" => toSub[a][i].price = plans[toSub[a][i].plan].price
=============================================================================
