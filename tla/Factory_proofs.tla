--------------------------- MODULE Factory_proofs ---------------------------
(***************************************************************************)
(* What holds of Factory for every value of its constants: types, one      *)
(* trial per subscriber, the keeper pool's cover, and the meaning of a     *)
(* plan id along the messages that carry it, whether or not the contracts  *)
(* can read what they send each other.                                     *)
(***************************************************************************)
EXTENDS Factory, SequenceTheorems, TLAPS

Plan         == [price : Price, trial : BOOLEAN, active : BOOLEAN]
ToSubMsg     == [op : {"DEPLOY"}] \cup [op : {"APPLY_PLAN"}, plan : PlanIds, price : Price]
Notification == [amount : Price, hasKeeper : BOOLEAN]
SubState     == [plan : PlanIds, price : Price, cancelled : BOOLEAN]

\* The money: of types, and the pool covered by the balance.
MoneyInv ==
    /\ keeperPool \in Nat /\ totalCharges \in Nat /\ totalRevenue \in Nat /\ balance \in Nat
    /\ PoolCovered

\* The types of everything but the money; functions are said to be functions.
Shapes ==
    /\ plans \in Seq(Plan) /\ Len(plans) <= MaxPlans
    /\ paused \in BOOLEAN /\ collector \in Collectors
    /\ info \in [Users -> [sub : SUBSET Known, trialUsed : BOOLEAN]]
    /\ Known \subseteq Address
    /\ toSub \in [Known -> Seq(ToSubMsg)]
    /\ toFactory \in [Known -> Seq(Notification)]
    /\ DOMAIN subs \subseteq Known /\ subs \in [DOMAIN subs -> SubState]
    /\ now \in 0..MaxTime /\ ops \in 0..MaxOps

\* Each Subscription's subscriber has a record, of one Subscription of theirs.
RecordsOwn ==
    /\ \A u \in Users : info[u].sub \in {{}} \cup {{a} : a \in Known}
    /\ \A u \in Users : \A a \in info[u].sub : a.user = u
    /\ \A a \in Known : info[a.user].sub # {}

\* What is not deployed yet has its deployment as the next message: an order
\* to apply a plan never overtakes it.
DeployFirst ==
    \A a \in Known \ DOMAIN subs : toSub[a] # <<>> /\ Head(toSub[a]).op = "DEPLOY"

\* A plan id that anybody holds is one of a plan that was added.
PlansKnown ==
    /\ \A a \in Known : a.plan \in DOMAIN plans
    /\ \A a \in DOMAIN subs : subs[a].plan \in DOMAIN plans
    /\ \A a \in Known : \A i \in DOMAIN toSub[a] :
         toSub[a][i].op = "APPLY_PLAN" => toSub[a][i].plan \in DOMAIN plans

\* A trial that was given is marked.
TrialMarks == \A a \in Known : a.trial => info[a.user].trialUsed

BookInv ==
    /\ Shapes /\ RecordsOwn /\ DeployFirst /\ PlansKnown /\ TrialMarks
    /\ TrialOnce /\ PriceIsThePlans

FactoryInv == MoneyInv /\ BookInv

\* All that BookInv speaks of.
books == <<plans, info, subs, toSub, toFactory>>

LEMMA ConstantTypes ==
    /\ Service \notin Users
    /\ Offers \subseteq [price : Nat \ {0}, trial : BOOLEAN]
    /\ Deposits \subseteq Nat /\ Contributions \subseteq Nat
    /\ MaxPlans \in Nat \ {0} /\ MaxTime \in Nat /\ MaxOps \in Nat
    /\ STORAGE_RESERVE = 10 /\ FACTORY_DEPLOY_GAS = 10 /\ FACTORY_RESERVE = 20
    /\ CHARGE_GAS_BUDGET = 6 /\ KEEPER_REWARD = 2 /\ FEE_MSG_GAS = 2
    /\ HANDLING_GAS = 1 /\ FirstDeposit = 30 /\ Gas = 1 /\ DeployFee = 2
    /\ Price \subseteq Nat \ {0}
  BY FactoryConstants
  DEF STORAGE_RESERVE, FACTORY_DEPLOY_GAS, FACTORY_RESERVE, CHARGE_GAS_BUDGET, KEEPER_REWARD,
      FEE_MSG_GAS, HANDLING_GAS, FirstDeposit, Gas, DeployFee, Price

-----------------------------------------------------------------------------
(* Sequences.                                                              *)

\* What is appended is last, and nothing before it moves.
LEMMA Appended ==
    ASSUME NEW S, NEW q \in Seq(S), NEW x \in S
    PROVE  /\ Append(q, x) \in Seq(S) /\ Append(q, x) # <<>>
           /\ Len(Append(q, x)) = Len(q) + 1
           /\ DOMAIN Append(q, x) = 1..(Len(q) + 1)
           /\ \A i \in DOMAIN q : Append(q, x)[i] = q[i]
           /\ Append(q, x)[Len(q) + 1] = x
           /\ q # <<>> => Head(Append(q, x)) = Head(q)
           /\ q = <<>> => Head(Append(q, x)) = x
<1>1. Append(q, x) \in Seq(S) /\ Len(Append(q, x)) = Len(q) + 1 /\ Len(q) \in Nat
  OBVIOUS
<1>2. DOMAIN Append(q, x) = 1..(Len(q) + 1) /\ DOMAIN q = 1..Len(q)
  BY <1>1
<1>3. \A i \in DOMAIN q : Append(q, x)[i] = q[i]
  OBVIOUS
<1>4. Append(q, x)[Len(q) + 1] = x
  OBVIOUS
<1>5. Append(q, x) # <<>>
  BY <1>1
<1>6. Head(Append(q, x)) = Append(q, x)[1]
  BY <1>1, <1>5
<1>7. CASE q # <<>>
  <2>1. 1 \in DOMAIN q /\ Head(q) = q[1]
    BY <1>7
  <2> QED BY <1>1, <1>2, <1>3, <1>4, <1>5, <1>6, <2>1, <1>7
<1>8. CASE q = <<>>
  <2>1. Len(q) = 0
    BY <1>8
  <2> QED BY <1>1, <1>2, <1>3, <1>4, <1>5, <1>6, <2>1, <1>8
<1> QED BY <1>7, <1>8

\* The rest of a queue holds nothing new.
LEMMA Rest ==
    ASSUME NEW S, NEW q \in Seq(S), q # <<>>
    PROVE  /\ Tail(q) \in Seq(S)
           /\ Head(q) \in S /\ Head(q) = q[1] /\ 1 \in DOMAIN q
           /\ \A i \in DOMAIN Tail(q) : i + 1 \in DOMAIN q /\ Tail(q)[i] = q[i + 1]
  OBVIOUS

\* An element is replaced by another of its kind.
LEMMA Replaced ==
    ASSUME NEW S, NEW q \in Seq(S), NEW i \in DOMAIN q, NEW x \in S
    PROVE  [q EXCEPT ![i] = x] \in Seq(S) /\ Len([q EXCEPT ![i] = x]) = Len(q)
<1>1. i \in 1..Len(q)
  OBVIOUS
<1> QED BY <1>1, ExceptSeq

-----------------------------------------------------------------------------
(* Steps that leave one half of the invariant alone.                       *)

\* Nothing that BookInv speaks of changes.
LEMMA BooksStay ==
    ASSUME BookInv, UNCHANGED books,
           paused' \in BOOLEAN, collector' \in Collectors,
           now' \in 0..MaxTime, ops' \in 0..MaxOps
    PROVE  BookInv'
<1>1. Known' = Known
  BY DEF books, Known
<1>2. Shapes'
  BY <1>1 DEF BookInv, Shapes, books
<1>3. RecordsOwn' /\ DeployFirst'
  BY <1>1 DEF BookInv, RecordsOwn, DeployFirst, books
<1>4. PlansKnown' /\ TrialMarks' /\ TrialOnce' /\ PriceIsThePlans'
  BY <1>1 DEF BookInv, PlansKnown, TrialMarks, TrialOnce, PriceIsThePlans, books
<1> QED BY <1>2, <1>3, <1>4 DEF BookInv

\* A message that pays for its gas and for what it sends on lowers no cover.
LEMMA Settled ==
    ASSUME MoneyInv, NEW m, NEW out \in Nat, m.value \in Nat, m.value >= out + Gas,
           Settle(m, out), UNCHANGED <<keeperPool, totalCharges, totalRevenue>>
    PROVE  MoneyInv'
<1>1. balance' = (balance + m.value) - (out + 1)
  BY ConstantTypes DEF Settle
<1> QED BY <1>1, ConstantTypes DEF MoneyInv, PoolCovered

\* Plans are added at the end and keep their prices.
LEMMA PlansGrow ==
    ASSUME BookInv,
           plans' \in Seq(Plan), Len(plans') <= MaxPlans,
           \A p \in DOMAIN plans : p \in DOMAIN plans' /\ plans'[p].price = plans[p].price,
           UNCHANGED <<paused, collector, info, subs, toSub, toFactory, now>>,
           ops' \in 0..MaxOps
    PROVE  BookInv'
<1>1. Known' = Known
  BY DEF Known
<1>2. Shapes'
  BY <1>1 DEF BookInv, Shapes
<1>3. RecordsOwn' /\ DeployFirst' /\ TrialMarks' /\ TrialOnce'
  BY <1>1 DEF BookInv, RecordsOwn, DeployFirst, TrialMarks, TrialOnce
<1>4. PlansKnown'
  BY <1>1 DEF BookInv, PlansKnown
<1>5. PriceIsThePlans'
  BY <1>1 DEF BookInv, PlansKnown, PriceIsThePlans
<1> QED BY <1>2, <1>3, <1>4, <1>5 DEF BookInv

-----------------------------------------------------------------------------
(* The wallets' messages.                                                  *)

\* A message arrives: the time stands, and a use of the bound is spent.
Arrival == ops < MaxOps /\ ops' = ops + 1 /\ now' = now

LEMMA ArrivalTypes ==
    ASSUME BookInv, Arrival
    PROVE  /\ now' \in 0..MaxTime /\ ops' \in 0..MaxOps
           /\ paused \in BOOLEAN /\ collector \in Collectors
  BY ConstantTypes DEF BookInv, Shapes, Arrival

LEMMA AddPlanInv ==
    ASSUME FactoryInv, Arrival, NEW w, NEW o \in Offers, AddPlan(AddPlanMsg(w, o))
    PROVE  FactoryInv'
<1> DEFINE m == AddPlanMsg(w, o)
<1>1. m.value = 10 /\ m.offer = o
  BY DEF AddPlanMsg
<1>2. MoneyInv'
  BY <1>1, Settled, ConstantTypes DEF AddPlan, FactoryInv
<1>3. plans' = Append(plans, Planned(o)) /\ plans \in Seq(Plan) /\ Len(plans) < MaxPlans
  BY <1>1 DEF AddPlan, PlanAdded, FactoryInv, BookInv, Shapes
<1>4. Planned(o) \in Plan
  BY ConstantTypes DEF Planned, Plan, Price
<1>5. plans' \in Seq(Plan) /\ Len(plans') <= MaxPlans
  BY <1>3, <1>4, ConstantTypes
<1>6. \A p \in DOMAIN plans : p \in DOMAIN plans' /\ plans'[p].price = plans[p].price
  BY <1>3, <1>4, Appended
<1>7. BookInv'
  BY <1>5, <1>6, ArrivalTypes, PlansGrow DEF AddPlan, FactoryInv, wires, Arrival
<1> QED BY <1>2, <1>7 DEF FactoryInv

LEMMA DeactivatePlanInv ==
    ASSUME FactoryInv, Arrival, NEW w, NEW p \in PlanIds, DeactivatePlan(DeactivatePlanMsg(w, p))
    PROVE  FactoryInv'
<1> DEFINE m == DeactivatePlanMsg(w, p)
<1>1. m.value = 10 /\ m.plan = p
  BY DEF DeactivatePlanMsg
<1>2. MoneyInv'
  BY <1>1, Settled, ConstantTypes DEF DeactivatePlan, FactoryInv
<1>3. /\ plans' = [plans EXCEPT ![p].active = FALSE] /\ p \in DOMAIN plans
      /\ plans \in Seq(Plan) /\ Len(plans) <= MaxPlans
  BY <1>1 DEF DeactivatePlan, FactoryInv, BookInv, Shapes
<1>4. \A q \in DOMAIN plans : plans[q] \in Plan
  BY <1>3
<1>5. plans' \in Seq(Plan) /\ Len(plans') = Len(plans)
  <2> DEFINE off == [plans[p] EXCEPT !.active = FALSE]
  <2>1. off \in Plan
    BY <1>3, <1>4 DEF Plan
  <2>2. plans' = [plans EXCEPT ![p] = off]
    BY <1>3
  <2> HIDE DEF off
  <2>3. plans \in Seq(Plan) /\ p \in DOMAIN plans
    BY <1>3
  <2>4. [plans EXCEPT ![p] = off] \in Seq(Plan) /\ Len([plans EXCEPT ![p] = off]) = Len(plans)
    BY <2>1, <2>3, Replaced
  <2> QED BY <2>2, <2>4
<1>6. \A q \in DOMAIN plans : q \in DOMAIN plans' /\ plans'[q].price = plans[q].price
  BY <1>3, <1>4 DEF Plan
<1>7. BookInv'
  BY <1>3, <1>5, <1>6, ArrivalTypes, PlansGrow DEF DeactivatePlan, FactoryInv, wires, Arrival
<1> QED BY <1>2, <1>7 DEF FactoryInv

\* What is added to the pool is added to the balance.
LEMMA FundKeeperPoolInv ==
    ASSUME FactoryInv, Arrival, NEW w, NEW c \in Contributions,
           FundKeeperPool(FundKeeperPoolMsg(w, c))
    PROVE  FactoryInv'
<1>1. FundKeeperPoolMsg(w, c).value = c + 2 /\ c \in Nat
  BY ConstantTypes DEF FundKeeperPoolMsg
<1>2. MoneyInv'
  BY <1>1, ConstantTypes DEF FundKeeperPool, Settle, FactoryInv, MoneyInv, PoolCovered
<1>3. BookInv'
  BY ArrivalTypes, BooksStay DEF FundKeeperPool, FactoryInv, wires, books
<1> QED BY <1>2, <1>3 DEF FactoryInv

LEMMA SetPausedInv ==
    ASSUME FactoryInv, Arrival, NEW m, m.value = 10, NEW p \in BOOLEAN, SetPaused(m, p)
    PROVE  FactoryInv'
<1>1. MoneyInv'
  BY Settled, ConstantTypes DEF SetPaused, FactoryInv
<1>2. BookInv'
  BY ArrivalTypes, BooksStay DEF SetPaused, FactoryInv, wires, books
<1> QED BY <1>1, <1>2 DEF FactoryInv

LEMMA UpdateProtocolCollectorInv ==
    ASSUME FactoryInv, Arrival, NEW w, NEW c \in Collectors,
           UpdateProtocolCollector(UpdateProtocolCollectorMsg(w, c))
    PROVE  FactoryInv'
<1> DEFINE m == UpdateProtocolCollectorMsg(w, c)
<1>1. m.value = 10 /\ m.collector = c
  BY DEF UpdateProtocolCollectorMsg
<1>2. MoneyInv'
  BY <1>1, Settled, ConstantTypes DEF UpdateProtocolCollector, FactoryInv
<1>3. BookInv'
  BY <1>1, ArrivalTypes, BooksStay DEF UpdateProtocolCollector, FactoryInv, wires, books
<1> QED BY <1>2, <1>3 DEF FactoryInv

\* What a withdrawal leaves is the reserve and the pool, or all there was.
LEMMA WithdrawInv ==
    ASSUME FactoryInv, Arrival, NEW w, Withdraw(WithdrawMsg(w))
    PROVE  FactoryInv'
<1>1. WithdrawMsg(w).value = 10
  BY DEF WithdrawMsg
<1>2. MoneyInv'
  BY <1>1, ConstantTypes DEF Withdraw, Kept, FactoryInv, MoneyInv, PoolCovered
<1>3. BookInv'
  BY ArrivalTypes, BooksStay DEF Withdraw, FactoryInv, wires, books
<1> QED BY <1>2, <1>3 DEF FactoryInv

-----------------------------------------------------------------------------
(* Subscribing.                                                            *)

\* The address of the new Subscription, and what its two queues hold before.
LEMMA SubscribedTo ==
    ASSUME BookInv, NEW u \in Users, NEW p \in PlanIds, NEW pay \in {TON, JETTON}, NEW d,
           ActivePlan(p)
    PROVE  LET used == info[u].trialUsed
               a    == BuildSubInit(SubscribeMsg(u, p, pay, d), used)
           IN  /\ a \in Address /\ a.user = u /\ a.plan = p
               /\ a.plan \in DOMAIN plans /\ a.price = plans[p].price
               /\ a.trial = StartsTrial(p, used) /\ used \in BOOLEAN
<1> DEFINE used == info[u].trialUsed
           a    == BuildSubInit(SubscribeMsg(u, p, pay, d), used)
<1>1. p \in DOMAIN plans /\ plans[p] \in Plan
  BY DEF ActivePlan, BookInv, Shapes
<1>2. plans[p].price \in Nat /\ plans[p].trial \in BOOLEAN
  BY <1>1, ConstantTypes DEF Plan
<1>3. used \in BOOLEAN
  BY DEF BookInv, Shapes
<1>4. /\ a.user = u /\ a.plan = p /\ a.price = plans[p].price
      /\ a.trial = StartsTrial(p, used)
  BY DEF BuildSubInit, SubscribeMsg
<1>5. a \in Address
  BY <1>2, <1>3 DEF BuildSubInit, SubscribeMsg, Address, StartsTrial, BookInv, Shapes
<1> QED BY <1>1, <1>3, <1>4, <1>5

LEMMA SubscribeInv ==
    ASSUME FactoryInv, Arrival, NEW u \in Users, NEW p \in PlanIds, NEW pay \in {TON, JETTON},
           NEW d \in Deposits, Subscribe(SubscribeMsg(u, p, pay, d))
    PROVE  FactoryInv'
<1> DEFINE m    == SubscribeMsg(u, p, pay, d)
           used == info[u].trialUsed
           a    == BuildSubInit(m, used)
           sent == IF a \in Known THEN toSub[a] ELSE <<>>
           back == IF a \in Known THEN toFactory[a] ELSE <<>>
           now1 == TrialMarked(p, used)
           dep  == [op |-> "DEPLOY"]
<1>0. BookInv /\ MoneyInv
  BY DEF FactoryInv
<1>1. m.from = u /\ m.plan = p /\ m.value = d + 40 /\ d \in Nat
  BY ConstantTypes DEF SubscribeMsg
<1>2. /\ ActivePlan(p)
      /\ info' = [info EXCEPT ![u] = [sub |-> {a}, trialUsed |-> now1]]
      /\ toSub' = [b \in Known \cup {a} |-> IF b = a THEN Append(sent, dep) ELSE toSub[b]]
      /\ toFactory' = [b \in Known \cup {a} |-> IF b = a THEN back ELSE toFactory[b]]
      /\ Settle(m, (m.value - FACTORY_DEPLOY_GAS) + DeployFee)
      /\ UNCHANGED <<plans, paused, keeperPool, totalCharges, totalRevenue, collector, subs>>
  BY <1>1 DEF Subscribe, Remembered
<1>3. /\ a \in Address /\ a.user = u /\ a.plan = p /\ p \in DOMAIN plans
      /\ a.price = plans[p].price /\ a.trial = StartsTrial(p, used) /\ used \in BOOLEAN
  BY <1>0, <1>2, SubscribedTo
<1> HIDE DEF a
<1>4. MoneyInv'
  <2>1. (m.value - FACTORY_DEPLOY_GAS) + DeployFee = d + 32
    BY <1>1, ConstantTypes
  <2> QED BY <1>0, <1>1, <1>2, <2>1, ConstantTypes, Settled
<1>5. Known' = Known \cup {a}
  BY <1>2 DEF Known
<1>6. dep \in ToSubMsg /\ sent \in Seq(ToSubMsg) /\ back \in Seq(Notification)
  BY <1>0 DEF ToSubMsg, BookInv, Shapes
<1>7. /\ toSub'[a] = Append(sent, dep) /\ toSub'[a] \in Seq(ToSubMsg)
      /\ toFactory'[a] = back
      /\ \A b \in Known \ {a} : toSub'[b] = toSub[b] /\ toFactory'[b] = toFactory[b]
      /\ \A b \in Known \cup {a} : toSub'[b] \in Seq(ToSubMsg)
      /\ \A b \in Known \cup {a} : toFactory'[b] \in Seq(Notification)
  BY <1>0, <1>2, <1>6, Appended DEF BookInv, Shapes
<1>8. /\ info'[u] = [sub |-> {a}, trialUsed |-> now1]
      /\ \A v \in Users \ {u} : info'[v] = info[v]
      /\ now1 \in BOOLEAN /\ now1 = (used \/ StartsTrial(p, used))
  BY <1>0, <1>2, <1>3 DEF BookInv, Shapes, TrialMarked, StartsTrial
<1>9. Shapes'
  <2>1. info' \in [Users -> [sub : SUBSET Known', trialUsed : BOOLEAN]]
    BY <1>0, <1>2, <1>5, <1>8 DEF BookInv, Shapes
  <2>2. toSub' \in [Known' -> Seq(ToSubMsg)] /\ toFactory' \in [Known' -> Seq(Notification)]
    BY <1>2, <1>5, <1>7
  <2> QED BY <1>0, <1>2, <1>3, <1>5, <2>1, <2>2, ArrivalTypes DEF BookInv, Shapes
<1>10. RecordsOwn'
  <2>1. \A v \in Users : info'[v].sub \in {{}} \cup {{b} : b \in Known'}
    BY <1>0, <1>5, <1>8 DEF BookInv, RecordsOwn
  <2>2. \A v \in Users : \A b \in info'[v].sub : b.user = v
    BY <1>0, <1>3, <1>8 DEF BookInv, RecordsOwn
  <2>3. \A b \in Known' : b.user \in Users
    BY <1>0, <1>3, <1>5 DEF BookInv, Shapes, Address
  <2>4. \A b \in Known' : info'[b.user].sub # {}
    BY <1>0, <1>3, <1>5, <1>8, <2>3 DEF BookInv, RecordsOwn
  <2> QED BY <2>1, <2>2, <2>4 DEF RecordsOwn
<1>11. DeployFirst'
  <2> SUFFICES ASSUME NEW b \in Known' \ DOMAIN subs'
               PROVE  toSub'[b] # <<>> /\ Head(toSub'[b]).op = "DEPLOY"
    BY DEF DeployFirst
  <2>1. CASE b # a
    BY <1>0, <1>2, <1>5, <1>7, <2>1 DEF BookInv, DeployFirst
  <2>2. CASE b = a /\ a \in Known
    <3>1. sent = toSub[a] /\ sent # <<>> /\ Head(sent).op = "DEPLOY"
      BY <1>0, <1>2, <2>2 DEF BookInv, DeployFirst
    <3> QED BY <1>6, <1>7, <2>2, <3>1, Appended
  <2>3. CASE b = a /\ a \notin Known
    <3>1. sent = <<>> /\ dep.op = "DEPLOY"
      BY <2>3
    <3> QED BY <1>6, <1>7, <2>3, <3>1, Appended
  <2> QED BY <2>1, <2>2, <2>3
<1>12. \A i \in DOMAIN toSub'[a] :
         toSub'[a][i].op = "APPLY_PLAN" => a \in Known /\ i \in DOMAIN toSub[a] /\ toSub'[a][i] = toSub[a][i]
  <2> TAKE i \in DOMAIN toSub'[a]
  <2>1. i \in 1..(Len(sent) + 1)
    BY <1>6, <1>7, Appended
  <2>2. CASE i \in DOMAIN sent
    BY <1>6, <1>7, <2>2, Appended
  <2>3. CASE i = Len(sent) + 1
    BY <1>6, <1>7, <2>3, Appended
  <2> QED BY <1>6, <2>1, <2>2, <2>3
<1>13. PlansKnown'
  BY <1>0, <1>2, <1>3, <1>5, <1>7, <1>12 DEF BookInv, PlansKnown
<1>14. TrialMarks'
  <2>1. \A b \in Known' : b.user \in Users
    BY <1>0, <1>3, <1>5 DEF BookInv, Shapes, Address
  <2> SUFFICES ASSUME NEW b \in Known', b.trial PROVE info'[b.user].trialUsed
    BY DEF TrialMarks
  <2>2. info'[u].trialUsed = now1
    BY <1>8
  <2>3. CASE b = a
    <3>1. now1
      BY <1>3, <1>8, <2>3
    <3> QED BY <1>3, <2>2, <2>3, <3>1
  <2>4. CASE b \in Known /\ b.user = u
    <3>1. used
      BY <1>0, <2>4 DEF BookInv, TrialMarks
    <3>2. now1
      BY <1>8, <3>1
    <3> QED BY <2>2, <2>4, <3>2
  <2>5. CASE b \in Known /\ b.user # u
    BY <1>0, <1>8, <2>1, <2>5 DEF BookInv, TrialMarks
  <2> QED BY <1>5, <2>3, <2>4, <2>5
<1>15. TrialOnce'
  <2>1. \A b \in Known : b.trial /\ a.trial => b.user # u
    BY <1>0, <1>3 DEF BookInv, TrialMarks, StartsTrial
  <2> QED BY <1>0, <1>3, <1>5, <2>1 DEF BookInv, TrialOnce
<1>16. PriceIsThePlans'
  BY <1>0, <1>2, <1>3, <1>5, <1>7, <1>12 DEF BookInv, PriceIsThePlans
<1> QED BY <1>4, <1>9, <1>10, <1>11, <1>13, <1>14, <1>15, <1>16 DEF FactoryInv, BookInv

-----------------------------------------------------------------------------
(* Changing the plan.                                                      *)

LEMMA ChangePlanInv ==
    ASSUME FactoryInv, Arrival, NEW u \in Users, NEW p \in PlanIds,
           ChangePlan(ChangePlanMsg(u, p))
    PROVE  FactoryInv'
<1> DEFINE m == ChangePlanMsg(u, p)
           x == ApplyPlanBody(p)
<1>0. BookInv /\ MoneyInv
  BY DEF FactoryInv
<1>1. m.from = u /\ m.plan = p /\ m.value = 20
  BY DEF ChangePlanMsg
<1>2. PICK a \in info[u].sub : toSub' = [toSub EXCEPT ![a] = Append(@, x)]
  BY <1>1 DEF ChangePlan
<1>3. /\ ActivePlan(p) /\ Settle(m, FACTORY_DEPLOY_GAS)
      /\ UNCHANGED <<plans, paused, info, keeperPool, totalCharges, totalRevenue, collector,
                     subs, toFactory>>
  BY <1>1 DEF ChangePlan
<1>4. MoneyInv'
  BY <1>0, <1>1, <1>3, Settled, ConstantTypes
<1>5. a \in Known
  BY <1>0 DEF BookInv, Shapes
<1>6. /\ p \in DOMAIN plans /\ x \in ToSubMsg /\ x.op = "APPLY_PLAN"
      /\ x.plan = p /\ x.price = plans[p].price
  <2>1. p \in DOMAIN plans /\ plans[p] \in Plan
    BY <1>0, <1>3 DEF ActivePlan, BookInv, Shapes
  <2> QED BY <2>1 DEF ApplyPlanBody, ToSubMsg, Plan
<1> HIDE DEF x
<1>7. /\ Known' = Known
      /\ toSub' \in [Known -> Seq(ToSubMsg)]
      /\ toSub[a] \in Seq(ToSubMsg) /\ toSub'[a] = Append(toSub[a], x)
      /\ \A b \in Known \ {a} : toSub'[b] = toSub[b]
  <2>1. toSub \in [Known -> Seq(ToSubMsg)]
    BY <1>0 DEF BookInv, Shapes
  <2>2. toSub[a] \in Seq(ToSubMsg) /\ Append(toSub[a], x) \in Seq(ToSubMsg)
    BY <1>5, <1>6, <2>1, Appended
  <2> QED BY <1>2, <1>5, <2>1, <2>2 DEF Known
<1>8. \A i \in DOMAIN toSub'[a] : \/ i \in DOMAIN toSub[a] /\ toSub'[a][i] = toSub[a][i]
                                  \/ toSub'[a][i] = x
  <2> TAKE i \in DOMAIN toSub'[a]
  <2>1. i \in 1..(Len(toSub[a]) + 1)
    BY <1>6, <1>7, Appended
  <2>2. CASE i \in DOMAIN toSub[a]
    BY <1>6, <1>7, <2>2, Appended
  <2>3. CASE i = Len(toSub[a]) + 1
    BY <1>6, <1>7, <2>3, Appended
  <2> QED BY <1>7, <2>1, <2>2, <2>3
<1>9. Shapes'
  BY <1>0, <1>3, <1>7, ArrivalTypes DEF BookInv, Shapes
<1>10. RecordsOwn' /\ TrialMarks' /\ TrialOnce'
  BY <1>0, <1>3, <1>7 DEF BookInv, RecordsOwn, TrialMarks, TrialOnce
<1>11. DeployFirst'
  <2> SUFFICES ASSUME NEW b \in Known \ DOMAIN subs
               PROVE  toSub'[b] # <<>> /\ Head(toSub'[b]).op = "DEPLOY"
    BY <1>3, <1>7 DEF DeployFirst
  <2>1. toSub[b] # <<>> /\ Head(toSub[b]).op = "DEPLOY"
    BY <1>0 DEF BookInv, DeployFirst
  <2>2. CASE b # a
    BY <1>7, <2>1, <2>2
  <2>3. CASE b = a
    <3>1. Append(toSub[a], x) # <<>> /\ Head(Append(toSub[a], x)) = Head(toSub[a])
      BY <1>6, <1>7, <2>1, <2>3, Appended
    <3> QED BY <1>7, <2>1, <2>3, <3>1
  <2> QED BY <2>2, <2>3
<1>12. \A b \in Known : \A i \in DOMAIN toSub'[b] :
         toSub'[b][i].op = "APPLY_PLAN" =>
           /\ toSub'[b][i].plan \in DOMAIN plans
           /\ toSub'[b][i].price = plans[toSub'[b][i].plan].price
  <2> TAKE b \in Known
  <2> TAKE i \in DOMAIN toSub'[b]
  <2>1. CASE b = a
    BY <1>0, <1>5, <1>6, <1>8, <2>1 DEF BookInv, PlansKnown, PriceIsThePlans
  <2>2. CASE b # a
    BY <1>0, <1>7, <2>2 DEF BookInv, PlansKnown, PriceIsThePlans
  <2> QED BY <2>1, <2>2
<1>13. PlansKnown'
  BY <1>0, <1>3, <1>7, <1>12 DEF BookInv, PlansKnown
<1>14. PriceIsThePlans'
  BY <1>0, <1>3, <1>7, <1>12 DEF BookInv, PriceIsThePlans
<1> QED BY <1>4, <1>9, <1>10, <1>11, <1>13, <1>14 DEF FactoryInv, BookInv

-----------------------------------------------------------------------------
(* What a Subscription does and is told.                                   *)

\* Taking a message out of a queue brings none in.
LEMMA Delivered ==
    ASSUME BookInv, NEW a \in Known, toSub[a] # <<>>, toSub' = Head1(toSub, a)
    PROVE  /\ Known' = Known
           /\ toSub' \in [Known -> Seq(ToSubMsg)]
           /\ \A b \in Known \ {a} : toSub'[b] = toSub[b]
           /\ \A b \in Known : \A i \in DOMAIN toSub'[b] :
                \E j \in DOMAIN toSub[b] : toSub'[b][i] = toSub[b][j]
           /\ 1 \in DOMAIN toSub[a] /\ Head(toSub[a]) = toSub[a][1]
           /\ Head(toSub[a]) \in ToSubMsg
<1>1. toSub \in [Known -> Seq(ToSubMsg)]
  BY DEF BookInv, Shapes
<1>2. /\ toSub[a] \in Seq(ToSubMsg) /\ Tail(toSub[a]) \in Seq(ToSubMsg)
      /\ \A i \in DOMAIN Tail(toSub[a]) :
            i + 1 \in DOMAIN toSub[a] /\ Tail(toSub[a])[i] = toSub[a][i + 1]
      /\ 1 \in DOMAIN toSub[a] /\ Head(toSub[a]) = toSub[a][1] /\ Head(toSub[a]) \in ToSubMsg
  BY <1>1, Rest
<1>3. toSub' = [toSub EXCEPT ![a] = Tail(toSub[a])]
  BY DEF Head1
<1>4. /\ Known' = Known /\ toSub' \in [Known -> Seq(ToSubMsg)]
      /\ toSub'[a] = Tail(toSub[a])
      /\ \A b \in Known \ {a} : toSub'[b] = toSub[b]
  BY <1>1, <1>2, <1>3 DEF Known
<1>5. ASSUME NEW b \in Known, NEW i \in DOMAIN toSub'[b]
      PROVE  \E j \in DOMAIN toSub[b] : toSub'[b][i] = toSub[b][j]
  <2>1. CASE b = a
    BY <1>2, <1>4, <2>1
  <2>2. CASE b # a
    BY <1>4, <2>2
  <2> QED BY <2>1, <2>2
<1> QED BY <1>2, <1>4, <1>5

\* A delivery that leaves every Subscription a plan at its price.
LEMMA DeliveryInv ==
    ASSUME BookInv, NEW a \in Known, toSub[a] # <<>>, toSub' = Head1(toSub, a),
           UNCHANGED <<plans, paused, info, collector, toFactory, now, ops>>,
           DOMAIN subs' = DOMAIN subs \cup {a}, subs' \in [DOMAIN subs' -> SubState],
           \A b \in DOMAIN subs' : /\ subs'[b].plan \in DOMAIN plans
                                   /\ subs'[b].price = plans[subs'[b].plan].price
    PROVE  BookInv'
<1>1. /\ Known' = Known
      /\ toSub' \in [Known -> Seq(ToSubMsg)]
      /\ \A b \in Known \ {a} : toSub'[b] = toSub[b]
      /\ \A b \in Known : \A i \in DOMAIN toSub'[b] :
           \E j \in DOMAIN toSub[b] : toSub'[b][i] = toSub[b][j]
  BY Delivered
<1>2. Shapes'
  BY <1>1 DEF BookInv, Shapes
<1>3. RecordsOwn' /\ TrialMarks' /\ TrialOnce'
  BY <1>1 DEF BookInv, RecordsOwn, TrialMarks, TrialOnce
<1>4. DeployFirst'
  BY <1>1 DEF BookInv, DeployFirst
<1>5. PlansKnown'
  BY <1>1 DEF BookInv, PlansKnown
<1>6. PriceIsThePlans'
  BY <1>1 DEF BookInv, PriceIsThePlans
<1> QED BY <1>2, <1>3, <1>4, <1>5, <1>6 DEF BookInv

LEMMA DeployedInv ==
    ASSUME FactoryInv, NEW a \in Known, Deployed(a)
    PROVE  FactoryInv'
<1> DEFINE s == [plan |-> a.plan, price |-> a.price, cancelled |-> FALSE]
<1>0. BookInv /\ MoneyInv
  BY DEF FactoryInv
<1>1. MoneyInv'
  BY <1>0 DEF Deployed, money, MoneyInv, PoolCovered
<1>2. a.plan \in DOMAIN plans /\ a.price = plans[a.plan].price
  BY <1>0 DEF BookInv, PlansKnown, PriceIsThePlans
<1>3. s \in SubState
  <2>1. plans[a.plan] \in Plan /\ a.plan \in PlanIds
    BY <1>0, <1>2 DEF BookInv, Shapes, Address
  <2> QED BY <1>2, <2>1 DEF SubState, Plan
<1>4. subs' = [b \in DOMAIN subs \cup {a} |->
                 IF b = a /\ a \notin DOMAIN subs THEN s ELSE subs[b]]
  BY DEF Deployed
<1>5. DOMAIN subs' = DOMAIN subs \cup {a} /\ subs' \in [DOMAIN subs' -> SubState]
  BY <1>0, <1>3, <1>4 DEF BookInv, Shapes
<1>6. \A b \in DOMAIN subs' : /\ subs'[b].plan \in DOMAIN plans
                              /\ subs'[b].price = plans[subs'[b].plan].price
  BY <1>0, <1>2, <1>4 DEF BookInv, PlansKnown, PriceIsThePlans
<1>7. BookInv'
  BY <1>0, <1>5, <1>6, DeliveryInv DEF Deployed
<1> QED BY <1>1, <1>7 DEF FactoryInv

\* The deployment came first, so there is a Subscription to apply the plan to.
LEMMA PlanAppliedInv ==
    ASSUME FactoryInv, NEW a \in Known, PlanApplied(a)
    PROVE  FactoryInv'
<1> DEFINE x == Head(toSub[a])
<1>0. BookInv /\ MoneyInv
  BY DEF FactoryInv
<1>1. MoneyInv'
  BY <1>0, ConstantTypes DEF PlanApplied, MoneyInv, PoolCovered
<1>2. toSub[a] # <<>> /\ x.op = "APPLY_PLAN" /\ toSub' = Head1(toSub, a)
  BY DEF PlanApplied
<1>3. a \in DOMAIN subs
  BY <1>0, <1>2 DEF BookInv, DeployFirst
<1>4. 1 \in DOMAIN toSub[a] /\ x = toSub[a][1] /\ x \in ToSubMsg
  BY <1>0, <1>2, Delivered
<1>5. x.plan \in DOMAIN plans /\ x.price = plans[x.plan].price
  BY <1>0, <1>2, <1>4 DEF BookInv, PlansKnown, PriceIsThePlans
<1>6. x.plan \in PlanIds /\ x.price \in Price
  BY <1>2, <1>4 DEF ToSubMsg
<1>7. /\ DOMAIN subs' = DOMAIN subs \cup {a} /\ subs' \in [DOMAIN subs' -> SubState]
      /\ \A b \in DOMAIN subs' : /\ subs'[b].plan \in DOMAIN plans
                                 /\ subs'[b].price = plans[subs'[b].plan].price
  <2>0. subs \in [DOMAIN subs -> SubState]
    BY <1>0 DEF BookInv, Shapes
  <2>1. CASE subs[a].cancelled \/ ~BodyInRef
    BY <1>0, <1>3, <2>0, <2>1 DEF PlanApplied, BookInv, PlansKnown, PriceIsThePlans
  <2>2. CASE ~subs[a].cancelled /\ BodyInRef
    <3>1. subs' = [subs EXCEPT ![a].plan = x.plan, ![a].price = x.price]
      BY <2>2 DEF PlanApplied
    <3> DEFINE s == [subs[a] EXCEPT !.plan = x.plan, !.price = x.price]
    <3> HIDE DEF x
    <3>2. s \in SubState /\ s.plan = x.plan /\ s.price = x.price
      BY <1>3, <1>6, <2>0 DEF SubState
    <3>3. subs' = [subs EXCEPT ![a] = s]
      BY <1>3, <2>0, <3>1 DEF SubState
    <3> HIDE DEF s
    <3>4. DOMAIN subs' = DOMAIN subs /\ subs'[a] = s
          /\ \A b \in DOMAIN subs \ {a} : subs'[b] = subs[b]
      BY <1>3, <2>0, <3>3
    <3>5. subs' \in [DOMAIN subs -> SubState]
      BY <2>0, <3>2, <3>3
    <3> QED BY <1>0, <1>3, <1>5, <3>2, <3>4, <3>5 DEF BookInv, PlansKnown, PriceIsThePlans
  <2> QED BY <2>1, <2>2
<1>8. BookInv'
  BY <1>0, <1>2, <1>7, DeliveryInv DEF PlanApplied
<1> QED BY <1>1, <1>8 DEF FactoryInv

\* A step that touches only the queue of notifications and the cancellations.
LEMMA QueueBooks ==
    ASSUME BookInv, UNCHANGED <<plans, paused, info, collector, toSub, now>>,
           ops' \in 0..MaxOps, toFactory' \in [Known -> Seq(Notification)],
           DOMAIN subs' = DOMAIN subs, subs' \in [DOMAIN subs -> SubState],
           \A b \in DOMAIN subs : subs'[b].plan = subs[b].plan /\ subs'[b].price = subs[b].price
    PROVE  BookInv'
<1>1. Known' = Known
  BY DEF Known
<1>2. Shapes'
  BY <1>1 DEF BookInv, Shapes
<1>3. RecordsOwn' /\ DeployFirst' /\ TrialMarks' /\ TrialOnce'
  BY <1>1 DEF BookInv, RecordsOwn, DeployFirst, TrialMarks, TrialOnce
<1>4. PlansKnown'
  BY <1>1 DEF BookInv, PlansKnown
<1>5. PriceIsThePlans'
  BY <1>1 DEF BookInv, PriceIsThePlans
<1> QED BY <1>2, <1>3, <1>4, <1>5 DEF BookInv

LEMMA ChargeInv ==
    ASSUME FactoryInv, NEW a \in Known, NEW k \in BOOLEAN, Charge(a, k)
    PROVE  FactoryInv'
<1> DEFINE n == [amount |-> subs[a].price, hasKeeper |-> k]
<1>0. BookInv /\ MoneyInv
  BY DEF FactoryInv
<1>1. MoneyInv'
  BY <1>0 DEF Charge, money, MoneyInv, PoolCovered
<1>2. n \in Notification
  BY <1>0 DEF Charge, BookInv, Shapes, SubState, Notification
<1>3. toFactory' = [toFactory EXCEPT ![a] = Append(@, n)]
  BY DEF Charge
<1> HIDE DEF n
<1>4. toFactory' \in [Known -> Seq(Notification)]
  BY <1>0, <1>2, <1>3 DEF BookInv, Shapes
<1>5. ops' \in 0..MaxOps
  BY <1>0, ConstantTypes DEF Charge, BookInv, Shapes
<1>6. BookInv'
  BY <1>0, <1>4, <1>5, QueueBooks DEF Charge, BookInv, Shapes
<1> QED BY <1>1, <1>6 DEF FactoryInv

LEMMA CancelInv ==
    ASSUME FactoryInv, NEW a \in Known, Cancel(a)
    PROVE  FactoryInv'
<1>0. BookInv /\ MoneyInv
  BY DEF FactoryInv
<1>1. MoneyInv'
  BY <1>0 DEF Cancel, money, MoneyInv, PoolCovered
<1>2. subs \in [DOMAIN subs -> SubState] /\ a \in DOMAIN subs
  BY <1>0 DEF Cancel, BookInv, Shapes
<1>3. subs' = [subs EXCEPT ![a].cancelled = TRUE]
  BY DEF Cancel
<1>4. /\ subs' \in [DOMAIN subs -> SubState] /\ DOMAIN subs' = DOMAIN subs
      /\ \A b \in DOMAIN subs : subs'[b].plan = subs[b].plan /\ subs'[b].price = subs[b].price
  BY <1>2, <1>3 DEF SubState
<1>5. BookInv'
  BY <1>0, <1>4, QueueBooks DEF Cancel, wires, BookInv, Shapes
<1> QED BY <1>1, <1>5 DEF FactoryInv

\* The queue of notifications after one is read.
LEMMA NotificationRead ==
    ASSUME BookInv, NEW a \in Known, toFactory[a] # <<>>, toFactory' = Head1(toFactory, a)
    PROVE  /\ toFactory' \in [Known -> Seq(Notification)]
           /\ Head(toFactory[a]) \in Notification
<1>1. toFactory \in [Known -> Seq(Notification)]
  BY DEF BookInv, Shapes
<1>2. Tail(toFactory[a]) \in Seq(Notification) /\ Head(toFactory[a]) \in Notification
  BY <1>1, Rest
<1> QED BY <1>1, <1>2 DEF Head1

\* A reward is paid out of both the pool and the balance, when the pool has it.
LEMMA ChargeNotificationInv ==
    ASSUME FactoryInv, NEW a \in Known, ChargeNotification(a)
    PROVE  FactoryInv'
<1> DEFINE n == Head(toFactory[a])
<1>0. BookInv /\ MoneyInv
  BY DEF FactoryInv
<1>1. n \in Notification /\ toFactory' \in [Known -> Seq(Notification)]
  BY <1>0, NotificationRead DEF ChargeNotification
<1>2. n.amount \in Nat
  BY <1>1, ConstantTypes DEF Notification
<1> HIDE DEF n
<1>3. Reward(n) \in Nat /\ Reward(n) <= keeperPool
  BY <1>0, ConstantTypes DEF Reward, MoneyInv
<1>4. /\ keeperPool' = keeperPool - Reward(n)
      /\ balance' = balance + FEE_MSG_GAS - Gas - Reward(n)
      /\ totalRevenue' = totalRevenue + n.amount
      /\ totalCharges' = totalCharges + 1
  BY DEF ChargeNotification, n
<1>5. MoneyInv'
  BY <1>0, <1>2, <1>3, <1>4, ConstantTypes DEF MoneyInv, PoolCovered
<1>6. BookInv'
  BY <1>0, <1>1, QueueBooks DEF ChargeNotification, BookInv, Shapes
<1> QED BY <1>5, <1>6 DEF FactoryInv

LEMMA NotificationRefusedInv ==
    ASSUME FactoryInv, NEW a \in Known, NotificationRefused(a)
    PROVE  FactoryInv'
<1>0. BookInv /\ MoneyInv
  BY DEF FactoryInv
<1>1. toFactory' \in [Known -> Seq(Notification)]
  BY <1>0, NotificationRead DEF NotificationRefused
<1>2. MoneyInv'
  BY <1>0, ConstantTypes DEF NotificationRefused, MoneyInv, PoolCovered
<1>3. BookInv'
  BY <1>0, <1>1, QueueBooks DEF NotificationRefused, BookInv, Shapes
<1> QED BY <1>2, <1>3 DEF FactoryInv

LEMMA TickInv ==
    ASSUME FactoryInv, Tick
    PROVE  FactoryInv'
<1>0. BookInv /\ MoneyInv
  BY DEF FactoryInv
<1>1. MoneyInv'
  BY <1>0 DEF Tick, money, MoneyInv, PoolCovered
<1>2. now' \in 0..MaxTime
  BY <1>0, ConstantTypes DEF Tick, BookInv, Shapes
<1>3. BookInv'
  BY <1>0, <1>2, BooksStay DEF Tick, books, wires, BookInv, Shapes
<1> QED BY <1>1, <1>3 DEF FactoryInv

-----------------------------------------------------------------------------
(* The theorems.                                                           *)

\* A Factory is deployed without a subscriber, with its plans and its deposit.
LEMMA FactoryInit == Init => FactoryInv
<1> SUFFICES ASSUME Init PROVE FactoryInv
  OBVIOUS
<1>1. Known = {} /\ DOMAIN subs = {}
  BY DEF Init, Known
<1>2. MoneyInv
  BY ConstantTypes DEF Init, MoneyInv, PoolCovered
<1>3. plans \in Seq(Plan) /\ Len(plans) <= 1
  <2>1. \A o \in Offers : Planned(o) \in Plan
    BY ConstantTypes DEF Planned, Plan, Price
  <2>2. CASE plans = <<>>
    BY <2>2
  <2>3. CASE \E o \in Offers : plans = <<Planned(o)>>
    BY <2>1, <2>3
  <2> QED BY <2>2, <2>3 DEF Init
<1>5. Shapes
  <2>1. ASSUME NEW S PROVE <<>> \in [{} -> S]
    <3>1. <<>> \in [1..Len(<<>>) -> S] /\ Len(<<>>) = 0
      BY EmptySeq, LenProperties
    <3> QED BY <3>1
  <2>2. toSub \in [Known -> Seq(ToSubMsg)] /\ toFactory \in [Known -> Seq(Notification)]
    BY <1>1, <2>1 DEF Init
  <2>3. subs \in [DOMAIN subs -> SubState]
    BY <1>1, <2>1 DEF Init
  <2>4. info \in [Users -> [sub : SUBSET Known, trialUsed : BOOLEAN]]
    BY DEF Init
  <2>5. plans \in Seq(Plan) /\ Len(plans) <= MaxPlans
    BY <1>3, ConstantTypes
  <2>6. /\ paused \in BOOLEAN /\ collector \in Collectors
        /\ now \in 0..MaxTime /\ ops \in 0..MaxOps
    <3>1. paused = FALSE /\ collector \in Collectors /\ now = 0 /\ ops = 0
      BY DEF Init
    <3>2. paused \in BOOLEAN
      BY <3>1
    <3>3. 0 \in 0..MaxTime /\ 0 \in 0..MaxOps
      BY ConstantTypes
    <3> QED BY <3>1, <3>2, <3>3
  <2>7. Known \subseteq Address /\ DOMAIN subs \subseteq Known
    BY <1>1
  <2> QED BY <2>2, <2>3, <2>4, <2>5, <2>6, <2>7 DEF Shapes
<1>6. RecordsOwn /\ DeployFirst /\ PlansKnown /\ TrialMarks
  BY <1>1 DEF Init, RecordsOwn, DeployFirst, PlansKnown, TrialMarks
<1>7. TrialOnce /\ PriceIsThePlans
  BY <1>1 DEF TrialOnce, PriceIsThePlans
<1> QED BY <1>2, <1>5, <1>6, <1>7 DEF FactoryInv, BookInv

LEMMA ReceiveInv == FactoryInv /\ Receive => FactoryInv'
<1> SUFFICES ASSUME FactoryInv, Receive PROVE FactoryInv'
  OBVIOUS
<1>0. Arrival
  BY DEF Receive, Arrival
<1>1. ASSUME NEW u \in Users, ByUser(u) PROVE FactoryInv'
  BY <1>0, <1>1, SubscribeInv, ChangePlanInv DEF ByUser
<1>2. ASSUME NEW w \in People, ByAnyone(w) PROVE FactoryInv'
  <2>1. CASE Pause(PauseMsg(w))
    <3>1. PauseMsg(w).value = 10
      BY DEF PauseMsg
    <3> QED BY <1>0, <2>1, <3>1, SetPausedInv DEF Pause
  <2>2. CASE Resume(ResumeMsg(w))
    <3>1. ResumeMsg(w).value = 10
      BY DEF ResumeMsg
    <3> QED BY <1>0, <2>2, <3>1, SetPausedInv DEF Resume
  <2> QED BY <1>0, <1>2, <2>1, <2>2, AddPlanInv, DeactivatePlanInv, FundKeeperPoolInv,
             WithdrawInv, UpdateProtocolCollectorInv DEF ByAnyone
<1> QED BY <1>1, <1>2 DEF Receive

LEMMA FactoryStep == FactoryInv /\ [Next]_vars => FactoryInv'
<1> SUFFICES ASSUME FactoryInv, [Next]_vars PROVE FactoryInv'
  OBVIOUS
<1>1. CASE Receive
  BY <1>1, ReceiveInv
<1>2. CASE Tick
  BY <1>2, TickInv
<1>3. ASSUME NEW a \in Known, OfSubscription(a) PROVE FactoryInv'
  BY <1>3, DeployedInv, PlanAppliedInv, CancelInv, ChargeInv, ChargeNotificationInv,
     NotificationRefusedInv DEF OfSubscription
<1>4. CASE UNCHANGED vars
  <2>1. MoneyInv'
    BY <1>4 DEF vars, money, FactoryInv, MoneyInv, PoolCovered
  <2>2. BookInv'
    BY <1>4, BooksStay DEF vars, wires, books, FactoryInv, BookInv, Shapes
  <2> QED BY <2>1, <2>2 DEF FactoryInv
<1> QED BY <1>1, <1>2, <1>3, <1>4 DEF Next

LEMMA FactoryAlways == Spec => []FactoryInv
  BY FactoryInit, FactoryStep, PTL DEF Spec

LEMMA FactoryInvTypes == FactoryInv => TypeOK
  BY DEF FactoryInv, MoneyInv, BookInv, Shapes, RecordsOwn, TypeOK, Plan, SubState

\* The state of a Factory and of what is under way keeps its types; among them
\* that a keeper is never paid more than the pool holds.
THEOREM FactoryTypes == Spec => []TypeOK
  BY FactoryAlways, FactoryInvTypes, PTL

\* Nobody starts a second trial at a Factory, whatever plans they subscribe to,
\* cancel and change between (should_start_trial, subscriber_info).
THEOREM OneTrialEach == Spec => []TrialOnce
<1>1. FactoryInv => TrialOnce
  BY DEF FactoryInv, BookInv
<1> QED BY <1>1, FactoryAlways, PTL

\* What the keeper pool promises is in the Factory's balance: each message pays
\* for its gas and for what it sends on, and a withdrawal leaves the pool.
THEOREM PoolAlwaysCovered == Spec => []PoolCovered
<1>1. FactoryInv => PoolCovered
  BY DEF FactoryInv, MoneyInv
<1> QED BY <1>1, FactoryAlways, PTL

\* A plan id keeps its price for everyone who holds it: the Subscriptions, those
\* on their way to be deployed, and the plan changes under way.
THEOREM PlanIdKeepsPrice == Spec => []PriceIsThePlans
<1>1. FactoryInv => PriceIsThePlans
  BY DEF FactoryInv, BookInv
<1> QED BY <1>1, FactoryAlways, PTL

\* A change of plan never overtakes the deployment it is meant for, and every
\* plan anybody was deployed on or changed to exists.
THEOREM PlanReachesDeployed == Spec => [](DeployFirst /\ PlansKnown)
<1>1. FactoryInv => DeployFirst /\ PlansKnown
  BY DEF FactoryInv, BookInv
<1> QED BY <1>1, FactoryAlways, PTL
=============================================================================
