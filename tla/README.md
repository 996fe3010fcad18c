# ORBIT subscriptions in TLA+

ORBIT charges subscriptions on TON without custody: a subscriber's money sits
in a contract of its own, a relayer (or any keeper) triggers the monthly charge
with an external message, and the contract pays the service. This directory
holds TLA+ models of that protocol, the TLC runs that check them on small
instances, and theorems checked by TLAPS for every instance.

Contents: [the system](#the-system), [modules](#modules),
[modelling decisions](#modelling-decisions), [runs](#runs),
[what the code does not do](#where-the-code-and-its-documents-disagree),
[proofs](#proofs), [limits](#not-modelled-and-why), [plan](#plan).

## The system

| component | state | operations | interacts with |
|---|---|---|---|
| **Subscription** (`contracts/subscription.tolk`, `core/`, `access/`) | c4: seqno, status, charging and pause flags, retry counter, grace deadline, billing time, price, tracked deposit, relayer key, term | external charge; `OP_CANCEL`, `OP_TOP_UP`, plain transfer, `OP_PAUSE_SUB`, `OP_RESUME_SUB`, `OP_EMERGENCY_PAUSE`, `OP_ROTATE_RELAYER`, `OP_APPLY_PLAN`, `OP_SET_MAX_PERIODS`, jetton notification and excesses, bounces | relayer or keeper, service, fee collectors, Factory, jetton wallet |
| **Charge engine** (`billing/`) | none of its own | checks, split, retry schedule, sends; `on_charge_bounced` | library of the Subscription |
| **Payment adapters** (`payment/`) | none | build and send payments, refunds, jetton transfers | service, subscriber, jetton wallet |
| **FeeCollector** (`contracts/fee-collector.tolk`) | owner key, seqno, counter, one pending withdrawal | fee messages; signed `OP_COLLECT`, `OP_CONFIRM_COLLECT`, `OP_ROTATE_KEY` | every Subscription; key holders |
| **Factory** (`contracts/factory.tolk`, `plans/`) | plans, subscriber table, pause flag, counters, keeper pool, relayer key | subscribe (deploys a Subscription), plans, change plan, charge notification, keeper pool, pause, withdraw | Subscriptions, subscribers, service |
| **Registry** (`contracts/registry.tolk`) | services table, count, codes, fee, addresses, pause flag | register (deploys a Factory), deregister, updates, withdraw | service owners, Factory |
| **Relayer** (`scripts/relayer.ts`) | database file, write-ahead log file, timers, in-memory copies of both | poll cycle: replay, discover, charge due subscriptions, webhooks | TonCenter, Subscriptions, webhook receiver |
| **Webhook receiver** (`scripts/webhook-server.ts`) | its log | checks the HMAC of a POST, logs a charge | relayer, anybody who posts |
| **Wrappers** (`wrappers/`) | none | build messages and initial storage, read getters | all contracts |
| **React SDK** (`sdk/react/`) | what each hook shows, its interval, its calls under way | poll a Subscription, load a Factory, send through TonConnect | TonCenter, wallet, contracts |
| **Scripts** (`scripts/deploy-*`, `register-service`, `add-plan`, `cancel-subscription`, `test-*`) | where `main` is, the seqno it read | deploy, register, add a plan, cancel, subscribe, wait | TonCenter, the operator's wallet, contracts |

Contracts never call each other: they send messages that arrive later, in order
only between one pair, and that may bounce. Three things make this hard.

* **Split transactions.** A transaction first computes (and saves storage), then
  performs its sends. If the sends do not fit the balance, storage rolls back but
  gas is gone. The tracked `deposit` knows nothing of gas.
* **Late answers.** A bounce, or a jetton wallet's excesses, arrive after other
  operations, in a status nobody expected, and are handled with the storage of
  that moment.
* **Several hands on one contract.** Signed external messages stay valid for a
  minute and can be delivered more than once; owner, subscriber, Factory and
  keepers act in any order. In front of the chain the relayer may crash at any
  line and overlaps with itself.

What makes each part correct:

* *Subscription, money*: debits equal what is sent; a bounce costs the subscriber
  nothing; the rent reserve survives every send; every cancellation refunds.
* *Subscription, time*: never billed ahead; a fixed term is not overrun; a grace
  window has one deadline, leaves nothing behind, and ends.
* *Subscription, control*: cancelled is final but for late bounces; the emergency
  pause freezes the money; one jetton transfer at a time.
* *FeeCollector*: money leaves only by a request that waited out the timelock
  under the key that made it, and the reserve stays.
* *Factory*: one trial per user, however often they subscribe; a plan id keeps its
  price; the balance backs the keeper pool; charges are counted (they are not).
* *Registry*: the services table, its count and the deployed Factories agree; a
  Factory belongs to its service; the rent reserve stays.
* *Relayer*: every due subscription is settled, no charge leaves unlogged, a webhook
  means an advance of the seqno and is not repeated, every subscription is found.
* *Scripts*: reported success is true, no Factory goes live before the collector
  deployed for it, every script ends.
* *SDK*: a page comes to show the contract as it is, whatever answers were late; a
  Factory's plans and counters are read (they are not, once it has a plan); nothing loads for ever.

## Modules

| module | role |
|---|---|
| `BillingRules` | the pure helpers: fee split, affordability, due, fresh, grace, retry schedule, refund rule |
| `Subscription` | one Subscription contract with its balance, its messages and its environment; EXTENDS `BillingRules` |
| `MCSubscription` | the plans a configuration cannot write down |
| `Subscription_proofs` | theorems about `Subscription` |
| `TimelockVault` | abstract specification: what a FeeCollector promises |
| `FeeCollector` | the contract, its signed orders, its balance; instantiates `TimelockVault` |
| `MCFeeCollector` | model values for keys and destinations |
| `FeeCollector_proofs` | theorems about `FeeCollector`, including the refinement |
| `Relayer` | the poll cycle from await to await: log, retry state, replay, charge, webhook, receiver; the chain as the getters show it |
| `MCRelayer` | the situations the relayer is checked in |
| `RelayerIndex` | the same cycle as far as the database goes: factories, paging of histories, cursors, saves |
| `Factory` | plans, subscribers, keeper pool, analytics, with the Subscriptions it deploys and what is under way between them |
| `MCFactory` | two offers, symmetry |
| `Registry` | terms, services, count, balance, and the Factories it deploys |
| `Scripts` | the operator scripts as sequences of steps; EXTENDS `Registry`, whose handlers they reach by their messages |
| `MCScripts` | which scripts run together, and the Registry without any |
| `SdkViews` | what the hooks show, and what the buttons send |
| `Relayer_proofs`, `RelayerIndex_proofs`, `Factory_proofs`, `Registry_proofs`, `Scripts_proofs`, `SdkViews_proofs` | theorems about the module each is named after |

An action is one transaction. In `Subscription`, `sub` is the storage cell
(field names abbreviate the source's: `charging` is `charging_in_progress`,
`paused` is `paused_global`, `graceEnd` is `grace_end_time` and so on),
`balance` the account, `outbox` the messages sent and still under way.
`execute_charge` is split along its returns: `ChargeRefused` (an assert fails
after acceptance), `EndTerm`, `EndGrace`, `ChargeUnfunded`, `Charge`, and
`ChargeRolledBack` (action phase fails). Every branch of `onInternalMessage` is
an action with the name of its op. The bounce branch is `PaymentBounced`,
`FeeBounced` and, where the code finds no op it knows or throws, `BounceUnread`.
`settled`, `returned` and `credited` are history variables no action reads.

In `FeeCollector` an external message is an element of `orders`: signed at some
block time, for the current or the next seqno, by one of the keys. `pending` is
the pending-withdrawal cell. `askedBy` and `payouts` are history.

In `Relayer` a step is the code between two awaits of one cycle. `cycle[c]` holds
where it is (`pc`), its own copies of log and retry state, and the locals of
`tryCharge`. `walDisk` and `dbDisk` are the two files. `Start` copies the files into
a cycle, as `loadDB` and `loadWal` do; `Save` writes a whole copy back, as `saveWal`
does. `chain[s]` is what the getters of a Subscription show, with `due` for a
billing time that has come; `net` holds signed charges. `polling` is whether
`setInterval` runs already, `overlapped` is history. Which subscriptions there are
is fixed here and is the subject of `RelayerIndex`, where a transaction of a Factory
is a logical time, `lastLt` and `initialScanDone` are the fields of the code, and
`gap` is history: it marks what the code is known to lose.

In `Factory` a wallet's message is a record a wrapper function of that name builds
(`SubscribeMsg` and so on), and its handler is the action with the op's name. A
message is read when it arrives, so being late is a later choice. `toSub` and
`toFactory` are the queues between the Factory and each address; `info` is
`subscriber_info`, `a \in info[u].sub` the recorded address, and an address is a
record of everything its initial storage holds, since it is a hash of that.
`Registry` is built alike, with `terms` for the four fields a new Factory copies.

In `Scripts` a script is a sequence of steps such as "read the seqno", "send", "wait
until deployed", "skip if deployed", and `script[t]` says how far terminal `t` is.
Signed messages wait in `mempool` until a wallet with that seqno takes them; what
arrives at the Registry runs `Register` of `Registry`.

In `SdkViews` `view` and `shown` are the React state of `useSubscription` and
`useFactory`; `pending` and `fetch` their calls under way, each first served (the
contract is read) and later answered (the state is set); `timers` the intervals. The
read of a plan is the step that throws (`FetchThrows`).

The commented *slips* in each module (also: *Mutated*) are plausible mistakes (a
guard dropped, an off-by-one, a reset forgotten). `PROJECT.json` pairs each with the definition it
replaces and the property that then fails: it shows that the property depends on
that line of code.

## Modelling decisions

* **Money** is in units of 0.01 TON. All constants of the code are whole units
  but `MIN_REFUND` (0.005 TON, rounded up to 1; it refuses the same whole
  amounts). Gas of a transaction is one unit, `ExecGas`; forwarding is `FwdFee`,
  zero in the Subscription runs so that the balance is what the code thinks it is
  less gas only.
* **Gas** is taken from the balance in every transaction and from the deposit in
  none: this is how the code works, and why balance and deposit drift apart.
* **Time** is block time in seconds, from a small set `Times`: exactly at the edge
  of tolerance, of the message lifetime, and of the grace window. A signed message
  is stamped with the block time at which it was signed; the repository's relayer
  stamps 30 s earlier, which only shortens its life.
* **Signers.** With `EagerSigner` whoever holds the relayer key signs when it
  likes; without, only for a charge that looks due, as `pollCycle` does. Only the
  newest message of a key is kept, because an older one is never accepted where
  the newer is not.
* **`BodyInRef`.** The committed senders write header bits that say "body inline"
  and then append the body as a reference. A receiver that follows the header
  finds no op. `FALSE` is that behaviour: no bounce is read, no plan change is
  applied, no charge notification is counted, no jetton transfer is taken. `TRUE` is
  the same code with a readable body, which is what the unit tests exercise by
  building bodies by hand; it is the only way the bounce handlers, `OP_APPLY_PLAN`,
  `OP_CHARGE_NOTIFICATION` and jetton transfers run at all, so what is said of them
  is checked there. Both `Subscription` and `Factory` have it. Properties of the code
  as it is are checked with `FALSE` (`SubTonGrace`, `SubTonAccount`, the violations),
  and the theorems hold for both values unless their statement says otherwise.
* **Throwing handlers** return the value and change nothing, so they are no steps.
* **Jetton amounts** the notification handler reads are arbitrary numbers
  (`ParsedAmounts`): it skips 64 bits too many, so what it reads has no relation
  to what came in.
* **Bounces** of one kind return in the order they were sent, bounces of different
  kinds in any order, any time later.
* **Faults** outside the chain (a crash, a failed call, a lost message, an answer
  slower than the code waits) are counted: `MaxFaults` of them happen anywhere. A
  timeout is a fault only while the message it waits for can still land.
* **Clocks off the chain.** Back-off windows and the age of log entries are not
  counted in seconds: a window ends at some time (`BackoffOver`), an entry may be
  too old at any time (`Abandon`). Deadlines of loops are a number of turns
  (`MaxPolls`).
* **Money** in `Factory`, `Registry` and `SdkViews` is in units of 0.005 TON, the
  finest step of their constants. Gas of a transaction is a whole unit, more than
  it takes, and the same unit is what the handlers keep for it.
* **Libraries.** `@ton/core` wrappers opened by a client, TonConnect and React's
  state are modelled from how the hooks use them: a set of a state is seen at once,
  a call is one read of one contract, and an opened contract puts its own provider
  before the arguments of a getter.
* **Charges on the relayer's side.** What a signed charge does to a Subscription is
  open in `Relayer`: it is paid, enters or ends GRACE (`Land`), or changes nothing at
  all (`RolledBack`: the action phase fails, a jetton transfer is still under way,
  the emergency pause), the latter without a bound.

## Runs

In the Subscription runs `MaxSeqno` caps transactions that advance the seqno,
`MaxFunds` stops plain transfers once the contract is rich (0 turns them off where
a run does not need them), `Ops` chooses the operations of a run. The cases that
matter need few steps: two charges, a bounce, one operation between them; entering
and leaving a grace window; five failures. Each run reaches its cases, as its
mutants show. Deadlock checking is off because a bounded system may stop: nothing
is scheduled on a chain by itself, scripts end, and users owe no step.

| run | what it explores | shows |
|---|---|---|
| `SubTonGrace` | relayer mode; top-ups and transfers that rescue or do not; times around the 3-day deadline; six seqnos: one charge and five failures | `TypeOK`, `GraceDeadlineFixed`, `NonPaymentEnds` |
| `SubTonAccount` | the header as committed; a trial, a term of one period set at any time, charges with 10 % service and 5 % protocol fee, failures, top-ups, pauses, emergency pauses, payments that come back unread; a user's cancel, the end of the term, of grace, of the retries; one relayer key, since keepers trigger the charges | `CleanUnlessGrace`, `PeriodsMatchPayments`, `LedgerConserved`, `FrozenWhilePaused`, `CancelReturnsFunds` |
| `SubTonBounce` | late bounces of payments and fees among cancellations, a cheaper and shorter plan, a cap of 1 period; service fee 10 %, protocol fee 5 %, so that a cut is a whole unit or rounds down to none | `NeverBilledAhead`, `RevivedOnlyByLateBounce`, `TermNeverOverrun`, `DebitMatchesMessages`, `SendsKeepReserve` |
| `SubJetton` | transfers taken or refused, excesses late; nobody pauses | `OneTransferAtATime` |
| `ColTimelock` | two keys, two destinations, two open orders, rotation, stale and repeated orders, a fixed amount and everything; instants at the exact edge of the message lifetime and of two timelocks; 26 units pay for two payouts | `TypeOK`, `PayoutsSpaced`, `ReserveStays`, `ImplementsVault` |
| `Relayer` | three situations (`Situations` in `MCRelayer`): one live subscription and two cycles at once; one through two of its seqnos, one cycle at a time; two subscriptions with two log entries, one cycle at a time. In each two attempts per log entry, charges that roll back for ever, one fault at any await | `TypeOK`, `LogIsTrue`, `SendIsLogged`, `ToldOnce`, `WalDrains`, `DueIsSettled` |
| `RelIndex` | two factories, one of them served by an older relayer; pages of two, a history of three then four; two cycles, one fault | `TypeOK`, `NothingBelowCursorMissed`, `AllIndexed` |
| `Factory` | readable bodies; four messages or charges of two subscribers, service and collectors; a plan with a trial and one without; two block times, so that the same subscription is asked for again at once or later | `TypeOK`, `TrialOnce`, `PoolCovered`, `PriceIsThePlans` |
| `Scripts` | every script twice on one wallet, and the pairs that meet at a contract; one turn of each loop and one fault, on a fresh network or one with everything deployed; the Registry's owner may pause once. Or no script, and the Registry alone: the owner and two services, five messages, values below, near and above the minimum, a fee just above the ceiling | `DoneIsTrue`, `CollectorFirst`, `EveryScriptEnds`, `RentCovered`, `OneFactoryEach` |
| `SdkViews` | two addresses, two requests under way, one switch, one click; or two fetches of a Factory with none to two plans, charged once; one fault | `LoadingIsAsked`, `ViewConverges` |
| `CxBounce` | the header bit as committed | that `BounceRestoresDeposit` fails |
| `CxTokens` | a jetton subscription in grace, topped up with tokens | that `CancelReturnsTokens` fails |

`ColTimelock` and `Factory` use symmetry: keys and destinations, or subscribers and
collectors, are interchangeable model values, and all their properties are safety
properties.

`MCRelayer` and `MCScripts` split an instance into situations chosen by the initial
state, because all at once are too many states; no behaviour moves from one to
another. One subscription is enough for what cycles that overlap do to each other: log
entries are keyed by address and a cycle handles one address at a time. `SendIsLogged`
and `ToldOnce` are about cycles that do not overlap, and get two seqnos there, so that
there is a second event that could repeat the first. What one subscription does to
another, a replay that returns early or a charge that never settles, needs two:
`DueIsSettled` is stated of each by itself, so one whose charges roll back for ever is
no excuse for the other; one cycle is enough, since the loop over the entries is the
cycle's own. A cancelled subscription is passed over at once (`PassesOver`), which
commutes with every other step.
Two cycles are enough to overwrite each other's files. `RelIndex` needs a history
longer than a page, and room for a transaction that arrives between two pages.
Five messages in `Factory` (6.8 million states) show no more than four, so the run
keeps four. In `Scripts`, two terminals on one wallet are the race for a seqno; a
loop that fails once behaves like one that fails often.

`LedgerConserved` and `PeriodsMatchPayments` are about the code as committed: a payment
that comes back is not read, so it stays counted and debited, and the subscriber has
lost it (`CxBounce`). Where bounces can be read the period count follows them
(`PeriodsMatch` proves it), but no equation about the deposit holds: with another price
a bounce gives back the price of the moment, and with fees it gives the fees back
whether they came back or not (`on_charge_bounced` adds `amount`). `CancelReturnsFunds`
looks at TON subscriptions; the tokens of a jetton subscription stay (`CxTokens`).
`OneTransferAtATime` holds as long as nobody
pauses. `CleanUnlessGrace` is checked where bounces are not read, and proved also
where they are (`NoLeftoverGrace`). `SendIsLogged` and `ToldOnce` hold while cycles do not overlap: two cycles
do write over each other's log and do tell the service twice. `NothingBelowCursorMissed`
and `AllIndexed` except the two losses `gap` marks, which they do not catch.
`PoolCovered` holds for plan changes that attach what the wrapper attaches.
`DoneIsTrue` is about scripts that look at the contract afterwards, `CollectorFirst`
about deployments that bring their own collector.

**Fairness.** All of it is weak, and none is assumed of owners, subscribers, keepers,
users or wallets.

* `SubTonGrace`: blocks are produced (`Tick`); the relayer, whose loop is a
  `setInterval` that never ends, signs for its current key whenever the getters say
  a charge is due (`RelayerSigns`); a deliverable message is delivered
  (`ExternalMessage`), since the relayer sends it again in later cycles.
* `Relayer`: one cycle goes on (`setInterval` starts another whatever the
  last one does, so a cycle that hangs in an await for good is the other one of the
  model); a signed charge is delivered or vanishes, whatever the contract makes of it;
  a back-off window passes. Nothing makes the contract take a charge: `DueIsSettled`
  says that a due subscription is settled or its charges roll back again and again
  without end.
* `RelIndex`: cycles are started and their requests answered or refused.
* `Scripts`: a running script goes on, because a call of the API ends: Node's fetch
  gives up on a silent server. Nothing of the network: messages may be lost.
* `SdkViews`: intervals fire, and a request to an address is served and answered; a
  lost answer is a fault and bounded.

The FeeCollector, Factory and Registry have no liveness: nobody is obliged to act.

## Where the code and its documents disagree

Two runs expect a violation, with TLC's counterexample as evidence.

* `CxBounce`. README.md says the deposit is always restored if a payment bounces; with
  the header the senders write the bounced body is unreadable, and nothing is
  restored.
* `CxTokens`. README.md says grace that runs out and a term that ends refund the
  deposit; `execute_charge` refunds in TON only, so a jetton subscription keeps its
  tokens, also tokens that arrived in time to pay.

The rest show directly in the definitions, and no run repeats them.

*Subscription and FeeCollector.* README.md says GRACE leads to CANCELLED and a refund:
with the balance at the reserve and the deposit above it every cancelling
transaction fails and the subscription stays in GRACE (`RefundFits`). SECURITY.md 1
says the charging flag is cleared only by the excesses: pause, resume and emergency
pause clear it (`PauseSub`). subscription.tolk says the flag cannot stay up for good:
the bounce of a transfer has no branch (`BounceUnread`), and the credited amount is
misread (`ParsedAmounts`). fee-collector.tolk says amount 0 withdraws everything: it
always asks for the gas of its own transaction too and fails (`WithdrawAmount`). Five
failures cancel a subscription however fast they come, although README.md speaks
of a 3-day window (`OnChargeFailed`); the emergency pause "blocks all
state-changing operations" (emergency-pause.tolk), but only charges and
`OP_CANCEL` look at it (`Accepted`, `CancelGuard`); `OP_COLLECT` with amount 0
does not clear the pending record (SECURITY.md), it asks for everything
(`Collect`); a payment that bounces as the fifth failure cancels without a refund
(`PaymentBounced`, with readable bodies: `CancelRefundsOrBounced` proves it is the only
cancellation that does); `has_funds_for_charge` does not prevent unaffordable charges
(SECURITY.md 8), since gas leaves the balance and not the deposit
(`ChargeRolledBack`).

*Relayer.* An event `charge.success` means that the seqno advanced, for whatever
reason: a top-up, a pause or a charge that only entered GRACE will do
(`SeenAdvanced`). "After every confirmed charge" is not so when the replay finds the
charge confirmed (`AlreadyConfirmed`). The log is kept per cycle, so overlapping
cycles repeat charges and events. The comment on a failed first scan says that
`initialScanDone` stays false; the line after the loop sets it (`BrokenOff`). More
new transactions than a page leave a gap below the cursor (`Incremental`). A
subscription in GRACE is charged at once again after a confirmed failure, so its
five attempts take minutes of the 3-day window. A backend that answers with no
factories ends the cycle before anything is charged (`NoFactories`).

*Unreadable orders.* The header of `CxBounce` is also that of a charge notification and
of a forwarded plan change. factory.tolk says the Factory accumulates its analytics from
the notifications: it throws at each, counts none and never pays a keeper from its pool
(`NotificationRefused`). README.md says the Factory routes a plan change safely: it
bounces (`PlanApplied`). Both values of `BodyInRef` are possible in `Factory`, and its theorems
are about both.

*SDK reads of a plan.* The SDK's README says `useFactory` reads all plans and
statistics. An opened contract puts its own provider before the arguments of a getter
and `fetchFactory` passes one too, so `getPlanData` takes a provider for the plan id and
throws: with one plan or more the page shows an error, no plans and zeros
(`FetchAnswered`, `FetchThrows`). `useSubscribe` reads the plan in the same way, so it
throws before it asks the wallet: nobody can subscribe through the SDK.

*Factory, Registry and SDK.* `useSubscribe` sends at least the price plus 0.1 TON
and the end-to-end test says 0.3 TON is the minimum; the contract asks for the price
plus 0.13 (`MinValue`). The wrapper adds 0.01 TON to a contribution, the hook 0.005,
the contract keeps 0.005, so the two credit different amounts (`FundKeeperPoolMsg`,
`handleFund`). The 0.05 TON a top-up adds "for gas" is credited to the deposit.
`OP_CHANGE_PLAN` with only the 0.05 TON it demands costs the Factory its gas
(`ChangePlan`). The address of a Subscription is called deterministic but depends on
the block time (`BuildSubInit`). `get_factory_count` is described as all that were
deployed, yet goes down with a deregistration; a service that is removed and
registers again after a change of terms owns two Factories (`Deregister`). A
refetch after funding runs before the message arrives (`Confirms`); a failed fetch
leaves some counters new and some old (`FetchFails`); a late answer replaces newer
data until the next poll (`Answered`).

*Scripts.* `waitTx` takes any message of the wallet for its own, and `add-plan` and
`cancel-subscription` then print success although the contract refused. The period
of 60 seconds that `add-plan` offers for tests is below the contract's minimum.
`register-service` prints that it is complete once the Registry knows the Factory,
which may still be under way. An API error reads as "not deployed", and the deposit
is sent again. `waitSubscription` takes another subscriber's message for its own.

## Proofs

Every safety and action property a passing run checks is also a theorem. It holds for
every value of the constants that satisfies the ASSUMEs (any prices, fees up to the
ceiling, periods, keys, times, plans, amounts, numbers of actors, bounds and modes),
under the hypotheses named below, each of which some run satisfies. A proof has one
step per action; an action property is proved of a step from the module's inductive
invariant, and the two are joined by temporal logic in the last step.

### Subscription

Unconditional, by the invariant `TypeOK /\ PaymentsInv /\ CountInv` or a part of it:

* `TypeCorrect`. The content is that deposit and balance stay natural numbers: a debit
  is covered by `HasFundsForCharge`, a send by `ChargeFits` or `RefundFits`, gas by
  `Accepted` or by what callers attach. It rests on `SplitFee` yielding three naturals
  that add up to the price, which needs both fees together to stay below 100 %.
* `NoLeftoverGrace` (`CleanUnlessGrace`), inductive together with `TypeOK`: each way out
  of GRACE clears both fields, and GRACE cannot be paused.
* `NeverAhead` (`NeverBilledAhead`): a charge moves the billing time only when it is at
  most the tolerance ahead; a resume or plan change sets it to now plus the period;
  time only grows; a bounce only lowers it.
* `DeadlineStands` (`GraceDeadlineFixed`), case by case.
* `TermHolds` (`TermNeverOverrun`). A payment's seqno is its name only because of
  `PaymentsInv`: every seqno in the outbox or the history is below the storage's, no
  two payments share one, and one under way has neither arrived nor come back. Then
  each step is one of four (`StepEffect`): aside, a charge, an arrival, a return; and
  `CountInv`, that live payments are no more than the periods counted, survives each.
* `DebitIsSent` (`DebitMatchesMessages`): by `PaymentsInv` no message sent was there
  before, so what is new in the outbox are the charge's own messages, which carry the
  three parts of `SplitFee`; a part of zero has no message.
* `PauseFreezes` (`FrozenWhilePaused`), `ReserveSurvives` (`SendsKeepReserve`) and
  `CancelledStays` (`RevivedOnlyByLateBounce`): only charges and refunds lower a balance
  or send; a return adds a new seqno to `returned`, again by `PaymentsInv`.
* `CancelRefundsOrBounced`: a cancellation of a TON subscription that owes a refund pays
  it, unless the bounce of a payment is what cancels.

Under hypotheses:

* `CancelRefunds` (`CancelReturnsFunds`): with the committed header (`~BodyInRef`), since
  then no bounce of a payment can be read. Of TON; tokens are not returned.
* `OneTransfer` (`OneTransferAtATime`): nobody pauses. `TransfersInv` ties the outbox to
  the flag: a transfer or its excesses under way means the flag is up.
* `PeriodsMatch` (`PeriodsMatchPayments`): for either token and header, any plans, fees,
  caps and cancellations. Only where bounces are read (`BouncesRead`) it needs
  `RoomToRollBack`, that they cannot take the billing time below zero, where
  `on_charge_bounced` would throw; with times in seconds since 1970 they would have to
  undo half a century. The invariant there is that only what came back has lowered the
  billing time: `Epoch <= nextBilling + longest * |returned|` for the longest period of
  any plan (`RoomInv`).
* `LedgerHolds` (`LedgerConserved`): with the committed header, for either token, any
  fees, caps, failures, pauses and cancellations. `LedgerInv` adds that the price is the
  one of the deployment, since no plan change can be read.

### FeeCollector

The inductive invariant is `CollectorInv == TypeOK /\ RequestStands /\ PayoutsSpaced`.
`RequestStands` says that a pending request was made by the present key, is not in the
future, and is not older than the last payout; without it `PayoutsSpaced` is not
inductive. From it follow `CollectorTypeCorrect`, `TimelockHolds`, `ReserveKept` and
`CollectorIsVault`: initial states map to initial states of `TimelockVault` and every
step to one of its steps or a stutter, under the mapping in `FeeCollector.tla`
(`Notices` shows the pending request).

### Relayer and RelayerIndex

`RelayerInv` has a part for every cycle and one for a cycle that runs alone.

* `ReceiversLogIsTrue` (`LogIsTrue`) and `RelayerTypes`, for overlapping cycles, crashes
  and lost answers. What a cycle has read of a seqno is never ahead of the chain
  (`CycleInv`), and the chain only moves on, so a line that was true stays true.
* `ChargeIsLoggedFirst` (`SendIsLogged`) and `ServiceToldOnce` (`ToldOnce`), which hold
  until two cycles have overlapped. A cycle that runs alone finds its own entry in the
  file between the intent and the send, because nobody else writes the file, and has
  read a seqno that is not below the end of anything told before (`AloneInv`).

`CursorMissesNothing` (`NothingBelowCursorMissed`) and `IndexTypes` follow from
`IndexInv`: the property of the file and of every cycle's copy, with what is needed in
the middle of a first scan (`PagingInv`: between the end of the page reached and the
cursor everything is collected; the cursor is set before the scan is done) and of a
database an older relayer left (`LegacyWhole`). A factory that is not scanned has its
cursor at zero (`UnscannedAtZero`), so a first scan starts with nothing promised; one
that breaks off sets `gap`. Any page size of at least two.

### Factory and Registry

`FactoryInv == MoneyInv /\ BookInv`, for any users, plans, times and queues, and
whether or not Factory and Subscriptions can read each other.

* `PoolAlwaysCovered` (`PoolCovered`): each message pays for its gas and for what it
  sends on; a reward leaves pool and balance alike; a withdrawal leaves the pool.
* `OneTrialEach` (`TrialOnce`) needs `TrialMarks` (whoever has a Subscription with a
  trial is marked in `subscriber_info`).
* `PlanIdKeepsPrice` (`PriceIsThePlans`) needs `PlansKnown`, since plans are only
  appended, and `DeployFirst`: the deployment is the first message of its queue until
  it is read, so a plan change finds a Subscription. `PlanReachesDeployed` states the
  two by themselves.
* `FactoryTypes`, among it that pool and counters stay natural numbers.

`RegistryInv == RegistryTypes /\ RentCovered /\ OneFactoryEach` is nearly the two
properties (`RegistryKeepsRent`, `EachServiceItsFactory`); `DeployedOnValidTerms` adds that
no Factory is ever deployed on a fee above the ceiling.

### Scripts

`SuccessIsTrue` (`DoneIsTrue`) and `CollectorIsFirst` (`CollectorFirst`) for any number of
terminals running any scripts on any wallets. `Progress` says what a script has seen by
how far it is; contracts only appear, so it stays true. A deployment of a Factory or
Registry is signed past the step that saw the FeeCollector, hence everything in the
mempool and under way to the chain is safe to arrive (`Sendable`).

### SdkViews

`NoLoadingForever` (`LoadingIsAsked`) for any addresses, calls and bounds, from
`ViewInv`: the property of each hook, and that states and calls keep their fields. A
flag goes up only with a call, and every end of a call takes it down.

### Model-checked only

Liveness, which is out of the prover's reach: `NonPaymentEnds`, `WalDrains`,
`DueIsSettled`, `AllIndexed`, `EveryScriptEnds`, `ViewConverges`. And that the hypotheses
above are needed: `CxBounce` and `CxTokens` show it of the header and the token, no
theorem does.

## Not modelled, and why

* Storage rent, the wallets' and services' own behaviour, random forwarding fees:
  prices of the network, constant here.
* 32-bit times and seqnos: they wrap in 2106 and after 2^32 transactions.
* `plan_id`, `trial_period` after deployment, charge notifications and keeper
  rewards as messages (their cost is part of `ChargeCost`): nothing in the
  contract reads them.
* Learning the jetton wallet from the first notification: the Factory always
  stores a wallet for a jetton subscription.
* `Subscription.ts` of the wrappers: its messages are the ones the contract's handlers
  read, and its getters are pure reads. Getters that no hook, script or relayer
  calls.
* `sdk/react/src/api.ts`: a stateless REST client of a backend that is not in the
  repository. `index.html` and the rendering of the components: no protocol state.
* What the scripts ask the operator, compile, derive or print; their .env files.
* Fees and plan periods inside `Factory` and `Registry`: copied into what they
  deploy, where `Subscription` has them.
* HTTP status codes of the webhook receiver: the relayer looks at none.
* A Subscription together with a FeeCollector: with readable bodies the collector
  counts the fee, with unreadable ones it throws and the fee comes back, and neither
  reads the other's state. Fees that land and fees that bounce are in both modules.
* `migration/func-compat.tolk`: aliases no contract imports.

## Plan

1. *Done*: `BillingRules`, `Subscription`, `TimelockVault`, `FeeCollector`, their runs
   and first theorems.
2. *Done*: `Relayer` and `RelayerIndex`; `Factory` with its Subscriptions and
   `Registry`; `Scripts` over `Registry`; `SdkViews`.
3. *Done*: a theorem for every safety and action property of the runs, and the
   refinement of `TimelockVault`.
4. Abstract specifications of two more parts and their refinements: what a relayer
   promises the service (`Relayer` restricted to cycles that do not overlap), and a
   Subscription as an account that is debited once per period.
5. Safety parts of the liveness properties: for `NonPaymentEnds`, that each failure in
   grace uses up a retry; for `EveryScriptEnds`, that a step forward or a poll is all a
   script can do.
