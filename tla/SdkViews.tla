------------------------------- MODULE SdkViews -------------------------------
(***************************************************************************)
(* The React hooks: what they show of a Subscription or a Factory while    *)
(* the contracts change, answers are late, calls fail, the component is    *)
(* given another address, and the buttons send through TonConnect.         *)
(*                                                                         *)
(* A page shows one component; the wallet confirms or rejects what a       *)
(* button asks for, and a confirmed message arrives at any later time.     *)
(* An opened contract puts its own provider before a getter's arguments,   *)
(* and the hooks pass one too: getPlanData takes that for the plan id and  *)
(* throws.  So useSubscribe ends before it asks the wallet for anything,   *)
(* and has no button here; useChangePlan sends to the Factory, whose order *)
(* no Subscription can read, and has none either.                          *)
(***************************************************************************)
EXTENDS Integers, FiniteSets

CONSTANTS
    Addresses,      \* Subscriptions the page may be given
    Fetches,        \* calls of fetchFactory, refetches included
    MaxPending,     \* bound on the requests of useSubscription that are not answered
    MaxClicks, MaxSwitches, MaxCharges, MaxPlans, MaxFaults     \* bounds of the model

ASSUME ViewConstants ==
    /\ IsFiniteSet(Addresses) /\ Addresses # {} /\ IsFiniteSet(Fetches)
    /\ MaxPending \in Nat \ {0}
    /\ {MaxClicks, MaxSwitches, MaxCharges, MaxPlans, MaxFaults} \subseteq Nat

VARIABLES
    sub,        \* the Subscriptions as they are
    factory,    \* the Factory as it is
    view,       \* what useSubscription holds
    pending,    \* its requests, with what they read once they are served
    timers,     \* addresses with an interval running
    shown,      \* what useFactory holds
    fetch,      \* the calls of fetchFactory
    button,     \* what the wallet is asked to confirm
    sent,       \* confirmed messages under way
    used        \* how much of the bounds is used

onPage == <<view, pending, timers>>
onFact == <<shown, fetch>>
vars   == <<sub, factory, onPage, onFact, button, sent, used>>

Within(what, bound) == used[what] < bound /\ used' = [used EXCEPT ![what] = @ + 1]

(***************************************************************************)
(* What the buttons ask the wallet to send.                                *)
(***************************************************************************)
NoRequest == [op |-> "none"]

UseCancel(a) == [op |-> "CANCEL", to |-> a]
UseTopUp(a)  == [op |-> "TOP_UP", to |-> a]
UsePause(a)  == [op |-> "PAUSE_SUB", to |-> a]
UseResume(a) == [op |-> "RESUME_SUB", to |-> a]
HandleFund   == [op |-> "FUND_KEEPER_POOL"]

Buttons == IF view.mounted = "subscription"
           THEN {UseCancel(view.address), UseTopUp(view.address),
                 UsePause(view.address), UseResume(view.address)}
           ELSE {HandleFund}

Click(m) ==
    /\ button = NoRequest /\ Within("clicks", MaxClicks) /\ m \in Buttons
    /\ button' = m
    /\ UNCHANGED <<sub, factory, onPage, onFact, sent>>

Rejects ==
    /\ button # NoRequest /\ button' = NoRequest
    /\ UNCHANGED <<sub, factory, onPage, onFact, sent, used>>

\* fetchFactory from its start: its first call.
StartsFetch(f) ==
    /\ fetch[f].pc = "new"
    /\ fetch' = [fetch EXCEPT ![f].pc = "count"]
    /\ shown' = [shown EXCEPT !.loading = TRUE, !.error = FALSE]

\* A confirmed contribution is followed by a refetch, whether it arrived or not.
Confirms ==
    /\ button # NoRequest /\ button' = NoRequest
    /\ sent' = sent \cup {button}
    /\ IF button = HandleFund /\ \E f \in Fetches : fetch[f].pc = "new"
         THEN \E f \in Fetches : StartsFetch(f)
         ELSE UNCHANGED onFact
    /\ UNCHANGED <<sub, factory, onPage, used>>

(***************************************************************************)
(* The contracts: what matters of them to a page.                          *)
(***************************************************************************)
Applied(s, m) ==
    CASE s.status = "CANCELLED" -> s
      [] m.op = "CANCEL"        -> [s EXCEPT !.status = "CANCELLED", !.deposit = 0]
      [] m.op = "TOP_UP"        -> [s EXCEPT !.deposit = @ + 1]
      [] m.op = "PAUSE_SUB"     -> [s EXCEPT !.status = "PAUSED"]
      [] m.op = "RESUME_SUB"    -> [s EXCEPT !.status = "ACTIVE"]
      [] OTHER                  -> s

Arrives(m) ==
    /\ m \in sent /\ sent' = sent \ {m}
    /\ IF m = HandleFund
         THEN factory' = [factory EXCEPT !.keeperPool = @ + 1] /\ sub' = sub
         ELSE sub' = [sub EXCEPT ![m.to] = Applied(@, m)] /\ factory' = factory
    /\ UNCHANGED <<onPage, onFact, button, used>>

\* Whoever is charged has a plan; every plan costs 1.
FactoryCharged ==
    /\ view.mounted = "factory" /\ factory.plans > 0 /\ Within("charges", MaxCharges)
    /\ factory' = [factory EXCEPT !.charges = @ + 1, !.revenue = @ + 1]
    /\ UNCHANGED <<sub, onPage, onFact, button, sent>>
FactoryAddsPlan ==
    /\ view.mounted = "factory" /\ factory.plans < MaxPlans
    /\ factory' = [factory EXCEPT !.plans = @ + 1]
    /\ UNCHANGED <<sub, onPage, onFact, button, sent, used>>

(***************************************************************************)
(* useSubscription.                                                        *)
(***************************************************************************)
Asks(a) == pending \cup {[id |-> used.asked, address |-> a, served |-> FALSE, got |-> sub[a]]}
Request(a) ==
    /\ Cardinality(pending) < MaxPending
    /\ pending' = Asks(a)
    /\ used' = [used EXCEPT !.asked = (@ + 1) % (MaxPending + 1)]

\* Mutated: the effect has no cleanup.
KeepsInterval(old) == timers
\* The effect's cleanup.
ClearInterval(old) == timers \ {old}

\* The page is given another address: the effect runs again.
Switch(a) ==
    /\ view.mounted = "subscription" /\ a # view.address
    /\ view.switches < MaxSwitches
    /\ view' = [view EXCEPT !.address = a, !.switches = @ + 1, !.loading = TRUE, !.error = FALSE]
    /\ timers' = ClearInterval(view.address) \cup {a}
    /\ Request(a)
    /\ UNCHANGED <<sub, factory, onFact, button, sent>>

\* The interval calls the fetch it was set with.
Interval(a) ==
    /\ a \in timers /\ Request(a)
    /\ view' = [view EXCEPT !.loading = TRUE, !.error = FALSE]
    /\ UNCHANGED <<sub, factory, timers, onFact, button, sent>>

Served(r) ==
    /\ r \in pending /\ ~r.served
    /\ pending' = (pending \ {r}) \cup {[r EXCEPT !.served = TRUE, !.got = sub[r.address]]}
    /\ UNCHANGED <<sub, factory, view, timers, onFact, button, sent, used>>

\* setData takes any answer, for whichever address and however late.
Answered(r) ==
    /\ r \in pending /\ r.served /\ pending' = pending \ {r}
    /\ view' = [view EXCEPT !.data = r.got, !.of = {r.address}, !.loading = FALSE]
    /\ UNCHANGED <<sub, factory, timers, onFact, button, sent, used>>

Unanswered(r) ==
    /\ r \in pending /\ pending' = pending \ {r} /\ Within("faults", MaxFaults)
    /\ view' = [view EXCEPT !.error = TRUE, !.loading = FALSE]
    /\ UNCHANGED <<sub, factory, timers, onFact, button, sent>>

(***************************************************************************)
(* useFactory.                                                             *)
(***************************************************************************)
Waiting == {"count", "revenue", "charges", "pool"}

Value(pc) ==
    CASE pc = "count"   -> factory.plans
      [] pc = "revenue" -> factory.revenue
      [] pc = "charges" -> factory.charges
      [] pc = "pool"    -> factory.keeperPool

FetchServed(f) ==
    /\ fetch[f].pc \in Waiting /\ ~fetch[f].served
    /\ fetch' = [fetch EXCEPT ![f] = [pc |-> fetch[f].pc, served |-> TRUE, got |-> Value(fetch[f].pc)]]
    /\ UNCHANGED <<sub, factory, onPage, shown, button, sent, used>>

Goes(f, pc) == fetch' = [fetch EXCEPT ![f] = [pc |-> pc, served |-> FALSE, got |-> 0]]

\* Mutated: no finally.
ThrowsWithoutFinally(f) == Goes(f, "done") /\ shown' = [shown EXCEPT !.error = TRUE]
\* The call throws and the fetch ends: what was set before stays.
FetchThrows(f) == Goes(f, "done") /\ shown' = [shown EXCEPT !.error = TRUE, !.loading = FALSE]

\* One answer, and the next call.  Where the count is not zero that is
\* getPlanData, with a provider for its plan id.
FetchAnswered(f) ==
    LET pc == fetch[f].pc  got == fetch[f].got IN
    /\ pc \in Waiting /\ fetch[f].served
    /\ \/ pc = "count" /\ got > 0 /\ FetchThrows(f)
       \/ pc = "count" /\ got = 0 /\ Goes(f, "revenue") /\ shown' = shown
       \/ pc = "revenue" /\ Goes(f, "charges") /\ shown' = [shown EXCEPT !.revenue = got]
       \/ pc = "charges" /\ Goes(f, "pool") /\ shown' = [shown EXCEPT !.charges = got]
       \/ pc = "pool" /\ Goes(f, "done") /\ shown' = [shown EXCEPT !.pool = got, !.loading = FALSE]
    /\ UNCHANGED <<sub, factory, onPage, button, sent, used>>

FetchFails(f) ==
    /\ fetch[f].pc \in Waiting /\ Within("faults", MaxFaults) /\ FetchThrows(f)
    /\ UNCHANGED <<sub, factory, onPage, button, sent>>

Refetch(f) == view.mounted = "factory" /\ StartsFetch(f)
                /\ UNCHANGED <<sub, factory, onPage, button, sent, used>>

Fresh  == [status |-> "ACTIVE", deposit |-> 1]
NoData == [status |-> "none", deposit |-> 0]

\* The page as it is mounted, its first request made, on a Factory that has a
\* plan by then or none yet.
Init ==
    /\ sub = [a \in Addresses |-> Fresh]
    /\ \E n \in {0, 1} : factory = [plans |-> n, revenue |-> 0, charges |-> 0, keeperPool |-> 0]
    /\ \E m \in {"subscription", "factory"}, a \in Addresses :
         /\ view = [mounted |-> m, address |-> a, data |-> NoData, of |-> {}, switches |-> 0,
                    loading |-> m = "subscription", error |-> FALSE]
         /\ pending = IF m = "subscription"
                      THEN {[id |-> 0, address |-> a, served |-> FALSE, got |-> Fresh]} ELSE {}
         /\ timers = IF m = "subscription" THEN {a} ELSE {}
    /\ shown = [revenue |-> 0, charges |-> 0, pool |-> 0, loading |-> FALSE, error |-> FALSE]
    /\ fetch = [f \in Fetches |-> [pc |-> "new", served |-> FALSE, got |-> 0]]
    /\ button = NoRequest /\ sent = {}
    /\ used = [clicks |-> 0, charges |-> 0, faults |-> 0, asked |-> 1]

Contracts == FactoryCharged \/ FactoryAddsPlan \/ \E m \in sent : Arrives(m)
User      == (\E m \in Buttons : Click(m)) \/ Rejects \/ Confirms
                \/ \E a \in Addresses : Switch(a)
Replies(a) == \E r \in pending : r.address = a /\ (Served(r) \/ Answered(r))
Lost      == \E r \in pending : Unanswered(r)
FactoryView == \E f \in Fetches : Refetch(f) \/ FetchServed(f) \/ FetchAnswered(f) \/ FetchFails(f)

Next == Contracts \/ User \/ Lost \/ FactoryView
            \/ \E a \in Addresses : Interval(a) \/ Replies(a)

\* Intervals fire; a request is served and answered in the end, or counted as a
\* fault.  Nothing is assumed of the user, the wallet or the contracts.
Spec == Init /\ [][Next]_vars
FairSpec == Spec /\ \A a \in Addresses : WF_vars(Interval(a)) /\ WF_vars(Replies(a))

(***************************************************************************)
(* Properties.                                                             *)
(***************************************************************************)
\* Once user and contracts rest, useSubscription comes to show the Subscription
\* of its address as it is, and nothing replaces that again, whatever late answers
\* were under way to the address before (setInterval and its cleanup).
ViewConverges ==
    <>[](view.mounted = "subscription" =>
            view.of = {view.address} /\ view.data = sub[view.address])

\* What shows as loading is asked for still: calls that overlap share one flag,
\* and whichever ends last, by an answer, a failure or the call that throws, leaves
\* it down (the finally of useSubscription and of fetchFactory).
LoadingIsAsked ==
    /\ view.loading => pending # {}
    /\ shown.loading => \E f \in Fetches : fetch[f].pc \in Waiting
=============================================================================
