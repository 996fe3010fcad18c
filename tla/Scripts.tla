-------------------------------- MODULE Scripts --------------------------------
(***************************************************************************)
(* The deployment and operator scripts, between an HTTP API that may fail, *)
(* a wallet that takes one message per seqno, and the contracts.  A script *)
(* is a sequence of steps; Terminals run one each, perhaps on the same     *)
(* wallet, and whatever happens to the contracts happens through messages  *)
(* that were signed, taken by the wallet and delivered.                    *)
(***************************************************************************)
EXTENDS Registry, Sequences

CONSTANTS
    Terminals,
    Starts,         \* what the terminals may start together
    MaxPolls,       \* turns of a waiting loop before its deadline
    MaxFaults       \* bound on calls of the API that fail

ASSUME ScriptConstants ==
    /\ IsFiniteSet(Terminals) /\ Services # {} /\ MaxPolls \in Nat /\ MaxFaults \in Nat
    /\ Starts \subseteq [Terminals -> {"deploy-standalone", "deploy-registry", "register-service",
                          "add-plan", "cancel-subscription", "test-subscribe", "test-e2e"}]

VARIABLES
    script,     \* what each terminal runs and how far it is
    seqnos,     \* of the wallets
    mempool,    \* signed messages no wallet has taken
    flight,     \* messages of wallets under way
    active,     \* contracts that are deployed
    changed,    \* what messages to a Factory or a Subscription brought about
    faults

net  == <<seqnos, mempool, flight>>
vars == <<script, net, active, changed, faults, regVars>>

Targets == {"FeeCollector", "Registry", "Factory", "TestFactory"}

(***************************************************************************)
(* The scripts.                                                            *)
(***************************************************************************)
Deploy(target)   == [kind |-> "deploy", to |-> target]
RegisterOrder    == [kind |-> "register", to |-> "Registry"]
AddPlanOrder     == [kind |-> "plan", to |-> "Factory"]
CancelOrder      == [kind |-> "cancellation", to |-> "Factory"]
SubscribeOrder(factory) == [kind |-> "subscription", to |-> factory]

Step(what)       == [do |-> what]
Send(m)          == <<Step("seqno"), [do |-> "send", msg |-> m]>>

\* Mutated: the next deployment does not wait for this one.
EnsureSent(target) == <<[do |-> "unless", to |-> target, skip |-> 3]>> \o Send(Deploy(target))
\* if (await isDeployed(addr)) skip; else send and wait
EnsureDeployed(target) ==
    <<[do |-> "unless", to |-> target, skip |-> 4]>> \o Send(Deploy(target))
        \o <<[do |-> "deployed", to |-> target]>>

DeployStandalone == <<Step("balance")>> \o EnsureDeployed("FeeCollector") \o EnsureDeployed("Factory")
DeployRegistry   == <<Step("balance")>> \o EnsureDeployed("FeeCollector") \o EnsureDeployed("Registry")
RegisterService  == <<[do |-> "require", to |-> "Registry"]>> \o Send(RegisterOrder)
                        \o <<Step("tx"), Step("factory")>>
AddPlanScript    == <<Step("print")>> \o Send(AddPlanOrder) \o <<Step("tx"), Step("print")>>
CancelScript     == <<Step("print")>> \o Send(CancelOrder) \o <<Step("tx")>>
TestSubscribe    == <<Step("plan")>> \o Send(SubscribeOrder("Factory"))
                        \o <<Step("tx"), Step("subscription")>>
DeployTestFactory == EnsureDeployed("TestFactory")
SubscribeToIt     == Send(SubscribeOrder("TestFactory"))
TestE2E           == <<Step("print")>> \o DeployTestFactory \o SubscribeToIt

Program(name) ==
    CASE name = "deploy-standalone"   -> DeployStandalone
      [] name = "deploy-registry"     -> DeployRegistry
      [] name = "register-service"    -> RegisterService
      [] name = "add-plan"            -> AddPlanScript
      [] name = "cancel-subscription" -> CancelScript
      [] name = "test-subscribe"      -> TestSubscribe
      [] name = "test-e2e"            -> TestE2E

Deployer(name) == name \in {"deploy-standalone", "deploy-registry", "test-e2e"}
WalletOf(t)    == IF Deployer(script[t].name) THEN RegistryOwner ELSE CHOOSE s \in Services : TRUE

Running(t) == script[t].result = "running"
Steps(t)   == Program(script[t].name)
At(t, what) == Running(t) /\ Steps(t)[script[t].pc].do = what
This(t)    == Steps(t)[script[t].pc]

Ends(t, how) == script' = [script EXCEPT ![t].result = how]
\* Goes n steps on, or is done.
Goes(t, n) ==
    LET pc == script[t].pc + n
    IN  script' = [script EXCEPT ![t].pc = pc, ![t].tries = 0,
                                 ![t].result = IF pc > Len(Steps(t)) THEN "done" ELSE "running"]
Fault == faults < MaxFaults /\ faults' = faults + 1
Fine  == faults' = faults
Still == UNCHANGED <<net, active, changed, regVars>>

(***************************************************************************)
(* The steps.                                                              *)
(***************************************************************************)
\* fetch rejects, or the answer is no JSON: main() ends with exit code 1.
Rejected(t) ==
    /\ Running(t) /\ This(t).do \notin {"factory", "subscription"}
    /\ Fault /\ Ends(t, "failed") /\ Still

\* Too little in the wallet, or an API error read as a balance of 0, ends it.
CheckBalance(t) == At(t, "balance") /\ (Goes(t, 1) \/ Ends(t, "failed")) /\ Fine /\ Still

\* isDeployed is false also when the API answers with an error.
IsDeployed(target, is) == (target \in active /\ is /\ Fine) \/ (target \notin active /\ ~is /\ Fine)
                              \/ (~is /\ Fault)

SkipIfDeployed(t) ==
    /\ At(t, "unless")
    /\ \E is \in BOOLEAN : IsDeployed(This(t).to, is) /\ Goes(t, IF is THEN This(t).skip ELSE 1)
    /\ Still

RequireDeployed(t) ==
    /\ At(t, "require")
    /\ \E is \in BOOLEAN :
         IsDeployed(This(t).to, is) /\ (IF is THEN Goes(t, 1) ELSE Ends(t, "failed"))
    /\ Still

\* getPlanCount, getBalance, the webhook's answer: printed, never looked at.
JustPrint(t) == At(t, "print") /\ Goes(t, 1) /\ Fine /\ Still

\* getPlanData throws when the getter fails.
GetPlanData(t) ==
    /\ At(t, "plan") /\ (IF "Factory" \in active THEN Goes(t, 1) ELSE Ends(t, "failed"))
    /\ Fine /\ Still

\* An error is read as the seqno of a wallet that is not deployed.
GetSeqno(w, n) == (n = seqnos[w] /\ Fine) \/ (n = 0 /\ Fault)

ReadSeqno(t) ==
    /\ At(t, "seqno")
    /\ \E n \in {0, seqnos[WalletOf(t)]} :
         /\ GetSeqno(WalletOf(t), n)
         /\ script' = [script EXCEPT ![t].pc = @ + 1, ![t].seqno = n]
    /\ Still

Signed(t) == [wallet |-> WalletOf(t), seqno |-> script[t].seqno, msg |-> This(t).msg]

SendTx(t) ==
    /\ At(t, "send") /\ Goes(t, 1) /\ Fine
    /\ mempool' = mempool \cup {Signed(t)}
    /\ UNCHANGED <<seqnos, flight, active, changed, regVars>>
\* sendBoc throws: the API refused what the wallet would not take, or its answer
\* to a message it took is an error.
SendRefused(t) ==
    /\ At(t, "send") /\ Ends(t, "failed")
    /\ \/ script[t].seqno # seqnos[WalletOf(t)] /\ Fine /\ UNCHANGED mempool
       \/ Fault /\ mempool' = mempool \cup {Signed(t)}
    /\ UNCHANGED <<seqnos, flight, active, changed, regVars>>

Waiting(t) == Running(t) /\ This(t).do \in {"deployed", "tx", "factory", "subscription"}

\* What a waiting loop looks for; yes is what it reads.
WaitDeployed(t, yes) == At(t, "deployed") /\ IsDeployed(This(t).to, yes)
WaitTx(t, yes) ==
    At(t, "tx") /\ \E n \in {0, seqnos[WalletOf(t)]} :
                       GetSeqno(WalletOf(t), n) /\ yes = (n >= script[t].seqno + 1)
WaitFactoryDeployed(t, yes) ==
    /\ At(t, "factory")
    /\ (yes = (WalletOf(t) \in DOMAIN services) /\ Fine) \/ (~yes /\ Fault)
\* Any large message of the Factory will do, whoever it is for.
WaitSubscription(t, yes) == At(t, "subscription") /\ (Fine \/ (~yes /\ Fault))

Sees(t, yes) == WaitDeployed(t, yes) \/ WaitTx(t, yes)
                    \/ WaitFactoryDeployed(t, yes) \/ WaitSubscription(t, yes)

\* Mutated: a loop without a deadline.
NeverOutOfTime(t) == FALSE
OutOfTime(t) == script[t].tries >= MaxPolls

\* Mutated: the loop returns at its deadline instead of throwing.
ReturnsAtDeadline(t) == Goes(t, 1)
ThrowsAtDeadline(t)  == Ends(t, "failed")

Poll(t) ==
    /\ Waiting(t) /\ ~OutOfTime(t)
    /\ \/ Sees(t, TRUE) /\ Goes(t, 1)
       \/ Sees(t, FALSE) /\ script' = [script EXCEPT ![t].tries = IF @ < MaxPolls THEN @ + 1 ELSE @]
    /\ Still

Timeout(t) == Waiting(t) /\ OutOfTime(t) /\ ThrowsAtDeadline(t) /\ Fine /\ Still

\* main() of a terminal goes on.
Runs(t) ==
    \/ CheckBalance(t) \/ SkipIfDeployed(t) \/ RequireDeployed(t) \/ JustPrint(t)
    \/ GetPlanData(t) \/ ReadSeqno(t) \/ SendTx(t) \/ SendRefused(t) \/ Poll(t) \/ Timeout(t)

(***************************************************************************)
(* The wallets and the network.                                            *)
(***************************************************************************)
WalletTakes(m) ==
    /\ m \in mempool /\ m.seqno = seqnos[m.wallet]
    /\ seqnos' = [seqnos EXCEPT ![m.wallet] = @ + 1]
    /\ mempool' = mempool \ {m}
    /\ flight' = flight \cup {[wallet |-> m.wallet, msg |-> m.msg]}
    /\ UNCHANGED <<script, active, changed, faults, regVars>>

\* Its valid_until passes, or a node drops it.
Expires(m) ==
    /\ m \in mempool /\ mempool' = mempool \ {m}
    /\ UNCHANGED <<script, seqnos, flight, active, changed, faults, regVars>>

Arrived(f) == f \in flight /\ flight' = flight \ {f} /\ UNCHANGED <<script, seqnos, mempool, faults>>

DeployArrives(f) ==
    /\ Arrived(f) /\ f.msg.kind = "deploy" /\ active' = active \cup {f.msg.to}
    /\ UNCHANGED <<changed, regVars>>

RegisterArrives(f) ==
    /\ Arrived(f) /\ f.msg.kind = "register" /\ "Registry" \in active
    /\ Register(RegisterMsg(f.wallet, 60)) /\ UNCHANGED <<active, changed, regOps>>

\* What a Factory or a Subscription does with its order is in their own modules.
OrderArrives(f) ==
    /\ Arrived(f) /\ f.msg.kind \notin {"deploy", "register"} /\ f.msg.to \in active
    /\ changed' = changed \cup {f.msg.kind} /\ UNCHANGED <<active, regVars>>

Bounced(f) == Arrived(f) /\ f.msg.kind # "deploy" /\ UNCHANGED <<active, changed, regVars>>

OwnerPauses ==
    /\ regOps < MaxRegistryOps /\ regOps' = regOps + 1 /\ "Registry" \in active
    /\ PauseRegistry(PauseRegistryMsg(RegistryOwner)) \/ ResumeRegistry(ResumeRegistryMsg(RegistryOwner))
    /\ UNCHANGED <<script, net, active, changed, faults>>

ServiceFactoryDeployed(f) == FactoryDeployed(f) /\ UNCHANGED <<script, net, active, changed, faults>>

Network ==
    \/ \E m \in mempool : WalletTakes(m) \/ Expires(m)
    \/ \E f \in flight : DeployArrives(f) \/ RegisterArrives(f) \/ OrderArrives(f) \/ Bounced(f)
    \/ OwnerPauses
    \/ \E f \in deploying : ServiceFactoryDeployed(f)

Init ==
    /\ \E start \in Starts :
         script = [t \in Terminals |-> [name |-> start[t], pc |-> 1, seqno |-> 0, tries |-> 0,
                                       result |-> "running"]]
    /\ \E n \in {0, 1} : seqnos = [w \in Wallets |-> n]
    /\ mempool = {} /\ flight = {}
    /\ active \in {{}, {"FeeCollector", "Registry", "Factory"}}
    /\ changed = {} /\ faults = 0
    /\ RegInit

Next == (\E t \in Terminals : Runs(t) \/ Rejected(t)) \/ Network

\* A call of the API ends: Node gives up on a silent one.  Nothing is assumed of
\* the network.
Spec == Init /\ [][Next]_vars /\ \A t \in Terminals : WF_vars(Runs(t))

(***************************************************************************)
(* Properties.                                                             *)
(***************************************************************************)
\* A deployment that reports success has deployed its contracts, and a
\* registration that does has its service in the Registry, whatever calls failed
\* and whoever used the wallet meanwhile (waitDeployed, waitFactoryDeployed).
DoneIsTrue ==
    \A t \in Terminals : script[t].result = "done" =>
        /\ script[t].name = "deploy-standalone" => {"FeeCollector", "Factory"} \subseteq active
        /\ script[t].name = "deploy-registry" => {"FeeCollector", "Registry"} \subseteq active
        /\ script[t].name = "register-service" => WalletOf(t) \in DOMAIN services

\* No Factory and no Registry that a deploy script sends is live before the
\* FeeCollector deployed for it, also when deployments race or are run again (main
\* of both deploy scripts; the Factory of the end-to-end test is another one).
CollectorFirst == {"Factory", "Registry"} \cap active # {} => "FeeCollector" \in active

\* Every script comes to an end, also when its message is lost, its seqno is taken
\* by another terminal or the contract refuses (the deadlines of the loops).
EveryScriptEnds == \A t \in Terminals : <>(script[t].result \in {"done", "failed"})
=============================================================================
