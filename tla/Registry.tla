------------------------------- MODULE Registry -------------------------------
(***************************************************************************)
(* The Registry: any wallet registers once as a service and gets a Factory *)
(* deployed on the Registry's terms of that moment; the owner changes the  *)
(* terms, pauses, removes entries and withdraws.                           *)
(*                                                                         *)
(* As in Factory, a message is read when it arrives, one that throws comes *)
(* back and changes nothing, and money is in units of 0.005 TON.           *)
(***************************************************************************)
EXTENDS Naturals, FiniteSets

CONSTANTS
    Services,       \* wallets that register
    RegistryOwner,  \* owner_addr
    FeeRates,       \* fees the owner tries, in basis points
    Addresses,      \* collectors of fees
    RelayerKeys,
    Values,         \* what a service sends with OP_REGISTRY_REGISTER
    MaxRegistryOps  \* bound on the messages to the Registry

REGISTRY_RESERVE     == 20
FACTORY_INIT_DEPOSIT == 30
\* Mutated: enough to deploy the Factory, nothing for the Registry's own gas.
DepositOnly          == FACTORY_INIT_DEPOSIT
REGISTRY_MIN_VALUE   == 40
MAX_FEE_BPS          == 1000
DeployedWith         == 100     \* the value deploy-registry sends

\* The most a transaction takes from the balance; a registration also forwards
\* the code of two contracts.
OpGas       == 1
RegisterGas == 10

ASSUME RegistryConstants ==
    /\ RegistryOwner \notin Services /\ IsFiniteSet(Services)
    /\ FeeRates \subseteq Nat /\ FeeRates \cap (0..MAX_FEE_BPS) # {}
    /\ Addresses # {} /\ RelayerKeys # {} /\ Values \subseteq Nat
    /\ MaxRegistryOps \in Nat

VARIABLES
    terms,          \* what a new Factory is given
    regPaused, services, factoryCount,
    regBalance,
    deploying,      \* deployments under way
    factories,      \* Factories that are active
    regOps          \* how much of MaxRegistryOps is used

regVars == <<terms, regPaused, services, factoryCount, regBalance, deploying, factories, regOps>>

(***************************************************************************)
(* What the wrapper deploys and sends.                                     *)
(***************************************************************************)
RegInit ==
    /\ terms \in {t \in [platformFeeBps : FeeRates, feeCollector : Addresses,
                         protocolFeeCollector : Addresses, relayerPubkey : RelayerKeys] :
                    t.platformFeeBps <= MAX_FEE_BPS}
    /\ regPaused = FALSE /\ services = <<>> /\ factoryCount = 0
    /\ regBalance = DeployedWith /\ deploying = {} /\ factories = {} /\ regOps = 0

RegisterMsg(w, v)          == [op |-> "REGISTER", from |-> w, value |-> v]
UpdateFeeMsg(w, bps)       == [op |-> "UPDATE_FEE", from |-> w, feeBps |-> bps, value |-> 10]
UpdateCollectorMsg(w, a)   == [op |-> "UPDATE_COLLECTOR", from |-> w, address |-> a, value |-> 10]
UpdateRelayerMsg(w, k)     == [op |-> "UPDATE_RELAYER", from |-> w, key |-> k, value |-> 10]
UpdateProtocolMsg(w, a)    ==
    [op |-> "UPDATE_PROTOCOL_COLLECTOR", from |-> w, address |-> a, value |-> 10]
PauseRegistryMsg(w)        == [op |-> "PAUSE", from |-> w, value |-> 10]
ResumeRegistryMsg(w)       == [op |-> "RESUME", from |-> w, value |-> 10]
DeregisterMsg(w, s)        == [op |-> "DEREGISTER", from |-> w, service |-> s, value |-> 10]
WithdrawRegistryMsg(w)     == [op |-> "WITHDRAW", from |-> w, value |-> 10]

(***************************************************************************)
(* The handlers.                                                           *)
(***************************************************************************)
\* Mutated: the Factory is built for the Registry's owner.
BuildForOwner(service) == [owner |-> RegistryOwner, terms |-> terms]
\* The address of a Factory is the hash of what it starts with.
BuildFactoryInit(service) == [owner |-> service, terms |-> terms]

WithFactory(s, f) == [t \in DOMAIN services \cup {s} |-> IF t = s THEN f ELSE services[t]]
WithoutFactory(s) == [t \in DOMAIN services \ {s} |-> services[t]]

\* my_balance holds the message's value already.
Affords(m) ==
    /\ m.value >= REGISTRY_MIN_VALUE
    /\ regBalance + m.value >= REGISTRY_RESERVE + FACTORY_INIT_DEPOSIT

Register(m) ==
    /\ ~regPaused /\ Affords(m)
    /\ m.from \notin DOMAIN services
    /\ LET f == BuildFactoryInit(m.from) IN
         /\ deploying' = deploying \cup {f}
         /\ services' = WithFactory(m.from, f)
    /\ factoryCount' = factoryCount + 1
    /\ regBalance' = (regBalance + m.value) - (FACTORY_INIT_DEPOSIT + RegisterGas)
    /\ UNCHANGED <<terms, regPaused, factories>>

ByOwner(m)    == m.from = RegistryOwner
Credited(m)   == regBalance' = (regBalance + m.value) - OpGas
OnlyTerms(m)  == ByOwner(m) /\ Credited(m)
                   /\ UNCHANGED <<regPaused, services, factoryCount, deploying, factories>>

ValidFee(bps) == bps <= MAX_FEE_BPS

UpdateFee(m) ==
    /\ ValidFee(m.feeBps)
    /\ terms' = [terms EXCEPT !.platformFeeBps = m.feeBps] /\ OnlyTerms(m)
UpdateCollector(m) == terms' = [terms EXCEPT !.feeCollector = m.address] /\ OnlyTerms(m)
UpdateRelayer(m)   == terms' = [terms EXCEPT !.relayerPubkey = m.key] /\ OnlyTerms(m)
UpdateProtocol(m)  == terms' = [terms EXCEPT !.protocolFeeCollector = m.address] /\ OnlyTerms(m)

SetRegPaused(m, p) ==
    /\ ByOwner(m) /\ Credited(m) /\ regPaused' = p
    /\ UNCHANGED <<terms, services, factoryCount, deploying, factories>>
PauseRegistry(m)  == SetRegPaused(m, TRUE)
ResumeRegistry(m) == SetRegPaused(m, FALSE)

Deregister(m) ==
    /\ ByOwner(m) /\ Credited(m)
    /\ m.service \in DOMAIN services
    /\ services' = WithoutFactory(m.service)
    /\ factoryCount' = factoryCount - 1
    /\ UNCHANGED <<terms, regPaused, deploying, factories>>

\* The reserve is made after the gas is taken, or the action phase fails.
WithdrawRegistry(m) ==
    /\ ByOwner(m) /\ regBalance + m.value > REGISTRY_RESERVE
    /\ LET left == (regBalance + m.value) - OpGas
       IN  regBalance' = IF left >= REGISTRY_RESERVE THEN REGISTRY_RESERVE ELSE left
    /\ UNCHANGED <<terms, regPaused, services, factoryCount, deploying, factories>>

\* A deployment arrives; at an active Factory it is a plain deposit.
FactoryDeployed(f) ==
    /\ f \in deploying
    /\ deploying' = deploying \ {f} /\ factories' = factories \cup {f}
    /\ UNCHANGED <<terms, regPaused, services, factoryCount, regBalance, regOps>>

Wallets == Services \cup {RegistryOwner}

ToRegistry(w) ==
    \/ \E v \in Values : w \in Services /\ Register(RegisterMsg(w, v))
    \/ \E bps \in FeeRates : UpdateFee(UpdateFeeMsg(w, bps))
    \/ \E a \in Addresses : \/ UpdateCollector(UpdateCollectorMsg(w, a))
                            \/ UpdateProtocol(UpdateProtocolMsg(w, a))
    \/ \E k \in RelayerKeys : UpdateRelayer(UpdateRelayerMsg(w, k))
    \/ PauseRegistry(PauseRegistryMsg(w)) \/ ResumeRegistry(ResumeRegistryMsg(w))
    \/ \E s \in Services : Deregister(DeregisterMsg(w, s))
    \/ WithdrawRegistry(WithdrawRegistryMsg(w))

RegReceive == regOps < MaxRegistryOps /\ regOps' = regOps + 1 /\ \E w \in Wallets : ToRegistry(w)

RegNext == RegReceive \/ \E f \in deploying : FactoryDeployed(f)

RegSpec == RegInit /\ [][RegNext]_regVars

(***************************************************************************)
(* Properties.                                                             *)
(***************************************************************************)
\* The smallest registration right after a withdrawal of everything still leaves
\* the Registry its rent reserve (REGISTRY_MIN_VALUE against REGISTRY_RESERVE).
RentCovered == regBalance >= REGISTRY_RESERVE

\* A service is registered with a Factory it owns, live or on its way, no two
\* services share one, and factory_count counts them, whatever terms change and
\* whoever is removed and registers again (build_factory_init, OP_REGISTRY_DEREGISTER).
OneFactoryEach ==
    /\ factoryCount = Cardinality(DOMAIN services)
    /\ \A s \in DOMAIN services :
         services[s].owner = s /\ services[s] \in deploying \cup factories
    /\ \A s, t \in DOMAIN services : services[s] = services[t] => s = t
=============================================================================
