--------------------------- MODULE Registry_proofs ---------------------------
(***************************************************************************)
(* What holds of Registry for every value of its constants: the types, the *)
(* rent reserve, and that each registered service has a Factory of its own.*)
(***************************************************************************)
EXTENDS Registry, FiniteSetTheorems, TLAPS

Terms == {t \in [platformFeeBps : FeeRates, feeCollector : Addresses,
                 protocolFeeCollector : Addresses, relayerPubkey : RelayerKeys] :
            t.platformFeeBps <= MAX_FEE_BPS}

\* What the properties need of the types; no Factory is ever deployed on a fee
\* above the maximum.
RegistryTypes ==
    /\ terms \in Terms
    /\ regBalance \in Nat
    /\ DOMAIN services \subseteq Services
    /\ deploying \cup factories \subseteq [owner : Services, terms : Terms]

RegistryInv == RegistryTypes /\ RentCovered /\ OneFactoryEach

LEMMA ConstantTypes ==
    /\ IsFiniteSet(Services) /\ FeeRates \subseteq Nat /\ Values \subseteq Nat
    /\ REGISTRY_RESERVE = 20 /\ FACTORY_INIT_DEPOSIT = 30 /\ REGISTRY_MIN_VALUE = 40
    /\ OpGas = 1 /\ RegisterGas = 10 /\ DeployedWith = 100
  BY RegistryConstants DEF REGISTRY_RESERVE, FACTORY_INIT_DEPOSIT, REGISTRY_MIN_VALUE,
                           OpGas, RegisterGas, DeployedWith

-----------------------------------------------------------------------------
\* The Registry is deployed with more than its reserve and no service.
LEMMA RegistryInit == RegInit => RegistryInv
<1> SUFFICES ASSUME RegInit PROVE RegistryInv
  OBVIOUS
<1>1. DOMAIN services = {}
  BY DEF RegInit
<1>2. RegistryTypes
  BY <1>1, ConstantTypes DEF RegInit, RegistryTypes, Terms
<1>3. RentCovered
  BY ConstantTypes DEF RegInit, RentCovered
<1>4. OneFactoryEach
  BY <1>1, FS_EmptySet DEF RegInit, OneFactoryEach
<1> QED BY <1>2, <1>3, <1>4 DEF RegistryInv

-----------------------------------------------------------------------------
(* A registration.                                                         *)

\* The smallest registration leaves the reserve when the reserve was there.
LEMMA RegisterKeepsRent ==
    ASSUME RegistryInv, NEW m, m.value \in Nat, Register(m)
    PROVE  RentCovered' /\ regBalance' \in Nat
<1>1. regBalance \in Nat /\ regBalance >= 20
  BY ConstantTypes DEF RegistryInv, RegistryTypes, RentCovered
<1>2. m.value >= 40
  BY ConstantTypes DEF Register, Affords
<1>3. regBalance' = (regBalance + m.value) - 40
  BY <1>1, ConstantTypes DEF Register
<1> QED BY <1>1, <1>2, <1>3, ConstantTypes DEF RentCovered

\* The new entry is the sender's, and differs from every other in its owner.
LEMMA RegisterOneEach ==
    ASSUME RegistryInv, NEW w \in Services, NEW m, m.from = w, Register(m)
    PROVE  OneFactoryEach' /\ DOMAIN services' = DOMAIN services \cup {w}
<1> DEFINE f == BuildFactoryInit(w)
<1>1. /\ services' = WithFactory(w, f) /\ deploying' = deploying \cup {f}
      /\ factories' = factories /\ factoryCount' = factoryCount + 1
      /\ w \notin DOMAIN services
  BY DEF Register
<1>2. /\ DOMAIN services' = DOMAIN services \cup {w}
      /\ services'[w] = f
      /\ \A s \in DOMAIN services : services'[s] = services[s]
  BY <1>1 DEF WithFactory
<1>3. f.owner = w
  BY DEF BuildFactoryInit
<1>4. IsFiniteSet(DOMAIN services)
  BY ConstantTypes, FS_Subset DEF RegistryInv, RegistryTypes
<1>5. factoryCount' = Cardinality(DOMAIN services')
  BY <1>1, <1>2, <1>4, FS_AddElement DEF RegistryInv, OneFactoryEach
<1>6. \A s \in DOMAIN services' :
         services'[s].owner = s /\ services'[s] \in deploying' \cup factories'
  BY <1>1, <1>2, <1>3 DEF RegistryInv, OneFactoryEach
<1>7. \A s, t \in DOMAIN services' : services'[s] = services'[t] => s = t
  BY <1>6
<1> QED BY <1>2, <1>5, <1>6, <1>7 DEF OneFactoryEach

LEMMA RegisterInv ==
    ASSUME RegistryInv, NEW w \in Services, NEW v \in Values, Register(RegisterMsg(w, v))
    PROVE  RegistryInv'
<1> DEFINE m == RegisterMsg(w, v)
<1>1. m.from = w /\ m.value \in Nat
  BY ConstantTypes DEF RegisterMsg
<1>2. RentCovered' /\ regBalance' \in Nat
  BY <1>1, RegisterKeepsRent
<1>3. OneFactoryEach' /\ DOMAIN services' = DOMAIN services \cup {w}
  BY <1>1, RegisterOneEach
<1>4. BuildFactoryInit(w) \in [owner : Services, terms : Terms]
  BY DEF BuildFactoryInit, RegistryInv, RegistryTypes
<1>5. RegistryTypes'
  BY <1>1, <1>2, <1>3, <1>4 DEF RegistryInv, RegistryTypes, Register
<1> QED BY <1>2, <1>3, <1>5 DEF RegistryInv

-----------------------------------------------------------------------------
(* The owner's messages.                                                   *)

\* A message of 10 leaves the balance 9 higher.
LEMMA CreditedKeepsRent ==
    ASSUME RegistryInv, NEW m, m.value = 10, Credited(m)
    PROVE  RentCovered' /\ regBalance' \in Nat
  BY ConstantTypes DEF RegistryInv, RegistryTypes, RentCovered, Credited

LEMMA OnlyTermsInv ==
    ASSUME RegistryInv, NEW m, m.value = 10, OnlyTerms(m), terms' \in Terms
    PROVE  RegistryInv'
<1>1. RentCovered' /\ regBalance' \in Nat
  BY CreditedKeepsRent DEF OnlyTerms
<1> QED BY <1>1 DEF OnlyTerms, RegistryInv, RegistryTypes, OneFactoryEach

LEMMA UpdateFeeInv ==
    ASSUME RegistryInv, NEW w, NEW bps \in FeeRates, UpdateFee(UpdateFeeMsg(w, bps))
    PROVE  RegistryInv'
<1> DEFINE m == UpdateFeeMsg(w, bps)
<1>1. m.value = 10 /\ m.feeBps = bps
  BY DEF UpdateFeeMsg
<1>2. terms' \in Terms
  BY <1>1 DEF UpdateFee, ValidFee, RegistryInv, RegistryTypes, Terms
<1> QED BY <1>1, <1>2, OnlyTermsInv DEF UpdateFee

LEMMA UpdateCollectorInv ==
    ASSUME RegistryInv, NEW w, NEW a \in Addresses, UpdateCollector(UpdateCollectorMsg(w, a))
    PROVE  RegistryInv'
<1> DEFINE m == UpdateCollectorMsg(w, a)
<1>1. m.value = 10 /\ m.address = a
  BY DEF UpdateCollectorMsg
<1>2. terms' \in Terms
  BY <1>1 DEF UpdateCollector, RegistryInv, RegistryTypes, Terms
<1> QED BY <1>1, <1>2, OnlyTermsInv DEF UpdateCollector

LEMMA UpdateProtocolInv ==
    ASSUME RegistryInv, NEW w, NEW a \in Addresses, UpdateProtocol(UpdateProtocolMsg(w, a))
    PROVE  RegistryInv'
<1> DEFINE m == UpdateProtocolMsg(w, a)
<1>1. m.value = 10 /\ m.address = a
  BY DEF UpdateProtocolMsg
<1>2. terms' \in Terms
  BY <1>1 DEF UpdateProtocol, RegistryInv, RegistryTypes, Terms
<1> QED BY <1>1, <1>2, OnlyTermsInv DEF UpdateProtocol

LEMMA UpdateRelayerInv ==
    ASSUME RegistryInv, NEW w, NEW k \in RelayerKeys, UpdateRelayer(UpdateRelayerMsg(w, k))
    PROVE  RegistryInv'
<1> DEFINE m == UpdateRelayerMsg(w, k)
<1>1. m.value = 10 /\ m.key = k
  BY DEF UpdateRelayerMsg
<1>2. terms' \in Terms
  BY <1>1 DEF UpdateRelayer, RegistryInv, RegistryTypes, Terms
<1> QED BY <1>1, <1>2, OnlyTermsInv DEF UpdateRelayer

LEMMA SetRegPausedInv ==
    ASSUME RegistryInv, NEW m, m.value = 10, NEW p, SetRegPaused(m, p)
    PROVE  RegistryInv'
<1>1. RentCovered' /\ regBalance' \in Nat
  BY CreditedKeepsRent DEF SetRegPaused
<1> QED BY <1>1 DEF SetRegPaused, RegistryInv, RegistryTypes, OneFactoryEach

\* A removed service leaves the others theirs, and the count one lower.
LEMMA DeregisterInv ==
    ASSUME RegistryInv, NEW w, NEW s \in Services, Deregister(DeregisterMsg(w, s))
    PROVE  RegistryInv'
<1> DEFINE m == DeregisterMsg(w, s)
<1>1. m.value = 10 /\ m.service = s
  BY DEF DeregisterMsg
<1>2. RentCovered' /\ regBalance' \in Nat
  BY <1>1, CreditedKeepsRent DEF Deregister
<1>3. /\ services' = WithoutFactory(s) /\ s \in DOMAIN services
      /\ factoryCount' = factoryCount - 1
      /\ UNCHANGED <<terms, regPaused, deploying, factories>>
  BY <1>1 DEF Deregister
<1>4. /\ DOMAIN services' = DOMAIN services \ {s}
      /\ \A t \in DOMAIN services' : services'[t] = services[t]
  BY <1>3 DEF WithoutFactory
<1>5. IsFiniteSet(DOMAIN services)
  BY ConstantTypes, FS_Subset DEF RegistryInv, RegistryTypes
<1>6. factoryCount' = Cardinality(DOMAIN services')
  BY <1>3, <1>4, <1>5, FS_RemoveElement DEF RegistryInv, OneFactoryEach
<1>7. OneFactoryEach'
  BY <1>3, <1>4, <1>6 DEF RegistryInv, OneFactoryEach
<1>8. RegistryTypes'
  BY <1>2, <1>3, <1>4 DEF RegistryInv, RegistryTypes
<1> QED BY <1>2, <1>7, <1>8 DEF RegistryInv

\* A withdrawal stops at the reserve.
LEMMA WithdrawRegistryInv ==
    ASSUME RegistryInv, NEW w, WithdrawRegistry(WithdrawRegistryMsg(w))
    PROVE  RegistryInv'
<1>1. WithdrawRegistryMsg(w).value = 10
  BY DEF WithdrawRegistryMsg
<1>2. RentCovered' /\ regBalance' \in Nat
  BY <1>1, ConstantTypes DEF WithdrawRegistry, RegistryInv, RegistryTypes, RentCovered
<1> QED BY <1>2 DEF WithdrawRegistry, RegistryInv, RegistryTypes, OneFactoryEach

LEMMA FactoryDeployedInv ==
    ASSUME RegistryInv, NEW f, FactoryDeployed(f)
    PROVE  RegistryInv'
<1>1. deploying' \cup factories' = deploying \cup factories
  BY DEF FactoryDeployed
<1> QED BY <1>1 DEF FactoryDeployed, RegistryInv, RegistryTypes, RentCovered, OneFactoryEach

-----------------------------------------------------------------------------
LEMMA RegReceiveInv ==
    ASSUME RegistryInv, NEW w \in Wallets, ToRegistry(w)
    PROVE  RegistryInv'
<1>1. ASSUME NEW v \in Values, w \in Services, Register(RegisterMsg(w, v))
      PROVE  RegistryInv'
  BY <1>1, RegisterInv
<1>2. CASE PauseRegistry(PauseRegistryMsg(w))
  <2>1. PauseRegistryMsg(w).value = 10
    BY DEF PauseRegistryMsg
  <2> QED BY <1>2, <2>1, SetRegPausedInv DEF PauseRegistry
<1>3. CASE ResumeRegistry(ResumeRegistryMsg(w))
  <2>1. ResumeRegistryMsg(w).value = 10
    BY DEF ResumeRegistryMsg
  <2> QED BY <1>3, <2>1, SetRegPausedInv DEF ResumeRegistry
<1> QED BY <1>1, <1>2, <1>3, UpdateFeeInv, UpdateCollectorInv, UpdateProtocolInv,
           UpdateRelayerInv, DeregisterInv, WithdrawRegistryInv DEF ToRegistry

LEMMA RegistryStep == RegistryInv /\ [RegNext]_regVars => RegistryInv'
<1> SUFFICES ASSUME RegistryInv, [RegNext]_regVars PROVE RegistryInv'
  OBVIOUS
<1>1. CASE RegReceive
  BY <1>1, RegReceiveInv DEF RegReceive
<1>2. ASSUME NEW f \in deploying, FactoryDeployed(f) PROVE RegistryInv'
  BY <1>2, FactoryDeployedInv
<1>3. CASE UNCHANGED regVars
  BY <1>3 DEF regVars, RegistryInv, RegistryTypes, RentCovered, OneFactoryEach
<1> QED BY <1>1, <1>2, <1>3 DEF RegNext

\* Whatever the owner withdraws and however small the registrations are, the
\* Registry keeps its reserve (OP_REGISTRY_REGISTER, OP_REGISTRY_WITHDRAW).
THEOREM RegistryKeepsRent == RegSpec => []RentCovered
<1>1. RegistryInv => RentCovered
  BY DEF RegistryInv
<1> QED BY <1>1, RegistryInit, RegistryStep, PTL DEF RegSpec

\* Through every order of registrations, removals and changes of the terms, each
\* registered service has one Factory, its own, and factory_count counts them.
THEOREM EachServiceItsFactory == RegSpec => []OneFactoryEach
<1>1. RegistryInv => OneFactoryEach
  BY DEF RegistryInv
<1> QED BY <1>1, RegistryInit, RegistryStep, PTL DEF RegSpec

\* Every Factory the Registry deploys belongs to a service and charges no more
\* than the maximum fee (MAX_FEE_BPS), which the Registry checks on each update.
THEOREM DeployedOnValidTerms ==
    RegSpec => [](\A f \in deploying \cup factories :
                    f.owner \in Services /\ f.terms.platformFeeBps <= MAX_FEE_BPS)
<1>1. RegistryInv => \A f \in deploying \cup factories :
                        f.owner \in Services /\ f.terms.platformFeeBps <= MAX_FEE_BPS
  BY DEF RegistryInv, RegistryTypes, Terms
<1> QED BY <1>1, RegistryInit, RegistryStep, PTL DEF RegSpec
=============================================================================
