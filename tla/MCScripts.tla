------------------------------ MODULE MCScripts ------------------------------
(* A small instance of Scripts: every script twice on one wallet, and pairs  *)
(* that touch the same contracts, with the Registry on one choice of terms   *)
(* and one message of its owner; or no script at all, and the Registry with  *)
(* all that its owner and the services can send it.                          *)
EXTENDS Scripts

CONSTANTS t1, t2

Names == {"deploy-standalone", "deploy-registry", "register-service", "add-plan",
          "cancel-subscription", "test-subscribe", "test-e2e"}

Pair(a, b) == [t \in {t1, t2} |-> IF t = t1 THEN a ELSE b]

Together == {Pair(n, n) : n \in Names}
    \cup {Pair("deploy-standalone", "deploy-registry"), Pair("deploy-registry", "register-service"),
          Pair("deploy-standalone", "test-e2e"), Pair("register-service", "add-plan")}

Unused == [name |-> "add-plan", pc |-> 0, seqno |-> 0, tries |-> 0, result |-> "failed"]

\* No step of a script changes this.
RegistryOnly == \A t \in Terminals : script[t] = Unused

FirstTerms == [platformFeeBps |-> 50, feeCollector |-> "a1", protocolFeeCollector |-> "a1",
               relayerPubkey |-> "k1"]

MCInit ==
    \/ Init /\ terms = FirstTerms
    \/ /\ RegInit /\ script = [t \in Terminals |-> Unused]
       /\ seqnos = [w \in Wallets |-> 0] /\ mempool = {} /\ flight = {}
       /\ active = {"FeeCollector", "Registry"} /\ changed = {} /\ faults = 0

MCNext ==
    \/ ~RegistryOnly /\ Next /\ regOps' <= 1
    \/ RegistryOnly /\ RegNext /\ UNCHANGED <<script, net, active, changed, faults>>

MCSpec == MCInit /\ [][MCNext]_vars /\ \A t \in Terminals : WF_vars(Runs(t))
==============================================================================
