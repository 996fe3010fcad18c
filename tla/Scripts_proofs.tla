---------------------------- MODULE Scripts_proofs ----------------------------
(***************************************************************************)
(* What holds of Scripts for any terminals that run any of the scripts     *)
(* together, on any wallets: a success that is reported is one, and the    *)
(* FeeCollector is there before what pays it.                              *)
(***************************************************************************)
EXTENDS Scripts, SequenceTheorems, TLAPS

Names == {"deploy-standalone", "deploy-registry", "register-service", "add-plan",
          "cancel-subscription", "test-subscribe", "test-e2e"}

-----------------------------------------------------------------------------
(* The programs, step by step.                                             *)

\* Balance, then skip, seqno, send and wait for each of two contracts.
LEMMA TwoDeployments ==
    ASSUME NEW name \in {"deploy-standalone", "deploy-registry"}
    PROVE  LET p == Program(name)
               second == IF name = "deploy-standalone" THEN "Factory" ELSE "Registry"
           IN  p = <<Step("balance"),
                     [do |-> "unless", to |-> "FeeCollector", skip |-> 4], Step("seqno"),
                     [do |-> "send", msg |-> Deploy("FeeCollector")],
                     [do |-> "deployed", to |-> "FeeCollector"],
                     [do |-> "unless", to |-> second, skip |-> 4], Step("seqno"),
                     [do |-> "send", msg |-> Deploy(second)],
                     [do |-> "deployed", to |-> second]>>
<1>1. CASE name = "deploy-standalone"
  <2>1. Program(name) = DeployStandalone
    BY <1>1 DEF Program
  <2> QED BY <1>1, <2>1 DEF DeployStandalone, EnsureDeployed, Send
<1>2. CASE name = "deploy-registry"
  <2>1. Program(name) = DeployRegistry
    BY <1>2 DEF Program
  <2> QED BY <1>2, <2>1 DEF DeployRegistry, EnsureDeployed, Send
<1> QED BY <1>1, <1>2

\* None of the others deploys what pays the FeeCollector.
LEMMA OtherPrograms ==
    /\ Program("register-service") =
         <<[do |-> "require", to |-> "Registry"], Step("seqno"), [do |-> "send", msg |-> RegisterOrder],
           Step("tx"), Step("factory")>>
    /\ Program("add-plan") =
         <<Step("print"), Step("seqno"), [do |-> "send", msg |-> AddPlanOrder], Step("tx"), Step("print")>>
    /\ Program("cancel-subscription") =
         <<Step("print"), Step("seqno"), [do |-> "send", msg |-> CancelOrder], Step("tx")>>
    /\ Program("test-subscribe") =
         <<Step("plan"), Step("seqno"), [do |-> "send", msg |-> SubscribeOrder("Factory")], Step("tx"),
           Step("subscription")>>
    /\ Program("test-e2e") =
         <<Step("print"), [do |-> "unless", to |-> "TestFactory", skip |-> 4], Step("seqno"),
           [do |-> "send", msg |-> Deploy("TestFactory")], [do |-> "deployed", to |-> "TestFactory"],
           Step("seqno"), [do |-> "send", msg |-> SubscribeOrder("TestFactory")]>>
<1>1. Program("register-service") = RegisterService /\ Program("add-plan") = AddPlanScript
  BY DEF Program
<1>2. Program("cancel-subscription") = CancelScript /\ Program("test-subscribe") = TestSubscribe
  BY DEF Program
<1>3. Program("test-e2e") = TestE2E
  BY DEF Program
<1> QED BY <1>1, <1>2, <1>3 DEF RegisterService, AddPlanScript, CancelScript, TestSubscribe, TestE2E,
                             DeployTestFactory, SubscribeToIt, EnsureDeployed, Send

Deploying(name) == name \in {"deploy-standalone", "deploy-registry"}
Second(name)    == IF name = "deploy-standalone" THEN "Factory" ELSE "Registry"

\* A message that deploys what pays the FeeCollector.
PaysCollector(msg) == msg.kind = "deploy" /\ msg.to \in {"Factory", "Registry"}

\* What the proofs need of the programs: their order, and that a message
\* follows its seqno.
LEMMA ProgramSteps ==
    ASSUME NEW name \in Names
    PROVE  LET p == Program(name) IN
           /\ Len(p) \in 4..9
           /\ \A i \in 1..Len(p) :
                /\ p[i].do = "unless" => p[i].skip = 4
                /\ p[i].do = "seqno" => i + 1 <= Len(p)
                /\ p[i].do = "send" /\ PaysCollector(p[i].msg) => Deploying(name) /\ i = 8
           /\ Deploying(name) =>
                /\ Len(p) = 9
                /\ p[2] = [do |-> "unless", to |-> "FeeCollector", skip |-> 4]
                /\ p[5] = [do |-> "deployed", to |-> "FeeCollector"]
                /\ p[6] = [do |-> "unless", to |-> Second(name), skip |-> 4]
                /\ p[9] = [do |-> "deployed", to |-> Second(name)]
                /\ \A i \in {1, 3, 4, 7, 8} : p[i].do # "unless"
           /\ name = "register-service" =>
                /\ Len(p) = 5 /\ p[5].do = "factory"
                /\ \A i \in 1..5 : p[i].do # "unless"
<1>1. CASE Deploying(name)
  <2> DEFINE p == Program(name)
  <2>1. p = <<Step("balance"),
              [do |-> "unless", to |-> "FeeCollector", skip |-> 4], Step("seqno"),
              [do |-> "send", msg |-> Deploy("FeeCollector")],
              [do |-> "deployed", to |-> "FeeCollector"],
              [do |-> "unless", to |-> Second(name), skip |-> 4], Step("seqno"),
              [do |-> "send", msg |-> Deploy(Second(name))],
              [do |-> "deployed", to |-> Second(name)]>>
    BY <1>1, TwoDeployments DEF Deploying, Second
  <2> HIDE DEF p
  <2>2. /\ Len(p) = 9
        /\ p[2] = [do |-> "unless", to |-> "FeeCollector", skip |-> 4]
        /\ p[5] = [do |-> "deployed", to |-> "FeeCollector"]
        /\ p[6] = [do |-> "unless", to |-> Second(name), skip |-> 4]
        /\ p[9] = [do |-> "deployed", to |-> Second(name)]
    BY <2>1
  <2>3. /\ p[1].do = "balance" /\ p[3].do = "seqno" /\ p[4].do = "send"
        /\ p[7].do = "seqno" /\ p[8].do = "send"
    BY <2>1 DEF Step
  <2>4. /\ p[2].do = "unless" /\ p[5].do = "deployed" /\ p[6].do = "unless" /\ p[9].do = "deployed"
        /\ p[2].skip = 4 /\ p[6].skip = 4
    BY <2>2
  <2>5. ~PaysCollector(p[4].msg)
    BY <2>1 DEF PaysCollector, Deploy
  <2>6. ASSUME NEW i \in 1..Len(p)
        PROVE  /\ p[i].do = "unless" => p[i].skip = 4
               /\ p[i].do = "seqno" => i + 1 <= Len(p)
               /\ p[i].do = "send" => ~PaysCollector(p[i].msg) \/ i = 8
    <3>1. i \in 1..9
      BY <2>2
    <3>2. i = 1 \/ i = 2 \/ i = 3 \/ i = 4 \/ i = 5 \/ i = 6 \/ i = 7 \/ i = 8 \/ i = 9
      BY <3>1
    <3> QED BY <2>2, <2>3, <2>4, <2>5, <3>2
  <2>7. \A i \in {1, 3, 4, 7, 8} : p[i].do # "unless"
    BY <2>3
  <2>8. Len(p) \in 4..9 /\ name # "register-service"
    BY <1>1, <2>2 DEF Deploying
  <2> QED BY <1>1, <2>2, <2>6, <2>7, <2>8 DEF p
<1>2. CASE name = "register-service"
  <2> DEFINE p == Program(name)
  <2>1. p = <<[do |-> "require", to |-> "Registry"], Step("seqno"),
              [do |-> "send", msg |-> RegisterOrder], Step("tx"), Step("factory")>>
    BY <1>2, OtherPrograms
  <2> HIDE DEF p
  <2>2. Len(p) = 5
    BY <2>1
  <2>3. /\ p[1].do = "require" /\ p[2].do = "seqno" /\ p[3].do = "send" /\ p[4].do = "tx"
        /\ p[5].do = "factory"
    BY <2>1 DEF Step
  <2>4. ~PaysCollector(p[3].msg)
    BY <2>1 DEF PaysCollector, RegisterOrder
  <2>5. ASSUME NEW i \in 1..5
        PROVE  /\ p[i].do # "unless"
               /\ p[i].do = "seqno" => i + 1 <= 5
               /\ p[i].do = "send" => ~PaysCollector(p[i].msg)
    <3>1. i = 1 \/ i = 2 \/ i = 3 \/ i = 4 \/ i = 5
      OBVIOUS
    <3> QED BY <2>3, <2>4, <3>1
  <2>6. Len(p) \in 4..9 /\ ~Deploying(name)
    BY <1>2, <2>2 DEF Deploying
  <2> QED BY <2>2, <2>3, <2>5, <2>6 DEF p
<1>3. CASE name \in {"add-plan", "cancel-subscription", "test-subscribe"}
  <2> DEFINE p == Program(name)
  <2>1. /\ Len(p) \in {4, 5}
        /\ p[1].do \in {"print", "plan"} /\ p[2].do = "seqno" /\ p[3].do = "send" /\ p[4].do = "tx"
        /\ Len(p) = 5 => p[5].do \in {"print", "subscription"}
    <3>1. CASE name = "add-plan"
      BY <3>1, OtherPrograms DEF Step
    <3>2. CASE name = "cancel-subscription"
      BY <3>2, OtherPrograms DEF Step
    <3>3. CASE name = "test-subscribe"
      BY <3>3, OtherPrograms DEF Step
    <3> QED BY <1>3, <3>1, <3>2, <3>3
  <2>2. ~PaysCollector(p[3].msg)
    <3>1. p[3].msg \in {AddPlanOrder, CancelOrder, SubscribeOrder("Factory")}
      BY <1>3, OtherPrograms
    <3> QED BY <3>1 DEF PaysCollector, AddPlanOrder, CancelOrder, SubscribeOrder
  <2>3. ~Deploying(name) /\ name # "register-service"
    BY <1>3 DEF Deploying
  <2> HIDE DEF p
  <2>4. ASSUME NEW i \in 1..Len(p)
        PROVE  /\ p[i].do # "unless"
               /\ p[i].do = "seqno" => i + 1 <= Len(p)
               /\ p[i].do = "send" => ~PaysCollector(p[i].msg)
    <3>1. i = 1 \/ i = 2 \/ i = 3 \/ i = 4 \/ (i = 5 /\ Len(p) = 5)
      <4>1. CASE Len(p) = 4
        <5>1. i \in 1..4
          BY <4>1
        <5> QED BY <5>1
      <4>2. CASE Len(p) = 5
        <5>1. i \in 1..5
          BY <4>2
        <5> QED BY <4>2, <5>1
      <4> QED BY <2>1, <4>1, <4>2
    <3> QED BY <2>1, <2>2, <3>1
  <2>5. Len(p) \in 4..9
    BY <2>1
  <2> QED BY <2>3, <2>4, <2>5 DEF p
<1>4. CASE name = "test-e2e"
  <2> DEFINE p == Program(name)
  <2>1. p = <<Step("print"), [do |-> "unless", to |-> "TestFactory", skip |-> 4], Step("seqno"),
              [do |-> "send", msg |-> Deploy("TestFactory")],
              [do |-> "deployed", to |-> "TestFactory"],
              Step("seqno"), [do |-> "send", msg |-> SubscribeOrder("TestFactory")]>>
    BY <1>4, OtherPrograms
  <2> HIDE DEF p
  <2>2. Len(p) = 7
    BY <2>1
  <2>3. /\ p[1].do = "print" /\ p[2].do = "unless" /\ p[2].skip = 4 /\ p[3].do = "seqno"
        /\ p[4].do = "send" /\ p[5].do = "deployed" /\ p[6].do = "seqno" /\ p[7].do = "send"
    BY <2>1 DEF Step
  <2>4. ~PaysCollector(p[4].msg) /\ ~PaysCollector(p[7].msg)
    BY <2>1 DEF PaysCollector, Deploy, SubscribeOrder
  <2>5. ~Deploying(name)
    BY <1>4 DEF Deploying
  <2>6. ASSUME NEW i \in 1..Len(p)
        PROVE  /\ p[i].do = "unless" => p[i].skip = 4
               /\ p[i].do = "seqno" => i + 1 <= Len(p)
               /\ p[i].do = "send" => ~PaysCollector(p[i].msg)
    <3>1. i \in 1..7
      BY <2>2
    <3>2. i = 1 \/ i = 2 \/ i = 3 \/ i = 4 \/ i = 5 \/ i = 6 \/ i = 7
      BY <3>1
    <3> QED BY <2>2, <2>3, <2>4, <3>2
  <2>7. Len(p) \in 4..9 /\ name # "register-service"
    BY <1>4, <2>2
  <2> QED BY <2>5, <2>6, <2>7 DEF p
<1> QED BY <1>1, <1>2, <1>3, <1>4 DEF Names, Deploying

-----------------------------------------------------------------------------
(* The inductive invariant.                                                *)

ScriptRecord == [name : Names, pc : Nat \ {0}, seqno : Nat, tries : Nat,
                 result : {"running", "done", "failed"}]

\* The wallet of every script that does not deploy.
TheService == CHOOSE s \in Services : TRUE

\* How far a script is says what it has seen: the first contract before it
\* turns to the second, the second or the registration before it is done.
Progress(k, act, regs) ==
    /\ k.result = "running" => k.pc <= Len(Program(k.name))
    /\ k.result = "done" => k.pc > Len(Program(k.name))
    /\ Deploying(k.name) /\ k.pc >= 6 => "FeeCollector" \in act
    /\ Deploying(k.name) /\ k.pc >= 10 => Second(k.name) \in act
    /\ k.name = "register-service" /\ k.pc >= 6 => TheService \in regs

\* What deploys a Factory or a Registry is signed after the FeeCollector was
\* seen.
Sendable(msg, act) == PaysCollector(msg) => "FeeCollector" \in act

ScriptsInv ==
    /\ script \in [Terminals -> ScriptRecord]
    /\ seqnos \in [Wallets -> Nat]
    /\ \A t \in Terminals : Progress(script[t], active, DOMAIN services)
    /\ \A m \in mempool : Sendable(m.msg, active)
    /\ \A f \in flight : Sendable(f.msg, active)
    /\ CollectorFirst

LEMMA RecordParts ==
    ASSUME ScriptsInv, NEW t \in Terminals
    PROVE  LET k == script[t] IN
           /\ k \in ScriptRecord /\ k.name \in Names /\ k.pc \in Nat \ {0}
           /\ Progress(k, active, DOMAIN services)
           /\ Running(t) => k.pc \in 1..Len(Program(k.name))
<1> DEFINE k == script[t]
<1>1. k \in ScriptRecord /\ Progress(k, active, DOMAIN services)
  BY DEF ScriptsInv
<1>2. k.name \in Names /\ k.pc \in Nat \ {0}
  BY <1>1 DEF ScriptRecord
<1>3. ASSUME Running(t) PROVE k.pc \in 1..Len(Program(k.name))
  <2>1. Len(Program(k.name)) \in 4..9
    BY <1>2, ProgramSteps
  <2>2. k.pc <= Len(Program(k.name))
    BY <1>1, <1>3 DEF Progress, Running
  <2> QED BY <1>2, <2>1, <2>2
<1> QED BY <1>1, <1>2, <1>3

\* Progress is not lost when contracts and services only appear.
LEMMA ProgressStays ==
    ASSUME NEW k, NEW act, NEW regs, NEW act2, NEW regs2, Progress(k, act, regs),
           act \subseteq act2, regs \subseteq regs2
    PROVE  Progress(k, act2, regs2)
  BY DEF Progress

\* A step back to the same place, waiting or failed.
LEMMA NoProgress ==
    ASSUME NEW k, NEW new, NEW act, NEW regs, Progress(k, act, regs),
           k.result = "running", new.name = k.name, new.pc = k.pc,
           new.result \in {"running", "failed"}
    PROVE  Progress(new, act, regs)
  BY DEF Progress

\* A step on, or over a contract that is there.
LEMMA ProgressMade ==
    ASSUME NEW k \in ScriptRecord, NEW new \in ScriptRecord, NEW act, NEW regs, NEW n,
           Progress(k, act, regs), k.result = "running",
           new.name = k.name, new.pc = k.pc + n,
           new.result \in {"running", "done", "failed"},
           new.result = "running" => new.pc <= Len(Program(k.name)),
           new.result = "done" => new.pc > Len(Program(k.name)),
           LET now == Program(k.name)[k.pc] IN
           /\ n = 1 \/ (n = 4 /\ now.do = "unless" /\ now.to \in act)
           /\ now.do = "deployed" => now.to \in act
           /\ now.do = "factory" /\ k.name = "register-service" => TheService \in regs
    PROVE  Progress(new, act, regs)
<1> DEFINE p == Program(k.name)
<1>1. k.name \in Names /\ k.pc \in Nat /\ k.pc >= 1 /\ Len(p) \in 4..9 /\ k.pc <= Len(p)
  <2>1. k.name \in Names /\ k.pc \in Nat \ {0}
    BY DEF ScriptRecord
  <2>2. Len(p) \in 4..9
    BY <2>1, ProgramSteps
  <2>3. k.pc <= Len(p)
    BY DEF Progress
  <2> HIDE DEF p
  <2> QED BY <2>1, <2>2, <2>3
<1>2. ASSUME Deploying(k.name)
      PROVE  /\ new.pc >= 6 => "FeeCollector" \in act
             /\ new.pc >= 10 => Second(k.name) \in act
  <2>1. /\ Len(p) = 9
        /\ p[2] = [do |-> "unless", to |-> "FeeCollector", skip |-> 4]
        /\ p[5] = [do |-> "deployed", to |-> "FeeCollector"]
        /\ p[6] = [do |-> "unless", to |-> Second(k.name), skip |-> 4]
        /\ p[9] = [do |-> "deployed", to |-> Second(k.name)]
        /\ \A i \in {1, 3, 4, 7, 8} : p[i].do # "unless"
    BY <1>1, <1>2, ProgramSteps
  <2>2. /\ p[2].to = "FeeCollector" /\ p[5].do = "deployed" /\ p[5].to = "FeeCollector"
        /\ p[6].to = Second(k.name) /\ p[9].do = "deployed" /\ p[9].to = Second(k.name)
        /\ p[5].do # "unless" /\ p[9].do # "unless"
    BY <2>1
  <2> HIDE DEF p
  <2>3. CASE k.pc >= 6
    <3>1. "FeeCollector" \in act
      BY <1>1, <1>2, <2>3 DEF Progress
    <3>2. ASSUME new.pc >= 10 PROVE Second(k.name) \in act
      <4>1. k.pc = 6 \/ k.pc = 7 \/ k.pc = 8 \/ k.pc = 9
        BY <1>1, <2>1, <2>3
      <4>2. k.pc = 9 \/ (k.pc = 6 /\ n = 4)
        BY <2>1, <3>2, <4>1 DEF p
      <4> QED BY <2>2, <4>2 DEF p
    <3> QED BY <3>1, <3>2
  <2>4. CASE k.pc = 5
    BY <2>2, <2>4 DEF p
  <2>5. CASE k.pc < 5
    <3>1. k.pc = 1 \/ k.pc = 2 \/ k.pc = 3 \/ k.pc = 4
      BY <1>1, <2>5
    <3>2. CASE k.pc = 2
      BY <2>2, <3>2 DEF p
    <3>3. CASE k.pc # 2
      <4>1. n = 1
        BY <2>1, <3>1, <3>3 DEF p
      <4>2. new.pc < 6
        BY <3>1, <4>1
      <4> QED BY <1>1, <4>1, <4>2
    <3> QED BY <3>2, <3>3
  <2> QED BY <1>1, <2>3, <2>4, <2>5
<1>3. ASSUME k.name = "register-service" PROVE new.pc >= 6 => TheService \in regs
  <2>1. Len(p) = 5 /\ p[5].do = "factory" /\ \A i \in 1..5 : p[i].do # "unless"
    BY <1>1, <1>3, ProgramSteps
  <2>2. n = 1
    BY <1>1, <2>1
  <2>3. new.pc >= 6 => k.pc = 5
    BY <1>1, <2>1, <2>2
  <2> QED BY <1>3, <2>1, <2>3
<1>4. /\ new.result = "running" => new.pc <= Len(p)
      /\ new.result = "done" => new.pc > Len(p)
  OBVIOUS
<1> QED BY <1>2, <1>3, <1>4 DEF Progress

-----------------------------------------------------------------------------
(* The terminals.                                                          *)

\* What a step of a terminal must keep; it changes no contract.
ScriptsWell ==
    /\ script \in [Terminals -> ScriptRecord]
    /\ \A t \in Terminals : Progress(script[t], active, DOMAIN services)

LEMMA OneScriptMoves ==
    ASSUME ScriptsInv, NEW t \in Terminals, NEW new \in ScriptRecord,
           script' = [script EXCEPT ![t] = new], UNCHANGED <<active, services>>,
           Progress(new, active, DOMAIN services)
    PROVE  ScriptsWell'
<1>1. script \in [Terminals -> ScriptRecord]
  BY DEF ScriptsInv
<1>2. script' \in [Terminals -> ScriptRecord]
  BY <1>1
<1>3. ASSUME NEW u \in Terminals PROVE Progress(script'[u], active, DOMAIN services)
  <2>1. CASE u = t
    BY <1>1, <2>1
  <2>2. CASE u # t
    BY <1>1, <2>2 DEF ScriptsInv
  <2> QED BY <2>1, <2>2
<1> QED BY <1>2, <1>3 DEF ScriptsWell

LEMMA EndsWell ==
    ASSUME ScriptsInv, NEW t \in Terminals, Running(t), Ends(t, "failed"), UNCHANGED <<active, services>>
    PROVE  ScriptsWell'
<1> DEFINE k   == script[t]
           new == [k EXCEPT !.result = "failed"]
<1>1. k \in ScriptRecord /\ Progress(k, active, DOMAIN services) /\ k.result = "running"
  BY RecordParts DEF Running
<1>2. script' = [script EXCEPT ![t] = new]
  BY DEF Ends, ScriptsInv
<1>3. new \in ScriptRecord /\ new.name = k.name /\ new.pc = k.pc /\ new.result = "failed"
  BY <1>1 DEF ScriptRecord
<1> HIDE DEF new
<1>4. Progress(new, active, DOMAIN services)
  BY <1>1, <1>3, NoProgress
<1> QED BY <1>2, <1>3, <1>4, OneScriptMoves

LEMMA GoesWell ==
    ASSUME ScriptsInv, NEW t \in Terminals, Running(t), NEW n \in {1, 4}, Goes(t, n),
           UNCHANGED <<active, services>>,
           n = 1 \/ (This(t).do = "unless" /\ This(t).to \in active),
           This(t).do = "deployed" => This(t).to \in active,
           This(t).do = "factory" /\ script[t].name = "register-service" =>
             TheService \in DOMAIN services
    PROVE  ScriptsWell'
<1> DEFINE k   == script[t]
           pc  == k.pc + n
           res == IF pc > Len(Steps(t)) THEN "done" ELSE "running"
           new == [k EXCEPT !.pc = pc, !.tries = 0, !.result = res]
<1>1. k \in ScriptRecord /\ Progress(k, active, DOMAIN services) /\ k.result = "running"
      /\ k.pc \in Nat \ {0} /\ k.name \in Names
  BY RecordParts DEF Running
<1>2. script' = [script EXCEPT ![t] = new]
  BY DEF Goes, ScriptsInv
<1>3. pc \in Nat \ {0} /\ res \in {"running", "done"} /\ Len(Steps(t)) \in Nat
  BY <1>1, ProgramSteps DEF Steps
<1>4. /\ res = "running" => pc <= Len(Steps(t))
      /\ res = "done" => pc > Len(Steps(t))
  BY <1>3
<1> HIDE DEF res
<1>5. new \in ScriptRecord /\ new.name = k.name /\ new.pc = pc /\ new.result = res
  <2> HIDE DEF pc
  <2> QED BY <1>1, <1>3 DEF ScriptRecord
<1> HIDE DEF new
<1>6. Progress(new, active, DOMAIN services)
  BY <1>1, <1>3, <1>4, <1>5, ProgressMade DEF Steps, This
<1> QED BY <1>2, <1>5, <1>6, OneScriptMoves

LEMMA WalletTypes ==
    ASSUME NEW t \in Terminals
    PROVE  /\ WalletOf(t) \in Wallets
           /\ script[t].name = "register-service" => WalletOf(t) = TheService
  BY ScriptConstants DEF WalletOf, Wallets, Deployer, TheService

\* A step that sees nothing but an answer.
LEMMA AnswerWell ==
    ASSUME ScriptsInv, NEW t \in Terminals, NEW what \in {"balance", "print", "plan", "tx", "subscription"},
           At(t, what), Goes(t, 1) \/ Ends(t, "failed"), UNCHANGED <<active, services>>
    PROVE  ScriptsWell'
<1>1. Running(t) /\ This(t).do = what
  BY DEF At, This
<1> QED BY <1>1, GoesWell, EndsWell

LEMMA SkipWell ==
    ASSUME ScriptsInv, NEW t \in Terminals, SkipIfDeployed(t)
    PROVE  ScriptsWell'
<1>1. Running(t) /\ This(t).do = "unless" /\ UNCHANGED <<active, services>>
  BY DEF SkipIfDeployed, At, This, Still, regVars
<1>2. This(t).skip = 4
  BY <1>1, RecordParts, ProgramSteps DEF This, Steps
<1>3. \/ This(t).to \in active /\ Goes(t, 4)
      \/ Goes(t, 1)
  BY <1>2 DEF SkipIfDeployed, IsDeployed
<1> QED BY <1>1, <1>3, GoesWell

LEMMA RequireWell ==
    ASSUME ScriptsInv, NEW t \in Terminals, RequireDeployed(t)
    PROVE  ScriptsWell'
<1>1. Running(t) /\ This(t).do = "require" /\ UNCHANGED <<active, services>>
  BY DEF RequireDeployed, At, This, Still, regVars
<1>2. Goes(t, 1) \/ Ends(t, "failed")
  BY DEF RequireDeployed
<1> QED BY <1>1, <1>2, GoesWell, EndsWell

LEMMA ReadSeqnoWell ==
    ASSUME ScriptsInv, NEW t \in Terminals, ReadSeqno(t)
    PROVE  ScriptsWell'
<1> DEFINE k == script[t]
<1>1. Running(t) /\ This(t).do = "seqno" /\ UNCHANGED <<active, services>>
  BY DEF ReadSeqno, At, This, Still, regVars
<1>2. PICK n \in {0, seqnos[WalletOf(t)]} :
        script' = [script EXCEPT ![t].pc = @ + 1, ![t].seqno = n]
  BY DEF ReadSeqno
<1>3. n \in Nat
  BY WalletTypes DEF ScriptsInv
<1>4. /\ k \in ScriptRecord /\ k.name \in Names /\ Progress(k, active, DOMAIN services)
      /\ k.pc \in Nat \ {0} /\ k.pc \in 1..Len(Program(k.name)) /\ k.result = "running"
  BY <1>1, RecordParts DEF Running
<1>5. k.pc + 1 <= Len(Program(k.name)) /\ Program(k.name)[k.pc].do = "seqno"
  BY <1>1, <1>4, ProgramSteps DEF This, Steps
<1> DEFINE pc  == k.pc + 1
           new == [k EXCEPT !.pc = pc, !.seqno = n]
<1>6. script' = [script EXCEPT ![t] = new]
  BY <1>2 DEF ScriptsInv
<1>7. pc \in Nat \ {0}
  BY <1>4
<1>8. /\ new \in ScriptRecord /\ new.name = k.name /\ new.pc = pc /\ new.result = "running"
  <2> HIDE DEF pc
  <2> QED BY <1>3, <1>4, <1>7 DEF ScriptRecord
<1> HIDE DEF new
<1>9. Progress(new, active, DOMAIN services)
  BY <1>4, <1>5, <1>8, ProgressMade
<1> QED BY <1>1, <1>6, <1>8, <1>9, OneScriptMoves

\* A waiting loop that sees what it looks for has it.
LEMMA SeenIsThere ==
    ASSUME NEW t \in Terminals, Sees(t, TRUE)
    PROVE  /\ This(t).do = "deployed" => This(t).to \in active
           /\ This(t).do = "factory" => WalletOf(t) \in DOMAIN services
<1>1. CASE WaitDeployed(t, TRUE)
  BY <1>1 DEF WaitDeployed, At, This, IsDeployed
<1>2. CASE WaitTx(t, TRUE)
  BY <1>2 DEF WaitTx, At, This
<1>3. CASE WaitFactoryDeployed(t, TRUE)
  <2>1. This(t).do = "factory"
    BY <1>3 DEF WaitFactoryDeployed, At, This
  <2>2. WalletOf(t) \in DOMAIN services
    BY <1>3 DEF WaitFactoryDeployed
  <2> QED BY <2>1, <2>2
<1>4. CASE WaitSubscription(t, TRUE)
  BY <1>4 DEF WaitSubscription, At, This
<1> QED BY <1>1, <1>2, <1>3, <1>4 DEF Sees

LEMMA PollWell ==
    ASSUME ScriptsInv, NEW t \in Terminals, Poll(t)
    PROVE  ScriptsWell'
<1>1. /\ Running(t) /\ UNCHANGED <<active, services>>
      /\ This(t).do \in {"deployed", "tx", "factory", "subscription"}
  BY DEF Poll, Waiting, Still, regVars
<1>2. CASE Sees(t, TRUE) /\ Goes(t, 1)
  BY <1>1, <1>2, SeenIsThere, WalletTypes, GoesWell
<1>3. CASE script' = [script EXCEPT ![t].tries = IF @ < MaxPolls THEN @ + 1 ELSE @]
  <2> DEFINE k   == script[t]
             n   == IF k.tries < MaxPolls THEN k.tries + 1 ELSE k.tries
             new == [k EXCEPT !.tries = n]
  <2>1. k \in ScriptRecord /\ Progress(k, active, DOMAIN services) /\ k.result = "running"
    BY <1>1, RecordParts DEF Running
  <2>2. n \in Nat
    BY <2>1 DEF ScriptRecord
  <2>3. script' = [script EXCEPT ![t] = new]
    BY <1>3 DEF ScriptsInv
  <2> HIDE DEF n
  <2>4. new \in ScriptRecord /\ new.name = k.name /\ new.pc = k.pc /\ new.result = "running"
    BY <2>1, <2>2 DEF ScriptRecord
  <2> HIDE DEF new
  <2>5. Progress(new, active, DOMAIN services)
    BY <2>1, <2>4, NoProgress
  <2> QED BY <1>1, <2>3, <2>4, <2>5, OneScriptMoves
<1> QED BY <1>2, <1>3 DEF Poll

LEMMA SendWell ==
    ASSUME ScriptsInv, NEW t \in Terminals, SendTx(t) \/ SendRefused(t)
    PROVE  ScriptsWell'
<1>1. Running(t) /\ This(t).do = "send" /\ UNCHANGED <<active, services>>
  BY DEF SendTx, SendRefused, At, This, regVars
<1>2. Goes(t, 1) \/ Ends(t, "failed")
  BY DEF SendTx, SendRefused
<1> QED BY <1>1, <1>2, GoesWell, EndsWell

\* What a script signs to deploy a Factory or a Registry comes after it has
\* seen the FeeCollector.
LEMMA SignedSendable ==
    ASSUME ScriptsInv, NEW t \in Terminals, At(t, "send")
    PROVE  Sendable(Signed(t).msg, active)
<1> SUFFICES ASSUME PaysCollector(This(t).msg) PROVE "FeeCollector" \in active
  BY DEF Sendable, Signed
<1> DEFINE k == script[t]
<1>1. /\ k.name \in Names /\ Progress(k, active, DOMAIN services)
      /\ k.pc \in 1..Len(Program(k.name)) /\ Program(k.name)[k.pc].do = "send"
  BY RecordParts DEF At, Steps
<1>2. Deploying(k.name) /\ k.pc = 8
  BY <1>1, ProgramSteps DEF This, Steps
<1> QED BY <1>1, <1>2 DEF Progress

LEMMA TerminalInv ==
    ASSUME ScriptsInv, NEW t \in Terminals, Runs(t) \/ Rejected(t)
    PROVE  ScriptsInv'
<1>1. CASE SendTx(t) \/ SendRefused(t)
  <2>1. /\ mempool' \in {mempool, mempool \cup {Signed(t)}} /\ At(t, "send")
        /\ UNCHANGED <<seqnos, flight, active>>
    BY <1>1 DEF SendTx, SendRefused
  <2>2. \A m \in mempool' : Sendable(m.msg, active)
    BY <2>1, SignedSendable DEF ScriptsInv
  <2> QED BY <1>1, <2>1, <2>2, SendWell DEF ScriptsInv, ScriptsWell, CollectorFirst
<1>2. ASSUME ~SendTx(t), ~SendRefused(t) PROVE ScriptsInv'
  <2>1. Still
    BY <1>2 DEF Runs, Rejected, CheckBalance, SkipIfDeployed, RequireDeployed, JustPrint, GetPlanData,
                ReadSeqno, Poll, Timeout
  <2>2. UNCHANGED <<seqnos, mempool, flight, active, services>>
    BY <2>1 DEF Still, net, regVars
  <2>3. ScriptsWell'
    <3>1. CASE CheckBalance(t) \/ JustPrint(t) \/ GetPlanData(t)
      BY <2>2, <3>1, AnswerWell DEF CheckBalance, JustPrint, GetPlanData
    <3>2. CASE SkipIfDeployed(t) \/ RequireDeployed(t) \/ ReadSeqno(t) \/ Poll(t)
      BY <3>2, SkipWell, RequireWell, ReadSeqnoWell, PollWell
    <3>3. CASE Timeout(t) \/ Rejected(t)
      BY <2>2, <3>3, EndsWell DEF Timeout, Rejected, ThrowsAtDeadline, Waiting
    <3> QED BY <1>2, <3>1, <3>2, <3>3 DEF Runs
  <2> QED BY <2>2, <2>3 DEF ScriptsInv, ScriptsWell, CollectorFirst
<1> QED BY <1>1, <1>2

-----------------------------------------------------------------------------
(* The network.                                                            *)

\* Contracts and services only appear, and messages only move on.
LEMMA NetworkMoves ==
    ASSUME ScriptsInv, UNCHANGED script, seqnos' \in [Wallets -> Nat],
           active \subseteq active', DOMAIN services \subseteq DOMAIN services',
           \A m \in mempool' : m \in mempool,
           \A f \in flight' : f \in flight \/ \E m \in mempool : f.msg = m.msg,
           CollectorFirst'
    PROVE  ScriptsInv'
<1>1. \A msg : Sendable(msg, active) => Sendable(msg, active')
  BY DEF Sendable
<1>2. \A m \in mempool' : Sendable(m.msg, active')
  BY <1>1 DEF ScriptsInv
<1>3. \A f \in flight' : Sendable(f.msg, active')
  BY <1>1 DEF ScriptsInv
<1>4. \A t \in Terminals : Progress(script'[t], active', DOMAIN services')
  BY ProgressStays DEF ScriptsInv
<1> QED BY <1>2, <1>3, <1>4 DEF ScriptsInv

LEMMA NetworkInv ==
    ASSUME ScriptsInv, Network
    PROVE  ScriptsInv'
<1>0. seqnos \in [Wallets -> Nat] /\ CollectorFirst
  BY DEF ScriptsInv
<1>1. CASE \E m \in mempool : WalletTakes(m) \/ Expires(m)
  <2> PICK m \in mempool : WalletTakes(m) \/ Expires(m)
    BY <1>1
  <2>1. /\ UNCHANGED <<script, active, services>>
        /\ \A x \in mempool' : x \in mempool
    BY DEF WalletTakes, Expires, regVars
  <2>2. seqnos' \in [Wallets -> Nat]
    <3>1. CASE WalletTakes(m)
      <4> DEFINE n == seqnos[m.wallet] + 1
      <4>1. seqnos' = [seqnos EXCEPT ![m.wallet] = n]
        BY <3>1 DEF WalletTakes
      <4>2. m.wallet \in Wallets => n \in Nat
        BY <1>0
      <4> HIDE DEF n
      <4> QED BY <1>0, <4>1, <4>2
    <3>2. CASE Expires(m)
      BY <1>0, <3>2 DEF Expires
    <3> QED BY <3>1, <3>2
  <2>3. \A f \in flight' : f \in flight \/ \E x \in mempool : f.msg = x.msg
    BY DEF WalletTakes, Expires
  <2>4. CollectorFirst'
    BY <1>0, <2>1 DEF CollectorFirst
  <2> QED BY <2>1, <2>2, <2>3, <2>4, NetworkMoves
<1>2. CASE \E f \in flight : DeployArrives(f) \/ RegisterArrives(f) \/ OrderArrives(f) \/ Bounced(f)
  <2> PICK f \in flight : DeployArrives(f) \/ RegisterArrives(f) \/ OrderArrives(f) \/ Bounced(f)
    BY <1>2
  <2>1. Arrived(f)
    BY DEF DeployArrives, RegisterArrives, OrderArrives, Bounced
  <2>2. /\ UNCHANGED <<script, seqnos, mempool>>
        /\ \A x \in flight' : x \in flight
    BY <2>1 DEF Arrived
  <2>3. active \subseteq active' /\ CollectorFirst'
    <3>1. CASE DeployArrives(f)
      <4>1. f.msg.kind = "deploy" /\ active' = active \cup {f.msg.to} /\ Sendable(f.msg, active)
        BY <3>1 DEF DeployArrives, ScriptsInv
      <4>2. f.msg.to \in {"Factory", "Registry"} => "FeeCollector" \in active
        BY <4>1 DEF Sendable, PaysCollector
      <4> QED BY <1>0, <4>1, <4>2 DEF CollectorFirst
    <3>2. CASE RegisterArrives(f) \/ OrderArrives(f) \/ Bounced(f)
      <4>1. active' = active
        BY <3>2 DEF RegisterArrives, OrderArrives, Bounced
      <4> QED BY <1>0, <4>1 DEF CollectorFirst
    <3> QED BY <3>1, <3>2
  <2>4. DOMAIN services \subseteq DOMAIN services'
    BY DEF DeployArrives, RegisterArrives, Register, WithFactory, OrderArrives, Bounced, regVars
  <2> QED BY <1>0, <2>2, <2>3, <2>4, NetworkMoves
<1>3. CASE OwnerPauses \/ \E f \in deploying : ServiceFactoryDeployed(f)
  <2>1. UNCHANGED <<script, seqnos, mempool, flight, active, services>>
    BY <1>3 DEF OwnerPauses, ServiceFactoryDeployed, FactoryDeployed, PauseRegistry, ResumeRegistry,
                SetRegPaused, net
  <2>2. CollectorFirst'
    BY <1>0, <2>1 DEF CollectorFirst
  <2> QED BY <1>0, <2>1, <2>2, NetworkMoves
<1> QED BY <1>1, <1>2, <1>3 DEF Network

-----------------------------------------------------------------------------
LEMMA InitInv == Init => ScriptsInv
<1> SUFFICES ASSUME Init PROVE ScriptsInv
  OBVIOUS
<1>1. PICK start \in Starts :
         script = [t \in Terminals |-> [name |-> start[t], pc |-> 1, seqno |-> 0, tries |-> 0,
                                       result |-> "running"]]
  BY DEF Init
<1>2. start \in [Terminals -> Names]
  BY ScriptConstants DEF Names
<1>3. script \in [Terminals -> ScriptRecord]
  BY <1>1, <1>2 DEF ScriptRecord
<1>4. ASSUME NEW t \in Terminals PROVE Progress(script[t], active, DOMAIN services)
  <2>1. script[t].name \in Names /\ script[t].pc = 1 /\ script[t].result = "running"
    BY <1>1, <1>2
  <2> DEFINE n == Len(Program(script[t].name))
  <2>2. n \in 4..9
    BY <2>1, ProgramSteps
  <2>3. 1 <= n /\ ~(1 >= 6) /\ ~(1 >= 10)
    BY <2>2
  <2> QED BY <2>1, <2>3 DEF Progress
<1>5. seqnos \in [Wallets -> Nat] /\ mempool = {} /\ flight = {}
  BY DEF Init
<1>6. CollectorFirst
  BY DEF Init, CollectorFirst
<1> QED BY <1>3, <1>4, <1>5, <1>6 DEF ScriptsInv

LEMMA StepInv == ScriptsInv /\ [Next]_vars => ScriptsInv'
<1> SUFFICES ASSUME ScriptsInv, [Next]_vars PROVE ScriptsInv'
  OBVIOUS
<1>1. CASE UNCHANGED vars
  BY <1>1 DEF vars, net, regVars, ScriptsInv, CollectorFirst
<1> QED BY <1>1, TerminalInv, NetworkInv DEF Next

LEMMA AlwaysInv == Spec => []ScriptsInv
<1> QED BY InitInv, StepInv, PTL DEF Spec

-----------------------------------------------------------------------------
(* Theorems.                                                               *)

\* A deployment that reports success has deployed its contracts, and a
\* registration that does is in the Registry: for any number of terminals on
\* any wallets, whatever fails (main of the scripts, waitDeployed,
\* waitFactoryDeployed).
THEOREM SuccessIsTrue == Spec => []DoneIsTrue
<1>1. ScriptsInv => DoneIsTrue
  <2> SUFFICES ASSUME ScriptsInv, NEW t \in Terminals, script[t].result = "done"
               PROVE  /\ script[t].name = "deploy-standalone" =>
                           {"FeeCollector", "Factory"} \subseteq active
                      /\ script[t].name = "deploy-registry" =>
                           {"FeeCollector", "Registry"} \subseteq active
                      /\ script[t].name = "register-service" => WalletOf(t) \in DOMAIN services
    BY DEF DoneIsTrue
  <2> DEFINE k == script[t]
  <2>1. /\ k.name \in Names /\ k.pc \in Nat \ {0} /\ Progress(k, active, DOMAIN services)
        /\ k.pc > Len(Program(k.name))
    BY RecordParts DEF Progress
  <2>2. ASSUME Deploying(k.name) PROVE "FeeCollector" \in active /\ Second(k.name) \in active
    <3>1. Len(Program(k.name)) = 9
      BY <2>1, <2>2, ProgramSteps
    <3> QED BY <2>1, <2>2, <3>1 DEF Progress
  <2>3. ASSUME k.name = "register-service" PROVE WalletOf(t) \in DOMAIN services
    <3>1. Len(Program(k.name)) = 5
      BY <2>1, <2>3, ProgramSteps
    <3>2. k.pc >= 6
      BY <2>1, <3>1
    <3>3. TheService \in DOMAIN services
      <4> HIDE DEF k
      <4> QED BY <2>1, <2>3, <3>2 DEF Progress
    <3> QED BY <2>3, <3>3, WalletTypes
  <2> QED BY <2>2, <2>3 DEF Deploying, Second
<1> QED BY <1>1, AlwaysInv, PTL

\* No Factory and no Registry that a deploy script sends is live before the
\* FeeCollector deployed for it, also when deployments race or are run again (main
\* of both deploy scripts; the Factory of the end-to-end test is another one).
THEOREM CollectorIsFirst == Spec => []CollectorFirst
<1>1. ScriptsInv => CollectorFirst
  BY DEF ScriptsInv
<1> QED BY <1>1, AlwaysInv, PTL
=============================================================================
