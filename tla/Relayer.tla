------------------------------ MODULE Relayer ------------------------------
(***************************************************************************)
(* The charge relayer: poll cycles that replay the write-ahead log, scan   *)
(* the known subscriptions, sign a charge for each that looks due, wait    *)
(* for the seqno to advance, and tell the service by a signed webhook.     *)
(*                                                                         *)
(* An action runs from one await of the program to the next.  A cycle      *)
(* works on its own copies of the log and of the retry state, read when it *)
(* starts; setInterval starts the next cycle whether or not the last one   *)
(* is done, and a crash loses every copy.  The chain appears as what the   *)
(* getters show of each Subscription.                                      *)
(***************************************************************************)
EXTENDS Naturals, FiniteSets

CONSTANTS
    Subs,               \* subscriptions in the database
    NoSub,              \* no subscription in hand
    NumCycles,          \* poll cycles that may run at once
    WAL_MAX_ATTEMPTS,
    HasSecret,          \* WEBHOOK_SECRET is set on both sides
    MaxSeqno,           \* bound on the seqno of a subscription
    MaxFaults           \* bound on crashes, failed calls, lost messages and
                        \* slow answers

ASSUME RelayerConstants ==
    /\ NoSub \notin Subs
    /\ NumCycles \in Nat \ {0} /\ WAL_MAX_ATTEMPTS \in Nat \ {0}
    /\ HasSecret \in BOOLEAN
    /\ MaxSeqno \in Nat \ {0} /\ MaxFaults \in Nat

VARIABLES
    chain,      \* what the getters return; due: the billing time has come and
                \* the subscription is ACTIVE or in GRACE
    net,        \* signed charges under way
    walDisk,    \* WAL_PATH: one entry per subscription, or none
    dbDisk,     \* DB_PATH: subscriptions inside a back-off window
    cycle,      \* the poll cycles
    polling,    \* setInterval was called: the first cycle is over
    log,        \* the receiver's CHARGE_CONFIRMED lines
    overlapped, \* history: two cycles have run at once
    faults      \* how much of MaxFaults is used

disk    == <<walDisk, dbDisk>>
vars    == <<chain, net, disk, cycle, polling, log, overlapped, faults>>

Cycles  == 1..NumCycles
Seqno   == 0..MaxSeqno
Status  == {"ACTIVE", "GRACE", "PAUSED", "CANCELLED"}

WalEntry == [seqno : Seqno, attempts : Nat \ {0}]
NoEntry  == [seqno |-> 0, attempts |-> 0]
Wal      == [Subs -> WalEntry \cup {NoEntry}]
EmptyWal == [s \in Subs |-> NoEntry]

ChargeEvent == [sub : Subs \cup {NoSub}, from : Seqno, to : Seqno]
TestEvent   == [sub |-> NoSub, from |-> 0, to |-> 1]

\* replay, scan: at the head of the loops over the log and over the
\* subscriptions.  read, intent, waiting, report: inside tryCharge, before the
\* seqno getter, the send, the confirmation, the webhook.  recheck: in the
\* catch of replayWal.
Cycle == [pc : {"idle", "replay", "recheck", "scan",
                "read", "intent", "waiting", "report"},
          wal : Wal, backedOff : SUBSET Subs,
          todo : SUBSET Subs, sub : Subs \cup {NoSub}, replaying : BOOLEAN,
          entry : Seqno, seqno : Seqno, to : Seqno]

Idle == [pc |-> "idle", wal |-> EmptyWal, backedOff |-> {}, todo |-> {},
         sub |-> NoSub, replaying |-> FALSE, entry |-> 0, seqno |-> 0, to |-> 0]

TypeOK ==
    /\ chain \in [Subs -> [seqno : Seqno, status : Status, due : BOOLEAN]]
    /\ net \subseteq [sub : Subs, seqno : Seqno]
    /\ walDisk \in Wal /\ dbDisk \subseteq Subs
    /\ cycle \in [Cycles -> Cycle] /\ polling \in BOOLEAN
    /\ log \subseteq ChargeEvent
    /\ overlapped \in BOOLEAN
    /\ faults \in 0..MaxFaults

\* A subscription the relayer is started on: not yet due, waiting in GRACE, or
\* over.
Found(seqno, status) == [seqno |-> seqno, status |-> status, due |-> status = "GRACE"]

Init ==
    /\ chain \in [Subs -> {Found(n, status) :
                           n \in 0..MaxSeqno - 1, status \in {"ACTIVE", "GRACE", "CANCELLED"}}]
    /\ net = {} /\ walDisk = EmptyWal /\ dbDisk = {}
    /\ cycle = [c \in Cycles |-> Idle] /\ polling = FALSE
    /\ log = {} /\ overlapped = FALSE /\ faults = 0

Fault == faults < MaxFaults /\ faults' = faults + 1

Busy(c) == cycle[c].pc # "idle"

-----------------------------------------------------------------------------
(* The write-ahead log and the retry state, on a cycle's own copy.         *)

\* Slip: an entry that is there already is left as it is.
LoggedOnce(wal, s, n) ==
    IF wal[s] = NoEntry THEN [wal EXCEPT ![s] = [seqno |-> n, attempts |-> 1]] ELSE wal

\* Slip: the attempts start over.
LoggedAfresh(wal, s, n) == [wal EXCEPT ![s] = [seqno |-> n, attempts |-> 1]]

Logged(wal, s, n) == [wal EXCEPT ![s] = [seqno |-> n, attempts |-> wal[s].attempts + 1]]

\* Slip: the seqno of the old entry stays.
ClearedHalf(wal, s) == [wal EXCEPT ![s].attempts = 0]

Cleared(wal, s) == [wal EXCEPT ![s] = NoEntry]

\* saveWal writes the cycle's whole copy, whatever the file says by now.
Save(c, wal, next) ==
    /\ walDisk' = wal
    /\ cycle' = [cycle EXCEPT ![c] = [next EXCEPT !.wal = wal]]

\* Slip: the scan ends with the first subscription it charges.
ReturnedFromScan(k) ==
    [k EXCEPT !.pc = IF k.replaying THEN "replay" ELSE "scan",
              !.todo = IF k.replaying THEN @ ELSE {},
              !.sub = NoSub, !.entry = 0, !.seqno = 0, !.to = 0]

\* The loop tryCharge returns to, and what the catch around it does.
Returned(k) ==
    [k EXCEPT !.pc = IF k.replaying THEN "replay" ELSE "scan",
              !.sub = NoSub, !.entry = 0, !.seqno = 0, !.to = 0]

MarkedFailed(k) == [Returned(k) EXCEPT !.backedOff = @ \cup {k.sub}]

Thrown(k) ==
    IF k.replaying THEN [k EXCEPT !.pc = "recheck", !.seqno = 0] ELSE MarkedFailed(k)

-----------------------------------------------------------------------------
(* A cycle starts: the first one alone, later ones by the timer.           *)

Start(c) ==
    /\ ~Busy(c) /\ \A d \in Cycles : d < c => Busy(d)
    /\ polling \/ \A d \in Cycles : ~Busy(d)
    /\ cycle' = [cycle EXCEPT ![c] =
         [Idle EXCEPT !.pc = "replay", !.wal = walDisk, !.backedOff = dbDisk,
                      !.todo = {s \in Subs : walDisk[s] # NoEntry}, !.replaying = TRUE]]
    /\ overlapped' = (overlapped \/ \E d \in Cycles : Busy(d))
    /\ UNCHANGED <<chain, net, disk, polling, log, faults>>

-----------------------------------------------------------------------------
(* replayWal                                                               *)

Replays(c, s) == cycle[c].pc = "replay" /\ s \in cycle[c].todo

TooMany(c, s) == cycle[c].wal[s].attempts >= WAL_MAX_ATTEMPTS

\* The entry is dropped after too many attempts or when it is older than
\* WAL_MAX_AGE_S, which any entry may be; whatever the seqno check says.
Abandon(c, s) ==
    /\ Replays(c, s)
    /\ Save(c, Cleared(cycle[c].wal, s), [cycle[c] EXCEPT !.todo = @ \ {s}])
    /\ UNCHANGED <<chain, net, dbDisk, polling, log, overlapped, faults>>

\* No webhook: whoever confirmed it did not wait for it.
AlreadyConfirmed(c, s) ==
    /\ Replays(c, s) /\ ~TooMany(c, s)
    /\ chain[s].seqno > cycle[c].wal[s].seqno
    /\ Save(c, Cleared(cycle[c].wal, s), [cycle[c] EXCEPT !.todo = @ \ {s}])
    /\ UNCHANGED <<chain, net, dbDisk, polling, log, overlapped, faults>>

Retry(c, s) ==
    /\ Replays(c, s) /\ ~TooMany(c, s)
    /\ chain[s].seqno <= cycle[c].wal[s].seqno
    /\ cycle' = [cycle EXCEPT ![c] = [cycle[c] EXCEPT !.pc = "read", !.sub = s,
                                      !.todo = @ \ {s}, !.entry = cycle[c].wal[s].seqno]]
    /\ UNCHANGED <<chain, net, disk, polling, log, overlapped, faults>>

\* The seqno getter throws: straight into the catch.
ReplayFails(c, s) ==
    /\ Replays(c, s) /\ ~TooMany(c, s) /\ Fault
    /\ cycle' = [cycle EXCEPT ![c] = [cycle[c] EXCEPT !.pc = "recheck", !.sub = s,
                                      !.todo = @ \ {s}, !.entry = cycle[c].wal[s].seqno]]
    /\ UNCHANGED <<chain, net, disk, polling, log, overlapped>>

\* The catch looks at the seqno once more.  An entry confirmed after all
\* returns from replayWal: the entries after it wait for the next cycle.
Recheck(c) ==
    LET k == cycle[c] IN
    /\ k.pc = "recheck"
    /\ \/ /\ chain[k.sub].seqno > k.entry
          /\ Save(c, Cleared(k.wal, k.sub), [Returned(k) EXCEPT !.todo = {}])
          /\ UNCHANGED faults
       \/ /\ chain[k.sub].seqno <= k.entry
          /\ cycle' = [cycle EXCEPT ![c] = MarkedFailed(k)]
          /\ UNCHANGED <<walDisk, faults>>
       \/ /\ Fault
          /\ cycle' = [cycle EXCEPT ![c] = MarkedFailed(k)]
          /\ UNCHANGED walDisk
    /\ UNCHANGED <<chain, net, dbDisk, polling, log, overlapped>>

-----------------------------------------------------------------------------
(* webhook-server.ts: what a POST to /orbit/webhook does to the log.       *)

\* Slip: the signature is not looked at.
AnySender(signed) == TRUE

Authentic(signed) == HasSecret => signed

Receive(e, signed) ==
    log' = IF Authentic(signed) THEN log \cup {e} ELSE log

\* The end-to-end test posts an event of its own, its secret in a header the
\* receiver does not read.
TestWebhook ==
    /\ Receive(TestEvent, FALSE)
    /\ UNCHANGED <<chain, net, disk, cycle, polling, overlapped, faults>>

-----------------------------------------------------------------------------
(* tryCharge                                                               *)

\* The intent is on disk before the message leaves.
ReadAndLog(c) ==
    LET k == cycle[c]  n == chain[k.sub].seqno IN
    /\ k.pc = "read"
    /\ Save(c, Logged(k.wal, k.sub, n), [k EXCEPT !.pc = "intent", !.seqno = n])
    /\ UNCHANGED <<chain, net, dbDisk, polling, log, overlapped, faults>>

ReadFails(c) ==
    /\ cycle[c].pc = "read" /\ Fault
    /\ cycle' = [cycle EXCEPT ![c] = Thrown(@)]
    /\ UNCHANGED <<chain, net, disk, polling, log, overlapped>>

SignedCharge(k) == [sub |-> k.sub, seqno |-> k.seqno]

Send(c) ==
    /\ cycle[c].pc = "intent"
    /\ net' = net \cup {SignedCharge(cycle[c])}
    /\ cycle' = [cycle EXCEPT ![c].pc = "waiting"]
    /\ UNCHANGED <<chain, disk, polling, log, overlapped, faults>>

\* TonCenter answers with an error, whether it took the message or not.
SendFails(c) ==
    /\ cycle[c].pc = "intent" /\ Fault
    /\ net' \in {net, net \cup {SignedCharge(cycle[c])}}
    /\ cycle' = [cycle EXCEPT ![c] = Thrown(@)]
    /\ UNCHANGED <<chain, disk, polling, log, overlapped>>

\* Slip: the seqno need not advance.
SeenAtOnce(k) == chain[k.sub].seqno >= k.seqno

SeenAdvanced(k) == chain[k.sub].seqno > k.seqno

\* Any advance confirms: of this charge, of a top-up, of an owner's message.
Confirmed(c) ==
    LET k == cycle[c] IN
    /\ k.pc = "waiting" /\ SeenAdvanced(k)
    /\ Save(c, Cleared(k.wal, k.sub),
            [k EXCEPT !.pc = "report", !.to = chain[k.sub].seqno,
                      !.backedOff = @ \ {k.sub}])
    /\ UNCHANGED <<chain, net, dbDisk, polling, log, overlapped, faults>>

\* 30 s without an advance.  A slow network is a fault; a message that is gone
\* is none.
TimedOut(c) ==
    /\ cycle[c].pc = "waiting" /\ ~SeenAdvanced(cycle[c])
    /\ IF SignedCharge(cycle[c]) \in net THEN Fault ELSE UNCHANGED faults
    /\ cycle' = [cycle EXCEPT ![c] = Thrown(@)]
    /\ UNCHANGED <<chain, net, disk, polling, log, overlapped>>

Event(k) == [sub |-> k.sub, from |-> k.seqno, to |-> k.to]

\* fireWebhook awaits the receiver's answer and swallows every failure: an
\* event that is lost stays lost.
Report(c) ==
    LET e == Event(cycle[c]) IN
    /\ cycle[c].pc = "report"
    /\ \/ Receive(e, HasSecret) /\ UNCHANGED faults
       \/ Fault /\ UNCHANGED log
    /\ cycle' = [cycle EXCEPT ![c] = Returned(@)]
    /\ UNCHANGED <<chain, net, disk, polling, overlapped>>

-----------------------------------------------------------------------------
(* pollCycle                                                               *)

SaveDB(c) == dbDisk' = cycle[c].backedOff

Replayed(c) == cycle[c].pc = "replay" /\ cycle[c].todo = {}

\* Which subscriptions are known is the subject of RelayerIndex.
Discover(c) ==
    /\ Replayed(c) /\ SaveDB(c)
    /\ cycle' = [cycle EXCEPT ![c] = [@ EXCEPT !.pc = "scan", !.replaying = FALSE,
                                      !.todo = Subs]]
    /\ UNCHANGED <<chain, net, walDisk, polling, log, overlapped, faults>>

\* The backend names no factory: the cycle ends without a scan.
NoFactories(c) ==
    /\ Replayed(c) /\ Fault /\ SaveDB(c)
    /\ cycle' = [cycle EXCEPT ![c] = Idle] /\ polling' = TRUE
    /\ UNCHANGED <<chain, net, walDisk, log, overlapped>>

Scans(c, s) == cycle[c].pc = "scan" /\ s \in cycle[c].todo

LooksDue(s) == chain[s].status \notin {"CANCELLED", "PAUSED"} /\ chain[s].due

Skip(c, s) ==
    /\ Scans(c, s)
    /\ s \in cycle[c].backedOff \/ ~LooksDue(s)
    /\ cycle' = [cycle EXCEPT ![c].todo = @ \ {s}]
    /\ UNCHANGED <<chain, net, disk, polling, log, overlapped, faults>>

ScanDue(c, s) ==
    /\ Scans(c, s) /\ s \notin cycle[c].backedOff /\ LooksDue(s)
    /\ cycle' = [cycle EXCEPT ![c] = [cycle[c] EXCEPT !.pc = "read", !.sub = s, !.todo = @ \ {s}]]
    /\ UNCHANGED <<chain, net, disk, polling, log, overlapped, faults>>

ScanFails(c, s) ==
    /\ Scans(c, s) /\ s \notin cycle[c].backedOff /\ Fault
    /\ cycle' = [cycle EXCEPT ![c].todo = @ \ {s}, ![c].backedOff = @ \cup {s}]
    /\ UNCHANGED <<chain, net, disk, polling, log, overlapped>>

ScanDone(c) ==
    /\ cycle[c].pc = "scan" /\ cycle[c].todo = {}
    /\ SaveDB(c)
    /\ cycle' = [cycle EXCEPT ![c] = Idle] /\ polling' = TRUE
    /\ UNCHANGED <<chain, net, walDisk, log, overlapped, faults>>

Crash ==
    /\ Fault /\ \E c \in Cycles : Busy(c)
    /\ cycle' = [c \in Cycles |-> Idle] /\ polling' = FALSE
    /\ UNCHANGED <<chain, net, disk, log, overlapped>>

\* The clock passes nextRetryAt, in every copy and in the file.
BackoffOver(s) ==
    /\ s \in dbDisk \/ \E c \in Cycles : s \in cycle[c].backedOff
    /\ dbDisk' = dbDisk \ {s}
    /\ cycle' = [c \in Cycles |-> [cycle[c] EXCEPT !.backedOff = @ \ {s}]]
    /\ UNCHANGED <<chain, net, walDisk, polling, log, overlapped, faults>>

-----------------------------------------------------------------------------
(* The chain and the other parties.                                        *)

\* The seqno moves on: every charge signed for the old one is void.
Advance(s, status, due) ==
    /\ chain[s].seqno < MaxSeqno
    /\ due => chain[s].seqno + 1 < MaxSeqno
    /\ chain' = [chain EXCEPT ![s] =
                   [seqno |-> @.seqno + 1, status |-> status, due |-> due]]
    /\ net' = {m \in net : m.sub # s}

InTurn(m) == m.seqno = chain[m.sub].seqno /\ chain[m.sub].due

\* A charge in turn is paid, or finds the deposit empty: the subscription
\* enters GRACE or stays there, still due, or is cancelled.
Land(m) ==
    /\ m \in net /\ InTurn(m)
    /\ \/ Advance(m.sub, "ACTIVE", FALSE)
       \/ Advance(m.sub, "GRACE", TRUE)
       \/ Advance(m.sub, "CANCELLED", FALSE)
    /\ UNCHANGED <<disk, cycle, polling, log, overlapped, faults>>

\* A charge in turn that changes nothing on chain: the balance cannot pay its
\* messages and all is rolled back, an earlier jetton charge still waits for its
\* confirmation, or the emergency pause is on.  It may be so for ever.
RolledBack(m) ==
    /\ m \in net /\ InTurn(m) /\ net' = net \ {m}
    /\ UNCHANGED <<chain, disk, cycle, polling, log, overlapped, faults>>

\* A charge out of turn is refused and expires; one in turn is lost by a fault.
Vanish(m) ==
    /\ m \in net /\ net' = net \ {m}
    /\ IF InTurn(m) THEN Fault ELSE UNCHANGED faults
    /\ UNCHANGED <<chain, disk, cycle, polling, log, overlapped>>

BillingTime(s) ==
    /\ chain[s].status = "ACTIVE" /\ chain[s].seqno < MaxSeqno
    /\ chain' = [chain EXCEPT ![s].due = TRUE]
    /\ UNCHANGED <<net, disk, cycle, polling, log, overlapped, faults>>

\* Everything else that moves the seqno (a top-up of a paused subscription is
\* like a pause to the relayer).
TopUp(s) ==
    /\ chain[s].status \in {"ACTIVE", "GRACE"} /\ Advance(s, "ACTIVE", chain[s].due)
    /\ UNCHANGED <<disk, cycle, polling, log, overlapped, faults>>

OwnerActs(s) ==
    /\ \/ chain[s].status = "ACTIVE" /\ Advance(s, "PAUSED", FALSE)
       \/ chain[s].status = "PAUSED" /\ Advance(s, "ACTIVE", FALSE)
       \/ chain[s].status # "CANCELLED" /\ Advance(s, "CANCELLED", FALSE)
    /\ UNCHANGED <<disk, cycle, polling, log, overlapped, faults>>

-----------------------------------------------------------------------------
Step(c) ==
    \/ Recheck(c) \/ ReadAndLog(c) \/ ReadFails(c) \/ Send(c) \/ SendFails(c)
    \/ Confirmed(c) \/ TimedOut(c) \/ Report(c) \/ Discover(c) \/ NoFactories(c) \/ ScanDone(c)
    \/ \E s \in Subs : \/ Abandon(c, s) \/ AlreadyConfirmed(c, s) \/ Retry(c, s)
                       \/ ReplayFails(c, s) \/ Skip(c, s) \/ ScanDue(c, s) \/ ScanFails(c, s)

Next ==
    \/ \E c \in Cycles : Start(c) \/ Step(c)
    \/ \E m \in net : Land(m) \/ RolledBack(m) \/ Vanish(m)
    \/ \E s \in Subs : BillingTime(s) \/ TopUp(s) \/ OwnerActs(s) \/ BackoffOver(s)
    \/ Crash \/ TestWebhook

Spec == Init /\ [][Next]_vars

\* The timer keeps starting a cycle that runs on (a cycle beside it may hang
\* for good in an await); the network delivers, whatever the contract makes of
\* it; the clock moves.
Fairness ==
    /\ WF_vars(Start(1) \/ Step(1))
    /\ \A s \in Subs : /\ WF_vars(BackoffOver(s))
                       /\ WF_vars(\E m \in net : m.sub = s
                                     /\ (Land(m) \/ RolledBack(m) \/ Vanish(m)))

FairSpec == Spec /\ Fairness

-----------------------------------------------------------------------------
(* Properties                                                              *)

\* No charge leaves before the log on disk names it: with one cycle at a time
\* a crash at any line finds the entry (tryCharge, walLogIntent).
SendIsLogged ==
    [][\A m \in net' \ net : overlapped \/ (walDisk[m.sub] # NoEntry
                                            /\ walDisk[m.sub].seqno = m.seqno)]_vars

\* The service is never told twice of one seqno, across crashes, replays and
\* seqnos that move by other means: the events of a subscription cover
\* disjoint, non-empty ranges (fireWebhook is called in tryCharge only, after
\* the log is cleared).
ToldOnce ==
    [][\A c \in Cycles :
         (cycle[c].pc = "report" /\ cycle'[c].pc \notin {"report", "idle"}) =>
           LET e == Event(cycle[c]) IN
           \/ overlapped
           \/ e.from < e.to /\ \A l \in log : l.sub = e.sub => l.to <= e.from]_vars

\* What the receiver logs as confirmed is a range of seqnos that a known
\* subscription has gone through, whoever else posts to it.
LogIsTrue ==
    HasSecret => \A l \in log : l.sub \in Subs /\ l.from < l.to /\ l.to <= chain[l.sub].seqno

\* No log entry stays for good: it is confirmed, or given up.
WalDrains == \A s \in Subs : walDisk[s] # NoEntry ~> walDisk[s] = NoEntry

\* A due subscription is charged, again and again while its deposit is empty,
\* until it is paid for or no longer ACTIVE or in GRACE, whatever crashed,
\* failed or timed out on the way (the poll loop, backoffDelay, replayWal); or
\* the contract itself rolls back one charge after another, without end.
DueIsSettled ==
    \A s \in Subs :
        \/ chain[s].due ~> ~chain[s].due
        \/ []<><<\E m \in net : m.sub = s /\ RolledBack(m)>>_vars
=============================================================================
