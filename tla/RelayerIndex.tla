---------------------------- MODULE RelayerIndex ----------------------------
(***************************************************************************)
(* How the relayer learns which subscriptions exist: a cycle asks the      *)
(* backend for the factories, pages through the history of a factory it    *)
(* has not scanned, later fetches what is newer than its cursor, and saves *)
(* the database before and after it charges.                               *)
(*                                                                         *)
(* A transaction of a factory is a logical time; every one deploys a       *)
(* subscription here (others only take room on a page).  Cycles overlap    *)
(* and crash as in Relayer; this module has the database, that one the     *)
(* charges.                                                                *)
(***************************************************************************)
EXTENDS Naturals, FiniteSets

CONSTANTS
    Factories,      \* factories of active services
    Fallback,       \* FACTORY_ADDRESS, one of them
    PAGE,           \* transactions per request (limit=50)
    NumCycles,      \* poll cycles that may run at once
    Seeded,         \* factories whose first subscription is in INITIAL_SUBSCRIPTIONS
    MaxLt,          \* bound on the history of the fallback factory
    MaxOther,       \* bound on the history of each other factory
    MaxFaults       \* bound on crashes, failed requests and wrong answers

Sub == Factories \X (1..MaxLt)

ASSUME IndexConstants ==
    /\ IsFiniteSet(Factories) /\ Fallback \in Factories
    /\ PAGE \in Nat /\ PAGE >= 2
    /\ NumCycles \in Nat \ {0} /\ MaxFaults \in Nat
    /\ MaxLt \in Nat \ {0} /\ MaxOther \in 0..MaxLt
    /\ Seeded \subseteq Factories

VARIABLES
    txs,        \* newest logical time of each factory
    disk,       \* the database file
    cycle,      \* the poll cycles with their copies of it
    polling,    \* setInterval was called
    faults      \* how much of MaxFaults is used

vars == <<txs, disk, cycle, polling, faults>>

Cycles == 1..NumCycles

\* gap is history: the first scan of this factory broke off, or more than a
\* page was new at once.
ScanState == [lastLt : 0..MaxLt, initialScanDone : BOOLEAN, gap : BOOLEAN]
Fresh     == [lastLt |-> 0, initialScanDone |-> FALSE, gap |-> FALSE]

\* legacy: the cursor of a database written before there were several
\* factories, at the top level.
Database == [factories : [Factories -> ScanState], subscriptions : SUBSET Sub,
             legacy : {Fresh} \cup ScanState]
EmptyDB  == [factories |-> [f \in Factories |-> Fresh], subscriptions |-> {}, legacy |-> Fresh]

Cycle == [pc : {"idle", "factories", "index", "paging", "charge"}, db : Database,
          todo : SUBSET Factories, current : Factories, pageLt : 0..MaxLt]
Idle  == [pc |-> "idle", db |-> EmptyDB, todo |-> {}, current |-> Fallback, pageLt |-> 0]

TypeOK ==
    /\ txs \in [Factories -> 0..MaxLt]
    /\ disk \in Database
    /\ cycle \in [Cycles -> Cycle] /\ polling \in BOOLEAN
    /\ faults \in 0..MaxFaults

Before(f, lt) == {s \in Sub : s[1] = f /\ s[2] <= lt}

\* The relayer is new, or takes over the database of its predecessor, which
\* has scanned the one factory it served up to some time.
LegacyDB(lt) ==
    [EmptyDB EXCEPT !.subscriptions = Before(Fallback, lt),
                    !.legacy = [lastLt |-> lt, initialScanDone |-> TRUE, gap |-> FALSE]]

HistoryBound(f) == IF f = Fallback THEN MaxLt ELSE MaxOther

Init ==
    /\ txs \in [Factories -> {0, MaxLt - 1}]
    /\ \A f \in Factories : txs[f] <= HistoryBound(f)
    /\ disk \in {EmptyDB, LegacyDB(txs[Fallback])}
    /\ cycle = [c \in Cycles |-> Idle] /\ polling = FALSE /\ faults = 0

Busy(c) == cycle[c].pc # "idle"
Fault   == faults < MaxFaults /\ faults' = faults + 1
-----------------------------------------------------------------------------
(* loadDB, saveDB                                                          *)

\* The legacy cursor moves to the factory it was about, unless that has one.
Migrated(db) ==
    IF db.legacy # Fresh /\ db.factories[Fallback] = Fresh
    THEN [db EXCEPT !.factories[Fallback] = db.legacy, !.legacy = Fresh]
    ELSE db

SaveDB(c) == disk' = cycle[c].db

Start(c) ==
    /\ ~Busy(c) /\ \A d \in Cycles : d < c => Busy(d)
    /\ polling \/ \A d \in Cycles : ~Busy(d)
    /\ cycle' = [cycle EXCEPT ![c] = [Idle EXCEPT !.pc = "factories", !.db = Migrated(disk)]]
    /\ UNCHANGED <<txs, disk, polling, faults>>

\* Slip: the backend is not asked.
OnlyFallback == {Fallback}

\* What the backend lists: the factories of active services.
Listed == Factories

\* Every active factory; or, when the backend cannot be reached, the one of
\* the environment; or an empty list, and the cycle saves and ends.
FetchFactories(c) ==
    /\ cycle[c].pc = "factories"
    /\ \/ /\ cycle' = [cycle EXCEPT ![c].pc = "index", ![c].todo = Listed]
          /\ UNCHANGED <<disk, polling, faults>>
       \/ /\ cycle' = [cycle EXCEPT ![c].pc = "index", ![c].todo = {Fallback}]
          /\ Fault /\ UNCHANGED <<disk, polling>>
       \/ /\ cycle' = [cycle EXCEPT ![c] = Idle]
          /\ Fault /\ SaveDB(c) /\ polling' = TRUE
    /\ UNCHANGED txs

-----------------------------------------------------------------------------
(* indexNewSubscriptions                                                   *)

\* The newest PAGE transactions up to top and above toLt.
TxPage(f, top, toLt) ==
    {s \in Sub : s[1] = f /\ s[2] <= top /\ s[2] > toLt /\ s[2] + PAGE > top}

Newest(page)  == CHOOSE lt \in 1..MaxLt : \E s \in page : s[2] = lt /\ \A r \in page : r[2] <= lt
OldestLt(page) == CHOOSE lt \in 1..MaxLt : \E s \in page : s[2] = lt /\ \A r \in page : r[2] >= lt

Collected(db, page) == [db EXCEPT !.subscriptions = @ \cup page]

\* Slip: the cursor moves past the page.
AdvancedPast(st, page) ==
    IF page = {} THEN st ELSE [st EXCEPT !.lastLt = Newest(page) + 1]

\* The cursor moves up to the newest transaction of a page.
Advanced(st, page) ==
    IF page # {} /\ Newest(page) > st.lastLt THEN [st EXCEPT !.lastLt = Newest(page)] ELSE st

\* Slip: a page that is full but one ends the scan.
NearlyFull(page) == Cardinality(page) <= PAGE

LastPage(page) == Cardinality(page) < PAGE

Finished(k, f) == [k EXCEPT !.pc = "index", !.todo = @ \ {f}, !.current = Fallback, !.pageLt = 0]

\* A page of the first scan arrives; the scan goes on with the oldest
\* transaction of this page, which the next one repeats.
PageArrives(k, f, page) ==
    LET db == [Collected(k.db, page) EXCEPT !.factories[f] = Advanced(@, page)] IN
    IF LastPage(page)
    THEN Finished([k EXCEPT !.db = [db EXCEPT !.factories[f].initialScanDone = TRUE]], f)
    ELSE [k EXCEPT !.pc = "paging", !.current = f, !.db = db, !.pageLt = OldestLt(page)]

\* A request throws or TonCenter answers ok:false, which reads as an empty
\* page: either way the scan counts as done.
BrokenOff(k, f) ==
    Finished([k EXCEPT !.db.factories[f] = [@ EXCEPT !.initialScanDone = TRUE, !.gap = TRUE]], f)

\* Seeds are added before any request, in every cycle.
WithSeeds(k) == [k EXCEPT !.db.subscriptions = @ \cup {<<f, 1>> : f \in Seeded}]

FirstPage(c, f) ==
    LET k == WithSeeds(cycle[c]) IN
    /\ k.pc = "index" /\ f \in k.todo /\ ~k.db.factories[f].initialScanDone
    /\ \/ /\ cycle' = [cycle EXCEPT ![c] = PageArrives(k, f, TxPage(f, txs[f], 0))]
          /\ UNCHANGED faults
       \/ /\ cycle' = [cycle EXCEPT ![c] = BrokenOff(k, f)]
          /\ Fault
    /\ UNCHANGED <<txs, disk, polling>>

NextPage(c) ==
    LET k == cycle[c] IN
    /\ k.pc = "paging"
    /\ \/ /\ cycle' = [cycle EXCEPT ![c] =
                         PageArrives(k, k.current, TxPage(k.current, k.pageLt, 0))]
          /\ UNCHANGED faults
       \/ /\ cycle' = [cycle EXCEPT ![c] = BrokenOff(k, k.current)]
          /\ Fault
    /\ UNCHANGED <<txs, disk, polling>>

\* One request for what is newer than the cursor, however much that is.
Incremental(c, f) ==
    LET k == WithSeeds(cycle[c])
        st == k.db.factories[f]
        page == TxPage(f, txs[f], st.lastLt)
        new == [Advanced(st, page) EXCEPT !.gap = @ \/ txs[f] > st.lastLt + PAGE]
    IN /\ k.pc = "index" /\ f \in k.todo /\ st.initialScanDone
       /\ \/ /\ cycle' = [cycle EXCEPT ![c] =
                   Finished([k EXCEPT !.db = [Collected(k.db, page) EXCEPT !.factories[f] = new]], f)]
             /\ UNCHANGED faults
          \/ /\ cycle' = [cycle EXCEPT ![c] = Finished(k, f)]
             /\ Fault
       /\ UNCHANGED <<txs, disk, polling>>

-----------------------------------------------------------------------------
(* The rest of the cycle, as far as the database is concerned.             *)

Indexed(c) ==
    /\ cycle[c].pc = "index" /\ cycle[c].todo = {}
    /\ SaveDB(c)
    /\ cycle' = [cycle EXCEPT ![c].pc = "charge"]
    /\ UNCHANGED <<txs, polling, faults>>

\* After the charges, which may take minutes, the same copy is saved again.
Charged(c) ==
    /\ cycle[c].pc = "charge"
    /\ SaveDB(c)
    /\ cycle' = [cycle EXCEPT ![c] = Idle] /\ polling' = TRUE
    /\ UNCHANGED <<txs, faults>>

Crash ==
    /\ Fault /\ \E c \in Cycles : Busy(c)
    /\ cycle' = [c \in Cycles |-> Idle] /\ polling' = FALSE
    /\ UNCHANGED <<txs, disk>>

\* A user subscribes.
Subscribe(f) ==
    /\ txs[f] < HistoryBound(f)
    /\ txs' = [txs EXCEPT ![f] = @ + 1]
    /\ UNCHANGED <<disk, cycle, polling, faults>>

Step(c) ==
    \/ FetchFactories(c) \/ NextPage(c) \/ Indexed(c) \/ Charged(c)
    \/ \E f \in Factories : FirstPage(c, f) \/ Incremental(c, f)

Next ==
    \/ \E c \in Cycles : Start(c) \/ Step(c)
    \/ \E f \in Factories : Subscribe(f)
    \/ Crash

Spec == Init /\ [][Next]_vars

\* The timer starts cycles, and every request is answered in the end.
Fairness == \A c \in Cycles : WF_vars(Start(c) \/ Step(c))

FairSpec == Spec /\ Fairness

-----------------------------------------------------------------------------
(* Properties                                                              *)

\* What lies below the cursor of a factory is in the database, in the file
\* and in every copy, whatever arrived during the paging, crashed or was
\* saved over it by an older copy (indexNewSubscriptions, pollCycle).
Complete(db) ==
    \A f \in Factories :
        LET st == db.factories[f] IN
        st.initialScanDone /\ ~st.gap => Before(f, st.lastLt) \subseteq db.subscriptions

NothingBelowCursorMissed == Complete(disk) /\ \A c \in Cycles : Complete(cycle[c].db)

\* In the end every deployed subscription is in the file and stays there,
\* unless a first scan broke off or a burst did not fit on a page.
AllIndexed ==
    <>[](\A f \in Factories :
           disk.factories[f].gap \/ Before(f, txs[f]) \subseteq disk.subscriptions)
=============================================================================
