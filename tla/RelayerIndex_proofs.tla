------------------------ MODULE RelayerIndex_proofs ------------------------
(***************************************************************************)
(* What holds of RelayerIndex for every value of its constants: the types, *)
(* and that no copy of the database misses a subscription below a cursor.  *)
(***************************************************************************)
EXTENDS RelayerIndex, FiniteSetTheorems, TLAPS

\* What the legacy cursor promises of the factory it is about.
LegacyWhole(db) ==
    /\ db.legacy.initialScanDone /\ ~db.legacy.gap =>
         Before(Fallback, db.legacy.lastLt) \subseteq db.subscriptions
    /\ ~db.legacy.initialScanDone => db.legacy.lastLt = 0

\* A factory that is not scanned has no cursor yet; fs are not looked at.
UnscannedAtZero(db, fs) ==
    \A f \in Factories \ fs : ~db.factories[f].initialScanDone => db.factories[f].lastLt = 0

DbInv(db, fs) == Complete(db) /\ LegacyWhole(db) /\ UnscannedAtZero(db, fs)

\* In the middle of a first scan, everything between the page's end and the
\* cursor has been collected.
PagingInv(k) ==
    LET st == k.db.factories[k.current] IN
    /\ ~st.initialScanDone /\ k.pageLt <= st.lastLt
    /\ \A s \in Before(k.current, st.lastLt) : s[2] >= k.pageLt => s \in k.db.subscriptions

CycleInv(k) ==
    /\ k.pc = "paging" => DbInv(k.db, {k.current}) /\ PagingInv(k)
    /\ k.pc # "paging" => DbInv(k.db, {})

IndexInv ==
    /\ TypeOK /\ DbInv(disk, {})
    /\ \A c \in Cycles : CycleInv(cycle[c])

LEMMA ConstantTypes ==
    /\ Fallback \in Factories /\ PAGE \in Nat /\ PAGE >= 2
    /\ NumCycles \in Nat \ {0} /\ MaxFaults \in Nat
    /\ MaxLt \in Nat \ {0} /\ MaxOther \in Nat /\ MaxOther <= MaxLt
    /\ Seeded \subseteq Factories
  BY IndexConstants

-----------------------------------------------------------------------------
(* Databases.                                                              *)

\* A database is made of its three parts.
LEMMA DatabaseParts ==
    ASSUME NEW db \in Database
    PROVE  /\ db.factories \in [Factories -> ScanState]
           /\ db.subscriptions \subseteq Sub
           /\ db.legacy \in ScanState
<1>1. Fresh \in ScanState
  BY ConstantTypes DEF Fresh, ScanState
<1> QED BY <1>1 DEF Database

LEMMA ScanParts ==
    ASSUME NEW st \in ScanState
    PROVE  st.lastLt \in Nat /\ st.lastLt <= MaxLt /\ st.initialScanDone \in BOOLEAN /\ st.gap \in BOOLEAN
  BY ConstantTypes DEF ScanState

LEMMA SubParts ==
    ASSUME NEW s \in Sub
    PROVE  /\ s[1] \in Factories /\ s[2] \in 1..MaxLt /\ s[2] \in Nat
           /\ s = <<s[1], s[2]>>
  BY ConstantTypes DEF Sub

\* Nothing is missing from an empty database.
LEMMA EmptyInv == EmptyDB \in Database /\ DbInv(EmptyDB, {})
<1>1. EmptyDB \in Database
  <2>1. Fresh \in ScanState
    BY ConstantTypes DEF Fresh, ScanState
  <2> QED BY <2>1 DEF EmptyDB, Database
<1>2. Complete(EmptyDB) /\ LegacyWhole(EmptyDB) /\ UnscannedAtZero(EmptyDB, {})
  BY ConstantTypes DEF EmptyDB, Fresh, Complete, LegacyWhole, UnscannedAtZero
<1> QED BY <1>1, <1>2 DEF DbInv

\* A predecessor's database misses nothing of its one factory.
LEMMA LegacyInv ==
    ASSUME NEW lt \in 0..MaxLt
    PROVE  LegacyDB(lt) \in Database /\ DbInv(LegacyDB(lt), {})
<1> DEFINE db == LegacyDB(lt)
<1>1. db = [factories |-> [f \in Factories |-> Fresh], subscriptions |-> Before(Fallback, lt),
            legacy |-> [lastLt |-> lt, initialScanDone |-> TRUE, gap |-> FALSE]]
  <2> DEFINE old == [lastLt |-> lt, initialScanDone |-> TRUE, gap |-> FALSE]
             one == [EmptyDB EXCEPT !.subscriptions = Before(Fallback, lt)]
  <2>1. one = [factories |-> [f \in Factories |-> Fresh],
               subscriptions |-> Before(Fallback, lt), legacy |-> Fresh]
    BY DEF EmptyDB
  <2>2. db = [one EXCEPT !.legacy = old]
    BY DEF LegacyDB
  <2> HIDE DEF one
  <2> QED BY <2>1, <2>2
<1>2. [lastLt |-> lt, initialScanDone |-> TRUE, gap |-> FALSE] \in ScanState /\ Fresh \in ScanState
  BY ConstantTypes DEF ScanState, Fresh
<1>3. Before(Fallback, lt) \subseteq Sub
  BY DEF Before
<1>4. db \in Database
  BY <1>1, <1>2, <1>3 DEF Database
<1>5. Complete(db) /\ LegacyWhole(db) /\ UnscannedAtZero(db, {})
  BY <1>1 DEF Fresh, Complete, LegacyWhole, UnscannedAtZero
<1> QED BY <1>4, <1>5 DEF DbInv

\* The cursor that migrates was the legacy one, with what it promised.
LEMMA MigratedInv ==
    ASSUME NEW db \in Database, DbInv(db, {})
    PROVE  Migrated(db) \in Database /\ DbInv(Migrated(db), {})
<1>1. CASE db.legacy # Fresh /\ db.factories[Fallback] = Fresh
  <2> DEFINE new == [factories |-> [db.factories EXCEPT ![Fallback] = db.legacy],
                     subscriptions |-> db.subscriptions, legacy |-> Fresh]
  <2>1. Migrated(db) = new
    BY <1>1 DEF Migrated, Database
  <2>2. /\ new.subscriptions = db.subscriptions /\ new.legacy = Fresh
        /\ new.factories[Fallback] = db.legacy
        /\ \A f \in Factories \ {Fallback} : new.factories[f] = db.factories[f]
    BY DatabaseParts, ConstantTypes
  <2>3. new \in Database
    BY DatabaseParts DEF Database
  <2> HIDE DEF new
  <2>4. Complete(new)
    BY <2>2 DEF DbInv, Complete, LegacyWhole
  <2>5. LegacyWhole(new)
    BY <2>2 DEF LegacyWhole, Fresh
  <2>6. UnscannedAtZero(new, {})
    BY <2>2 DEF DbInv, UnscannedAtZero, LegacyWhole
  <2> QED BY <2>1, <2>3, <2>4, <2>5, <2>6 DEF DbInv
<1>2. CASE ~(db.legacy # Fresh /\ db.factories[Fallback] = Fresh)
  BY <1>2 DEF Migrated
<1> QED BY <1>1, <1>2

\* The scan state of one factory is replaced and subscriptions are added.
Updated(db, f, st, page) ==
    [factories |-> [db.factories EXCEPT ![f] = st],
     subscriptions |-> db.subscriptions \cup page, legacy |-> db.legacy]

LEMMA UpdatedParts ==
    ASSUME NEW db \in Database, NEW f \in Factories, NEW st \in ScanState,
           NEW page \in SUBSET Sub
    PROVE  LET new == Updated(db, f, st, page) IN
           /\ new \in Database
           /\ new.factories[f] = st
           /\ \A g \in Factories \ {f} : new.factories[g] = db.factories[g]
           /\ new.subscriptions = db.subscriptions \cup page /\ new.legacy = db.legacy
<1> DEFINE new == Updated(db, f, st, page)
<1>1. new \in Database
  BY DatabaseParts DEF Database, Updated
<1>2. /\ new.factories[f] = st
      /\ \A g \in Factories \ {f} : new.factories[g] = db.factories[g]
      /\ new.subscriptions = db.subscriptions \cup page /\ new.legacy = db.legacy
  BY DatabaseParts DEF Updated
<1> QED BY <1>1, <1>2

\* If the one factory is well afterwards, so is the database.
LEMMA UpdatedInv ==
    ASSUME NEW db \in Database, NEW f \in Factories, NEW st \in ScanState,
           NEW page \in SUBSET Sub, NEW fs, DbInv(db, {f}),
           st.initialScanDone /\ ~st.gap =>
             Before(f, st.lastLt) \subseteq db.subscriptions \cup page,
           ~st.initialScanDone => st.lastLt = 0 \/ f \in fs
    PROVE  DbInv(Updated(db, f, st, page), fs)
<1> DEFINE new == Updated(db, f, st, page)
<1>1. /\ new.factories[f] = st
      /\ \A g \in Factories \ {f} : new.factories[g] = db.factories[g]
      /\ new.subscriptions = db.subscriptions \cup page /\ new.legacy = db.legacy
  BY UpdatedParts
<1> HIDE DEF new
<1>2. Complete(new)
  BY <1>1 DEF DbInv, Complete
<1>3. LegacyWhole(new)
  BY <1>1 DEF DbInv, LegacyWhole
<1>4. UnscannedAtZero(new, fs)
  BY <1>1 DEF DbInv, UnscannedAtZero
<1> QED BY <1>2, <1>3, <1>4 DEF DbInv, new

-----------------------------------------------------------------------------
(* Pages.                                                                  *)

\* Where a page ends: at the lower limit of the request, or PAGE back.
PageEnd(top, toLt) == IF top >= toLt + PAGE THEN top + 1 - PAGE ELSE toLt + 1

LEMMA PageParts ==
    ASSUME NEW f \in Factories, NEW top \in 0..MaxLt, NEW toLt \in 0..MaxLt
    PROVE  /\ TxPage(f, top, toLt) \subseteq Sub
           /\ \A lt \in 1..MaxLt : <<f, lt>> \in TxPage(f, top, toLt) <=>
                lt \in PageEnd(top, toLt)..top
           /\ \A s \in TxPage(f, top, toLt) : s[1] = f /\ s[2] \in PageEnd(top, toLt)..top
           /\ top > toLt => PageEnd(top, toLt) \in 1..top
           /\ top <= toLt => TxPage(f, top, toLt) = {}
<1> DEFINE page == TxPage(f, top, toLt)
           lo   == PageEnd(top, toLt)
<1>0. top \in Nat /\ toLt \in Nat /\ top <= MaxLt /\ PAGE \in Nat /\ PAGE >= 2 /\ MaxLt \in Nat
  BY ConstantTypes
<1>1. ASSUME NEW lt \in 1..MaxLt
      PROVE  lt <= top /\ lt > toLt /\ lt + PAGE > top <=> lt \in lo..top
  BY <1>0 DEF PageEnd
<1>2. page \subseteq Sub
  BY DEF TxPage
<1>3. \A lt \in 1..MaxLt : <<f, lt>> \in page <=> lt \in lo..top
  BY <1>1 DEF TxPage, Sub
<1>4. \A s \in page : s[1] = f /\ s[2] \in lo..top
  <2> TAKE s \in page
  <2>1. s \in Sub /\ s[1] = f /\ s[2] <= top /\ s[2] > toLt /\ s[2] + PAGE > top
    BY DEF TxPage
  <2>2. s[2] \in 1..MaxLt
    BY <2>1, SubParts
  <2> QED BY <1>1, <2>1, <2>2
<1>5. top > toLt => lo \in 1..top
  BY <1>0 DEF PageEnd
<1>6. ASSUME top <= toLt PROVE page = {}
  <2>1. lo..top = {}
    BY <1>0, <1>6 DEF PageEnd
  <2> QED BY <1>4, <2>1
<1> QED BY <1>2, <1>3, <1>4, <1>5, <1>6

\* The newest of a page is where the request started; its oldest is its end.
LEMMA PageLimits ==
    ASSUME NEW f \in Factories, NEW top \in 0..MaxLt, NEW toLt \in 0..MaxLt,
           TxPage(f, top, toLt) # {}
    PROVE  /\ top > toLt
           /\ Newest(TxPage(f, top, toLt)) = top
           /\ OldestLt(TxPage(f, top, toLt)) = PageEnd(top, toLt)
           /\ PageEnd(top, toLt) \in 1..top
<1> DEFINE page == TxPage(f, top, toLt)
           lo   == PageEnd(top, toLt)
<1>1. top > toLt /\ lo \in 1..top /\ top \in 1..MaxLt /\ lo \in 1..MaxLt
  <2>1. ~(top <= toLt)
    BY PageParts
  <2>2. top > toLt
    BY <2>1, ConstantTypes
  <2>3. lo \in 1..top
    BY <2>2, PageParts
  <2> QED BY <2>2, <2>3, ConstantTypes
<1>2. \A r \in page : r[2] \in lo..top
  BY PageParts
<1>3. <<f, top>> \in page /\ <<f, lo>> \in page
  BY <1>1, PageParts, ConstantTypes
<1> HIDE DEF page, lo
<1>4. Newest(page) = top
  <2> DEFINE P(lt) == \E s \in page : s[2] = lt /\ \A r \in page : r[2] <= lt
  <2>1. P(top)
    <3>1. <<f, top>>[2] = top
      OBVIOUS
    <3> QED BY <1>1, <1>2, <1>3, <3>1
  <2>2. \A lt \in 1..MaxLt : P(lt) => lt = top
    <3> SUFFICES ASSUME NEW lt \in 1..MaxLt, P(lt) PROVE lt = top
      OBVIOUS
    <3>1. PICK s \in page : s[2] = lt /\ \A r \in page : r[2] <= lt
      OBVIOUS
    <3>2. top <= lt /\ lt <= top
      <4>1. <<f, top>>[2] = top
        OBVIOUS
      <4> QED BY <1>1, <1>2, <1>3, <3>1, <4>1
    <3> QED BY <3>2
  <2> HIDE DEF P
  <2>3. (CHOOSE lt \in 1..MaxLt : P(lt)) = top
    BY <1>1, <2>1, <2>2
  <2> QED BY <2>3 DEF Newest, P
<1>5. OldestLt(page) = lo
  <2> DEFINE P(lt) == \E s \in page : s[2] = lt /\ \A r \in page : r[2] >= lt
  <2>1. P(lo)
    <3>1. <<f, lo>>[2] = lo
      OBVIOUS
    <3> QED BY <1>1, <1>2, <1>3, <3>1
  <2>2. \A lt \in 1..MaxLt : P(lt) => lt = lo
    <3> SUFFICES ASSUME NEW lt \in 1..MaxLt, P(lt) PROVE lt = lo
      OBVIOUS
    <3>1. PICK s \in page : s[2] = lt /\ \A r \in page : r[2] >= lt
      OBVIOUS
    <3>2. lo >= lt /\ lt >= lo
      <4>1. <<f, lo>>[2] = lo
        OBVIOUS
      <4> QED BY <1>1, <1>2, <1>3, <3>1, <4>1
    <3> QED BY <1>1, <3>2
  <2> HIDE DEF P
  <2>3. (CHOOSE lt \in 1..MaxLt : P(lt)) = lo
    BY <1>1, <2>1, <2>2
  <2> QED BY <2>3 DEF OldestLt, P
<1> QED BY <1>1, <1>4, <1>5 DEF page, lo

\* A page that reaches PAGE back is full.
LEMMA FullPage ==
    ASSUME NEW f \in Factories, NEW top \in 0..MaxLt, top >= PAGE
    PROVE  Cardinality(TxPage(f, top, 0)) = PAGE
<1> DEFINE page == TxPage(f, top, 0)
           lo   == top + 1 - PAGE
           at   == [lt \in lo..top |-> <<f, lt>>]
<1>0. top \in Nat /\ top <= MaxLt /\ PAGE \in Nat /\ PAGE >= 2 /\ lo \in 1..top /\ 0 \in 0..MaxLt
  BY ConstantTypes
<1>1. PageEnd(top, 0) = lo
  BY <1>0 DEF PageEnd
<1>2. /\ \A lt \in lo..top : <<f, lt>> \in page
      /\ \A s \in page : s \in Sub /\ s[1] = f /\ s[2] \in lo..top
  <2>1. \A lt \in lo..top : lt \in 1..MaxLt
    BY <1>0, ConstantTypes
  <2> QED BY <1>0, <1>1, <2>1, PageParts
<1>3. at \in Injection(lo..top, page)
  <2>1. at \in [lo..top -> page]
    BY <1>2
  <2>2. \A a, b \in lo..top : at[a] = at[b] => a = b
    OBVIOUS
  <2> QED BY <2>1, <2>2 DEF Injection, IsInjective
<1>4. at \in Surjection(lo..top, page)
  <2>1. \A s \in page : \E lt \in lo..top : at[lt] = s
    <3> TAKE s \in page
    <3>1. s = <<f, s[2]>> /\ s[2] \in lo..top
      BY <1>2, SubParts
    <3> QED BY <3>1
  <2> QED BY <1>2, <2>1 DEF Surjection
<1>5. ExistsBijection(lo..top, page)
  BY <1>3, <1>4 DEF ExistsBijection, Bijection
<1>6. IsFiniteSet(lo..top) /\ Cardinality(lo..top) = PAGE
  <2>1. IsFiniteSet(lo..top) /\ Cardinality(lo..top) = IF lo > top THEN 0 ELSE top - lo + 1
    BY <1>0, FS_Interval
  <2> QED BY <1>0, <2>1
<1> QED BY <1>5, <1>6, FS_Bijection

\* A page that is not full reaches the beginning, and one that is full is not empty.
LEMMA PageSize ==
    ASSUME NEW f \in Factories, NEW top \in 0..MaxLt
    PROVE  /\ LastPage(TxPage(f, top, 0)) => Before(f, top) \subseteq TxPage(f, top, 0)
           /\ ~LastPage(TxPage(f, top, 0)) => TxPage(f, top, 0) # {}
<1> DEFINE page == TxPage(f, top, 0)
<1>0. 0 \in 0..MaxLt /\ top \in Nat /\ PAGE \in Nat /\ PAGE >= 2
  BY ConstantTypes
<1>1. ASSUME LastPage(page) PROVE Before(f, top) \subseteq page
  <2>1. ~(top >= PAGE)
    BY <1>0, <1>1, FullPage DEF LastPage
  <2>2. PageEnd(top, 0) = 1
    BY <1>0, <2>1 DEF PageEnd
  <2>3. ASSUME NEW s \in Before(f, top) PROVE s \in page
    <3>1. s \in Sub /\ s[1] = f /\ s[2] <= top
      BY DEF Before
    <3>2. s[2] \in 1..MaxLt /\ s = <<f, s[2]>> /\ s[2] \in 1..top
      BY <3>1, SubParts, ConstantTypes
    <3> QED BY <1>0, <2>2, <3>2, PageParts
  <2> QED BY <2>3
<1>2. page = {} => LastPage(page)
  BY <1>0, FS_EmptySet DEF LastPage
<1> QED BY <1>1, <1>2

-----------------------------------------------------------------------------
(* Cycles.                                                                 *)

LEMMA CycleParts ==
    ASSUME NEW k \in Cycle
    PROVE  /\ k.db \in Database /\ k.todo \subseteq Factories /\ k.current \in Factories
           /\ k.pageLt \in 0..MaxLt
  BY DEF Cycle

LEMMA IdleInv == Idle \in Cycle /\ CycleInv(Idle)
<1>1. EmptyDB \in Database /\ DbInv(EmptyDB, {})
  BY EmptyInv
<1>2. Idle \in Cycle
  BY <1>1, ConstantTypes DEF Idle, Cycle
<1>3. Idle.pc = "idle" /\ Idle.db = EmptyDB
  BY DEF Idle
<1> QED BY <1>1, <1>2, <1>3 DEF CycleInv

\* Seeding adds subscriptions and nothing else.
LEMMA SeedsInv ==
    ASSUME NEW k \in Cycle, k.pc # "paging", CycleInv(k)
    PROVE  /\ WithSeeds(k) \in Cycle /\ CycleInv(WithSeeds(k))
           /\ WithSeeds(k).pc = k.pc /\ WithSeeds(k).todo = k.todo
<1> DEFINE more == {<<f, 1>> : f \in Seeded}
           db   == [k.db EXCEPT !.subscriptions = @ \cup more]
<1>1. k.db \in Database /\ DbInv(k.db, {})
  BY CycleParts DEF CycleInv
<1>2. more \subseteq Sub
  BY ConstantTypes DEF Sub
<1>3. /\ db \in Database /\ db.factories = k.db.factories /\ db.legacy = k.db.legacy
      /\ k.db.subscriptions \subseteq db.subscriptions
  BY <1>1, <1>2 DEF Database
<1>4. DbInv(db, {})
  <2> HIDE DEF db
  <2> QED BY <1>1, <1>3 DEF DbInv, Complete, LegacyWhole, UnscannedAtZero
<1>5. WithSeeds(k) = [k EXCEPT !.db = db]
  BY DEF WithSeeds
<1> HIDE DEF db
<1>6. /\ WithSeeds(k) \in Cycle /\ WithSeeds(k).db = db
      /\ WithSeeds(k).pc = k.pc /\ WithSeeds(k).todo = k.todo
  BY <1>3, <1>5 DEF Cycle
<1> QED BY <1>4, <1>6 DEF CycleInv

\* A factory is done with: the cycle goes on with the next one.
LEMMA FinishedInv ==
    ASSUME NEW k \in Cycle, NEW f \in Factories, DbInv(k.db, {})
    PROVE  Finished(k, f) \in Cycle /\ CycleInv(Finished(k, f))
<1>1. Finished(k, f) \in Cycle
  <2>1. k.todo \ {f} \subseteq Factories /\ 0 \in 0..MaxLt /\ Fallback \in Factories
    BY CycleParts, ConstantTypes
  <2> DEFINE todo == k.todo \ {f}
  <2>2. Finished(k, f) = [k EXCEPT !.pc = "index", !.todo = todo, !.current = Fallback, !.pageLt = 0]
    BY DEF Finished
  <2> HIDE DEF todo
  <2> QED BY <2>1, <2>2 DEF Cycle, todo
<1>2. Finished(k, f).pc = "index" /\ Finished(k, f).db = k.db
  BY DEF Finished, Cycle
<1> QED BY <1>1, <1>2 DEF CycleInv

-----------------------------------------------------------------------------
(* A page of the first scan.                                               *)

\* What the code writes in two steps is one update.
LEMMA CollectedAs ==
    ASSUME NEW db \in Database, NEW f \in Factories, NEW st, NEW page
    PROVE  /\ [Collected(db, page) EXCEPT !.factories[f] = st] = Updated(db, f, st, page)
           /\ Collected(db, page).factories[f] = db.factories[f]
<1>1. Collected(db, page) = [factories |-> db.factories,
                             subscriptions |-> db.subscriptions \cup page, legacy |-> db.legacy]
  BY DEF Collected, Database
<1> DEFINE got == Collected(db, page)
<1>2. got = [factories |-> db.factories,
             subscriptions |-> db.subscriptions \cup page, legacy |-> db.legacy]
  BY <1>1
<1>3. [got EXCEPT !.factories[f] = st] = Updated(db, f, st, page)
  <2> HIDE DEF got
  <2> DEFINE all == [got.factories EXCEPT ![f] = st]
  <2>1. [got EXCEPT !.factories[f] = st] = [got EXCEPT !.factories = all]
    OBVIOUS
  <2>2. all = [db.factories EXCEPT ![f] = st]
    BY <1>2
  <2> HIDE DEF all
  <2>3. [got EXCEPT !.factories = all] =
          [factories |-> all, subscriptions |-> db.subscriptions \cup page, legacy |-> db.legacy]
    BY <1>2
  <2> QED BY <2>1, <2>2, <2>3 DEF Updated
<1>4. got.factories = db.factories
  BY <1>2
<1>5. got.factories[f] = db.factories[f]
  <2> HIDE DEF got
  <2> QED BY <1>4
<1> QED BY <1>3, <1>5

LEMMA AdvancedParts ==
    ASSUME NEW f \in Factories, NEW top \in 0..MaxLt, NEW toLt \in 0..MaxLt, NEW st \in ScanState
    PROVE  LET page == TxPage(f, top, toLt)
               new  == Advanced(st, page)
           IN  /\ new \in ScanState
               /\ new.initialScanDone = st.initialScanDone /\ new.gap = st.gap
               /\ new.lastLt >= st.lastLt
               /\ page # {} => new.lastLt >= top
               /\ new.lastLt = st.lastLt \/ (page # {} /\ new.lastLt = top)
<1> DEFINE page == TxPage(f, top, toLt)
           new  == Advanced(st, page)
<1>0. st.lastLt \in Nat /\ top \in Nat
  BY ScanParts, ConstantTypes
<1>1. CASE page # {} /\ Newest(page) > st.lastLt
  <2>1. Newest(page) = top
    BY <1>1, PageLimits
  <2>2. new = [st EXCEPT !.lastLt = top]
    BY <1>1, <2>1 DEF Advanced
  <2>3. top > st.lastLt
    BY <1>1, <2>1
  <2> HIDE DEF page, new
  <2>4. /\ new \in ScanState /\ new.lastLt = top
        /\ new.initialScanDone = st.initialScanDone /\ new.gap = st.gap
    BY <2>2 DEF ScanState
  <2>5. new.lastLt >= st.lastLt /\ new.lastLt >= top
    BY <1>0, <2>3, <2>4
  <2> QED BY <1>1, <2>4, <2>5 DEF page, new
<1>2. CASE page = {}
  <2>1. new = st
    BY <1>2 DEF Advanced
  <2> QED BY <1>0, <1>2, <2>1
<1>3. CASE page # {} /\ ~(Newest(page) > st.lastLt)
  <2>1. Newest(page) = top
    BY <1>3, PageLimits
  <2>2. st.lastLt >= top
    BY <1>0, <1>3, <2>1
  <2>3. new = st
    BY <1>3 DEF Advanced
  <2> HIDE DEF page, new
  <2> QED BY <1>0, <2>2, <2>3 DEF page, new
<1> QED BY <1>1, <1>2, <1>3

LEMMA PageArrivesInv ==
    ASSUME NEW k \in Cycle, NEW f \in Factories, NEW top \in 0..MaxLt,
           DbInv(k.db, {f}), ~k.db.factories[f].initialScanDone,
           \A s \in Before(f, k.db.factories[f].lastLt) : s[2] >= top => s \in k.db.subscriptions
    PROVE  /\ PageArrives(k, f, TxPage(f, top, 0)) \in Cycle
           /\ CycleInv(PageArrives(k, f, TxPage(f, top, 0)))
<1> DEFINE page == TxPage(f, top, 0)
           st   == k.db.factories[f]
           new  == Advanced(st, page)
           db   == [Collected(k.db, page) EXCEPT !.factories[f] = Advanced(@, page)]
<1>0. /\ k.db \in Database /\ st \in ScanState /\ st.lastLt \in Nat /\ top \in Nat /\ 0 \in 0..MaxLt
      /\ page \in SUBSET Sub
  BY CycleParts, DatabaseParts, ScanParts, PageParts, ConstantTypes
<1>1. /\ new \in ScanState /\ new.initialScanDone = st.initialScanDone /\ new.gap = st.gap
      /\ new.lastLt >= st.lastLt /\ (page # {} => new.lastLt >= top)
      /\ new.lastLt = st.lastLt \/ (page # {} /\ new.lastLt = top)
      /\ new.lastLt \in Nat /\ ~new.initialScanDone
  <2>1. /\ new \in ScanState /\ new.initialScanDone = st.initialScanDone /\ new.gap = st.gap
        /\ new.lastLt >= st.lastLt /\ (page # {} => new.lastLt >= top)
        /\ new.lastLt = st.lastLt \/ (page # {} /\ new.lastLt = top)
    BY <1>0, AdvancedParts
  <2> QED BY <2>1, ScanParts
<1>2. db = Updated(k.db, f, new, page)
  BY <1>0, CollectedAs
\* Above the page everything was there already.
<1>3. \A s \in Before(f, new.lastLt) : s[2] > top => s \in k.db.subscriptions
  <2> SUFFICES ASSUME NEW s \in Before(f, new.lastLt), s[2] > top
               PROVE  s \in k.db.subscriptions
    OBVIOUS
  <2>1. s \in Sub /\ s[1] = f /\ s[2] <= new.lastLt /\ s[2] \in Nat
    BY SubParts DEF Before
  <2>2. new.lastLt = st.lastLt
    BY <1>0, <1>1, <2>1
  <2>3. s \in Before(f, st.lastLt)
    BY <2>1, <2>2 DEF Before
  <2> QED BY <1>0, <2>1, <2>3
<1> HIDE DEF new, db
<1>4. CASE LastPage(page)
  <2> DEFINE done == [new EXCEPT !.initialScanDone = TRUE]
             last == [db EXCEPT !.factories[f].initialScanDone = TRUE]
  <2>1. done \in ScanState /\ done.lastLt = new.lastLt /\ done.initialScanDone
    BY <1>1 DEF ScanState
  <2>2. last = Updated(k.db, f, done, page)
    <3>1. k.db.factories \in [Factories -> ScanState]
      BY <1>0, DatabaseParts
    <3>2. last = [db EXCEPT !.factories = [db.factories EXCEPT ![f] = [db.factories[f] EXCEPT !.initialScanDone = TRUE]]]
      OBVIOUS
    <3>3. /\ db.factories = [k.db.factories EXCEPT ![f] = new]
          /\ db.factories[f] = new
      BY <1>2, <3>1 DEF Updated
    <3>4. [db.factories EXCEPT ![f] = done] = [k.db.factories EXCEPT ![f] = done]
      BY <3>1, <3>3
    <3> HIDE DEF done
    <3>5. last = [db EXCEPT !.factories = [k.db.factories EXCEPT ![f] = done]]
      BY <3>2, <3>3, <3>4 DEF done
    <3> QED BY <1>2, <3>5 DEF Updated
  <2>3. Before(f, done.lastLt) \subseteq k.db.subscriptions \cup page
    <3> SUFFICES ASSUME NEW s \in Before(f, new.lastLt)
                 PROVE  s \in k.db.subscriptions \cup page
      BY <2>1
    <3>1. s \in Sub /\ s[1] = f /\ s[2] \in Nat
      BY SubParts DEF Before
    <3>2. CASE s[2] > top
      BY <1>3, <3>2
    <3>3. CASE s[2] <= top
      <4>1. s \in Before(f, top)
        BY <3>1, <3>3 DEF Before
      <4> QED BY <1>4, <4>1, PageSize
    <3> QED BY <1>0, <3>1, <3>2, <3>3
  <2> HIDE DEF done, last
  <2>4. last \in Database
    BY <1>0, <2>1, <2>2, UpdatedParts
  <2>5. DbInv(last, {})
    BY <1>0, <2>1, <2>2, <2>3, UpdatedInv
  <2>6. [k EXCEPT !.db = last] \in Cycle /\ [k EXCEPT !.db = last].db = last
    BY <2>4 DEF Cycle
  <2>7. PageArrives(k, f, page) = Finished([k EXCEPT !.db = last], f)
    BY <1>4 DEF PageArrives, db, last
  <2> DEFINE m == [k EXCEPT !.db = last]
  <2> HIDE DEF m
  <2>8. Finished(m, f) \in Cycle /\ CycleInv(Finished(m, f))
    BY <2>5, <2>6, FinishedInv DEF m
  <2> QED BY <2>7, <2>8 DEF m
<1>5. CASE ~LastPage(page)
  <2> DEFINE next == [k EXCEPT !.pc = "paging", !.current = f, !.db = db, !.pageLt = OldestLt(page)]
  <2>1. page # {}
    BY <1>5, PageSize
  <2>2. OldestLt(page) = PageEnd(top, 0) /\ PageEnd(top, 0) \in 1..top
    BY <1>0, <2>1, PageLimits
  <2>3. db \in Database
    BY <1>0, <1>1, <1>2, UpdatedParts
  <2>4. DbInv(db, {f})
    <3>1. f \in {f}
      OBVIOUS
    <3> QED BY <1>0, <1>1, <1>2, <3>1, UpdatedInv
  <2>5. OldestLt(page) \in 0..MaxLt
    BY <2>2, ConstantTypes
  <2>6. PageArrives(k, f, page) = next
    BY <1>5 DEF PageArrives, db
  <2>7. next \in Cycle /\ next.pc = "paging" /\ next.current = f /\ next.db = db
        /\ next.pageLt = OldestLt(page)
    BY <2>3, <2>5 DEF Cycle
  <2> HIDE DEF next
  <2>8. db.factories[f] = new /\ db.subscriptions = k.db.subscriptions \cup page
    BY <1>0, <1>1, <1>2, UpdatedParts
  <2>9. \A s \in Before(f, new.lastLt) : s[2] >= OldestLt(page) => s \in db.subscriptions
    <3> SUFFICES ASSUME NEW s \in Before(f, new.lastLt), s[2] >= OldestLt(page)
                 PROVE  s \in k.db.subscriptions \cup page
      BY <2>8
    <3>1. s \in Sub /\ s[1] = f /\ s[2] \in 1..MaxLt /\ s = <<f, s[2]>>
      BY SubParts DEF Before
    <3>2. CASE s[2] > top
      BY <1>3, <3>2
    <3>3. CASE s[2] <= top
      <4>1. s[2] \in PageEnd(top, 0)..top
        BY <1>0, <2>2, <3>1, <3>3, ConstantTypes
      <4> QED BY <1>0, <3>1, <4>1, PageParts
    <3> QED BY <1>0, <3>1, <3>2, <3>3, ConstantTypes
  <2>10. OldestLt(page) <= new.lastLt
    BY <1>0, <1>1, <2>1, <2>2
  <2>11. PagingInv(next)
    BY <1>1, <2>7, <2>8, <2>9, <2>10 DEF PagingInv
  <2> QED BY <2>4, <2>6, <2>7, <2>11 DEF CycleInv
<1> QED BY <1>4, <1>5

-----------------------------------------------------------------------------
(* What else may come of a factory.                                        *)

LEMMA LooserDb ==
    ASSUME NEW db, NEW fs, DbInv(db, {})
    PROVE  DbInv(db, fs)
  BY DEF DbInv, UnscannedAtZero

\* The scan state of a cycle's copy is replaced.
LEMMA CycleUpdated ==
    ASSUME NEW k \in Cycle, NEW f \in Factories, NEW st \in ScanState
    PROVE  LET next == [k EXCEPT !.db.factories[f] = st] IN
           next \in Cycle /\ next.db = Updated(k.db, f, st, {})
<1> DEFINE next == [k EXCEPT !.db.factories[f] = st]
           all  == [k.db.factories EXCEPT ![f] = st]
           db   == [k.db EXCEPT !.factories = all]
<1>0. k.db \in Database
  BY CycleParts
<1>1. db = [factories |-> all, subscriptions |-> k.db.subscriptions, legacy |-> k.db.legacy]
  <2> HIDE DEF all
  <2> QED BY <1>0 DEF Database
<1>2. db = Updated(k.db, f, st, {})
  BY <1>1 DEF Updated
<1>3. next = [k EXCEPT !.db = db]
  OBVIOUS
<1>4. db \in Database
  BY <1>0, <1>2, UpdatedParts
<1> HIDE DEF db
<1>5. next \in Cycle /\ next.db = db
  BY <1>3, <1>4 DEF Cycle
<1> QED BY <1>2, <1>5

\* A first scan that breaks off is marked as such.
LEMMA BrokenOffInv ==
    ASSUME NEW k \in Cycle, NEW f \in Factories, DbInv(k.db, {f})
    PROVE  BrokenOff(k, f) \in Cycle /\ CycleInv(BrokenOff(k, f))
<1> DEFINE st   == [k.db.factories[f] EXCEPT !.initialScanDone = TRUE, !.gap = TRUE]
           next == [k EXCEPT !.db.factories[f] = st]
<1>0. k.db \in Database /\ k.db.factories[f] \in ScanState
  BY CycleParts, DatabaseParts
<1>1. st \in ScanState /\ st.gap /\ st.initialScanDone
  BY <1>0 DEF ScanState
<1>2. BrokenOff(k, f) = Finished(next, f)
  BY DEF BrokenOff
<1> HIDE DEF st
<1>3. next \in Cycle /\ next.db = Updated(k.db, f, st, {})
  BY <1>1, CycleUpdated
<1>4. DbInv(Updated(k.db, f, st, {}), {})
  BY <1>0, <1>1, UpdatedInv
<1> HIDE DEF next
<1> QED BY <1>2, <1>3, <1>4, FinishedInv

\* A page of what is newer than the cursor leaves out nothing, or a gap is
\* noted.
LEMMA IncrementalInv ==
    ASSUME NEW k \in Cycle, NEW f \in Factories, NEW top \in 0..MaxLt, DbInv(k.db, {}),
           k.db.factories[f].initialScanDone
    PROVE  LET st   == k.db.factories[f]
               page == TxPage(f, top, st.lastLt)
               new  == [Advanced(st, page) EXCEPT !.gap = @ \/ top > st.lastLt + PAGE]
               next == Finished([k EXCEPT !.db = [Collected(k.db, page) EXCEPT !.factories[f] = new]], f)
           IN  next \in Cycle /\ CycleInv(next)
<1> DEFINE st   == k.db.factories[f]
           page == TxPage(f, top, st.lastLt)
           adv  == Advanced(st, page)
           new  == [adv EXCEPT !.gap = @ \/ top > st.lastLt + PAGE]
           db   == [Collected(k.db, page) EXCEPT !.factories[f] = new]
           m    == [k EXCEPT !.db = db]
<1>0. /\ k.db \in Database /\ st \in ScanState /\ st.lastLt \in 0..MaxLt /\ st.lastLt \in Nat
      /\ top \in Nat /\ page \in SUBSET Sub /\ PAGE \in Nat /\ PAGE >= 2
  <2>1. k.db \in Database /\ st \in ScanState
    BY CycleParts, DatabaseParts
  <2>2. st.lastLt \in 0..MaxLt
    BY <2>1 DEF ScanState
  <2> HIDE DEF st
  <2> QED BY <2>1, <2>2, PageParts, ConstantTypes
<1>1. /\ adv \in ScanState /\ adv.initialScanDone = st.initialScanDone /\ adv.gap = st.gap
      /\ adv.lastLt = st.lastLt \/ (page # {} /\ adv.lastLt = top)
  <2> HIDE DEF st
  <2> QED BY <1>0, AdvancedParts
<1>2. /\ new \in ScanState /\ new.initialScanDone /\ new.lastLt = adv.lastLt
      /\ ~new.gap => ~st.gap /\ ~(top > st.lastLt + PAGE)
  <2> DEFINE burst == top > st.lastLt + PAGE
  <2>1. new = [adv EXCEPT !.gap = @ \/ burst] /\ burst \in BOOLEAN
    OBVIOUS
  <2> HIDE DEF adv, burst, st
  <2>2. new \in ScanState /\ new.lastLt = adv.lastLt /\ new.initialScanDone = adv.initialScanDone
        /\ new.gap = (adv.gap \/ burst)
    BY <1>1, <2>1 DEF ScanState
  <2> QED BY <1>1, <2>2 DEF burst, st
<1>3. Before(f, st.lastLt) \subseteq k.db.subscriptions \/ st.gap
  BY DEF DbInv, Complete
<1> HIDE DEF adv, new
<1>4. ~new.gap => Before(f, new.lastLt) \subseteq k.db.subscriptions \cup page
  <2> SUFFICES ASSUME ~new.gap, NEW s \in Before(f, new.lastLt)
               PROVE  s \in k.db.subscriptions \cup page
    OBVIOUS
  <2>1. s \in Sub /\ s[1] = f /\ s[2] \in 1..MaxLt /\ s[2] \in Nat /\ s = <<f, s[2]>>
        /\ s[2] <= new.lastLt
    BY SubParts DEF Before
  <2>2. CASE s[2] <= st.lastLt
    <3>1. s \in Before(f, st.lastLt)
      BY <2>1, <2>2 DEF Before
    <3> QED BY <1>2, <1>3, <3>1
  <2>3. CASE ~(s[2] <= st.lastLt)
    <3>1. new.lastLt = top
      BY <1>1, <1>2, <2>1, <2>3
    <3>2. s[2] \in PageEnd(top, st.lastLt)..top
      BY <1>0, <1>2, <2>1, <2>3, <3>1 DEF PageEnd
    <3> QED BY <1>0, <2>1, <3>2, PageParts
  <2> QED BY <2>2, <2>3
<1>5. db = Updated(k.db, f, new, page)
  BY <1>0, CollectedAs
<1> HIDE DEF db, page, st
<1>6. db \in Database /\ DbInv(db, {})
  <2>1. DbInv(k.db, {f})
    BY LooserDb
  <2> QED BY <1>0, <1>2, <1>4, <1>5, <2>1, UpdatedParts, UpdatedInv
<1>7. m \in Cycle /\ m.db = db
  BY <1>6 DEF Cycle
<1> HIDE DEF m
<1>8. Finished(m, f) \in Cycle /\ CycleInv(Finished(m, f))
  BY <1>6, <1>7, FinishedInv
<1> QED BY <1>8 DEF m, db, new, adv, page, st

-----------------------------------------------------------------------------
(* The steps.                                                              *)

\* One cycle goes on, the others stay.
LEMMA OneCycleMoves ==
    ASSUME IndexInv, NEW c \in Cycles, NEW next \in Cycle, CycleInv(next),
           cycle' = [cycle EXCEPT ![c] = next]
    PROVE  cycle' \in [Cycles -> Cycle] /\ \A d \in Cycles : CycleInv(cycle'[d])
<1>1. cycle \in [Cycles -> Cycle] /\ \A d \in Cycles : CycleInv(cycle[d])
  BY DEF IndexInv, TypeOK
<1>2. cycle' \in [Cycles -> Cycle]
  BY <1>1
<1>3. ASSUME NEW d \in Cycles PROVE CycleInv(cycle'[d])
  <2>1. CASE d = c
    BY <1>1, <2>1
  <2>2. CASE d # c
    BY <1>1, <2>2
  <2> QED BY <2>1, <2>2
<1> QED BY <1>2, <1>3

LEMMA FaultTypes == IndexInv /\ Fault => faults' \in 0..MaxFaults
  BY ConstantTypes DEF IndexInv, TypeOK, Fault

\* A cycle that only moves on and stays out of a first scan.
LEMMA MovedOn ==
    ASSUME NEW k \in Cycle, k.pc # "paging", CycleInv(k), NEW pc \in {"index", "charge"},
           NEW todo \in SUBSET Factories
    PROVE  /\ [k EXCEPT !.pc = pc] \in Cycle /\ CycleInv([k EXCEPT !.pc = pc])
           /\ [k EXCEPT !.pc = pc, !.todo = todo] \in Cycle
           /\ CycleInv([k EXCEPT !.pc = pc, !.todo = todo])
<1>1. /\ [k EXCEPT !.pc = pc] \in Cycle
      /\ [k EXCEPT !.pc = pc].pc = pc /\ [k EXCEPT !.pc = pc].db = k.db
  BY DEF Cycle
<1>2. /\ [k EXCEPT !.pc = pc, !.todo = todo] \in Cycle
      /\ [k EXCEPT !.pc = pc, !.todo = todo].pc = pc
      /\ [k EXCEPT !.pc = pc, !.todo = todo].db = k.db
  BY DEF Cycle
<1>3. pc # "paging"
  OBVIOUS
<1> QED BY <1>1, <1>2, <1>3 DEF CycleInv

LEMMA StartInv ==
    ASSUME IndexInv, NEW c \in Cycles, Start(c)
    PROVE  IndexInv'
<1> DEFINE db   == Migrated(disk)
           next == [Idle EXCEPT !.pc = "factories", !.db = db]
<1>1. db \in Database /\ DbInv(db, {})
  BY MigratedInv DEF IndexInv, TypeOK
<1>2. cycle' = [cycle EXCEPT ![c] = next] /\ UNCHANGED <<txs, disk, polling, faults>>
  BY DEF Start
<1> HIDE DEF db
<1>3. next \in Cycle /\ next.pc = "factories" /\ next.db = db
  BY <1>1, IdleInv DEF Cycle
<1>4. CycleInv(next)
  BY <1>1, <1>3 DEF CycleInv
<1> HIDE DEF next
<1>5. cycle' \in [Cycles -> Cycle] /\ \A d \in Cycles : CycleInv(cycle'[d])
  BY <1>2, <1>3, <1>4, OneCycleMoves
<1> QED BY <1>2, <1>5 DEF IndexInv, TypeOK

LEMMA FetchInv ==
    ASSUME IndexInv, NEW c \in Cycles, FetchFactories(c)
    PROVE  IndexInv'
<1> DEFINE k == cycle[c]
           asked(todo) == [k EXCEPT !.pc = "index", !.todo = todo]
<1>1. k \in Cycle /\ k.pc = "factories" /\ CycleInv(k) /\ DbInv(k.db, {}) /\ k.db \in Database
  BY CycleParts DEF IndexInv, TypeOK, FetchFactories, CycleInv
<1>2. ASSUME NEW todo \in SUBSET Factories
      PROVE  asked(todo) \in Cycle /\ CycleInv(asked(todo))
  BY <1>1, MovedOn
<1>3. CASE /\ cycle' = [cycle EXCEPT ![c].pc = "index", ![c].todo = Listed]
           /\ UNCHANGED <<txs, disk, polling, faults>>
  <2>1. Listed \in SUBSET Factories
    BY DEF Listed
  <2>2. cycle' = [cycle EXCEPT ![c] = asked(Listed)]
    BY <1>3 DEF IndexInv, TypeOK
  <2> HIDE DEF asked
  <2>3. cycle' \in [Cycles -> Cycle] /\ \A d \in Cycles : CycleInv(cycle'[d])
    BY <1>2, <2>1, <2>2, OneCycleMoves
  <2> QED BY <1>3, <2>3 DEF IndexInv, TypeOK
<1>4. CASE /\ cycle' = [cycle EXCEPT ![c].pc = "index", ![c].todo = {Fallback}]
           /\ Fault /\ UNCHANGED <<txs, disk, polling>>
  <2>1. {Fallback} \in SUBSET Factories
    BY ConstantTypes
  <2>2. cycle' = [cycle EXCEPT ![c] = asked({Fallback})]
    BY <1>4 DEF IndexInv, TypeOK
  <2> HIDE DEF asked
  <2>3. cycle' \in [Cycles -> Cycle] /\ \A d \in Cycles : CycleInv(cycle'[d])
    BY <1>2, <2>1, <2>2, OneCycleMoves
  <2> QED BY <1>4, <2>3, FaultTypes DEF IndexInv, TypeOK
<1>5. CASE /\ cycle' = [cycle EXCEPT ![c] = Idle]
           /\ Fault /\ SaveDB(c) /\ polling' = TRUE /\ UNCHANGED txs
  <2>1. cycle' \in [Cycles -> Cycle] /\ \A d \in Cycles : CycleInv(cycle'[d])
    BY <1>5, IdleInv, OneCycleMoves
  <2>2. disk' = k.db
    BY <1>5 DEF SaveDB
  <2> QED BY <1>1, <1>5, <2>1, <2>2, FaultTypes DEF IndexInv, TypeOK
<1> QED BY <1>3, <1>4, <1>5 DEF FetchFactories

LEMMA FirstPageInv ==
    ASSUME IndexInv, NEW c \in Cycles, NEW f \in Factories, FirstPage(c, f)
    PROVE  IndexInv'
<1> DEFINE k == WithSeeds(cycle[c])
<1>1. cycle[c] \in Cycle /\ CycleInv(cycle[c]) /\ txs[f] \in 0..MaxLt
  BY DEF IndexInv, TypeOK
<1>2. k.pc = "index" /\ ~k.db.factories[f].initialScanDone /\ UNCHANGED <<txs, disk, polling>>
  BY DEF FirstPage
<1>3. cycle[c].pc = "index"
  BY <1>1, <1>2 DEF WithSeeds, Cycle
<1>4. k \in Cycle /\ CycleInv(k)
  BY <1>1, <1>3, SeedsInv
<1>5. \/ /\ cycle' = [cycle EXCEPT ![c] = PageArrives(k, f, TxPage(f, txs[f], 0))]
         /\ UNCHANGED faults
      \/ cycle' = [cycle EXCEPT ![c] = BrokenOff(k, f)] /\ Fault
  BY DEF FirstPage
<1> HIDE DEF k
<1>6. DbInv(k.db, {}) /\ DbInv(k.db, {f})
  BY <1>2, <1>4, LooserDb DEF CycleInv
<1>7. k.db.factories[f].lastLt = 0
  BY <1>2, <1>6 DEF DbInv, UnscannedAtZero
<1>8. \A s \in Before(f, k.db.factories[f].lastLt) : FALSE
  BY <1>7, SubParts DEF Before
<1>9. PageArrives(k, f, TxPage(f, txs[f], 0)) \in Cycle
      /\ CycleInv(PageArrives(k, f, TxPage(f, txs[f], 0)))
  BY <1>1, <1>2, <1>4, <1>6, <1>8, PageArrivesInv
<1>10. BrokenOff(k, f) \in Cycle /\ CycleInv(BrokenOff(k, f))
  BY <1>4, <1>6, BrokenOffInv
<1>11. cycle' \in [Cycles -> Cycle] /\ \A d \in Cycles : CycleInv(cycle'[d])
  BY <1>5, <1>9, <1>10, OneCycleMoves
<1>12. faults' \in 0..MaxFaults
  BY <1>5, FaultTypes DEF IndexInv, TypeOK
<1> QED BY <1>2, <1>11, <1>12 DEF IndexInv, TypeOK

LEMMA NextPageInv ==
    ASSUME IndexInv, NEW c \in Cycles, NextPage(c)
    PROVE  IndexInv'
<1> DEFINE k == cycle[c]
           f == k.current
<1>1. /\ k \in Cycle /\ CycleInv(k) /\ k.pc = "paging" /\ UNCHANGED <<txs, disk, polling>>
      /\ f \in Factories /\ k.pageLt \in 0..MaxLt
  BY CycleParts DEF IndexInv, TypeOK, NextPage
<1>2. \/ /\ cycle' = [cycle EXCEPT ![c] = PageArrives(k, f, TxPage(f, k.pageLt, 0))]
         /\ UNCHANGED faults
      \/ cycle' = [cycle EXCEPT ![c] = BrokenOff(k, f)] /\ Fault
  BY DEF NextPage
<1>3. DbInv(k.db, {f}) /\ PagingInv(k)
  BY <1>1 DEF CycleInv
<1> HIDE DEF k
<1>4. PageArrives(k, f, TxPage(f, k.pageLt, 0)) \in Cycle
      /\ CycleInv(PageArrives(k, f, TxPage(f, k.pageLt, 0)))
  BY <1>1, <1>3, PageArrivesInv DEF PagingInv
<1>5. BrokenOff(k, f) \in Cycle /\ CycleInv(BrokenOff(k, f))
  BY <1>1, <1>3, BrokenOffInv
<1> HIDE DEF f
<1>6. cycle' \in [Cycles -> Cycle] /\ \A d \in Cycles : CycleInv(cycle'[d])
  BY <1>2, <1>4, <1>5, OneCycleMoves
<1>7. faults' \in 0..MaxFaults
  BY <1>2, FaultTypes DEF IndexInv, TypeOK
<1> QED BY <1>1, <1>6, <1>7 DEF IndexInv, TypeOK

LEMMA IncrementalStepInv ==
    ASSUME IndexInv, NEW c \in Cycles, NEW f \in Factories, Incremental(c, f)
    PROVE  IndexInv'
<1> DEFINE k    == WithSeeds(cycle[c])
           st   == k.db.factories[f]
           page == TxPage(f, txs[f], st.lastLt)
           new  == [Advanced(st, page) EXCEPT !.gap = @ \/ txs[f] > st.lastLt + PAGE]
           next == Finished([k EXCEPT !.db = [Collected(k.db, page) EXCEPT !.factories[f] = new]], f)
<1>1. cycle[c] \in Cycle /\ CycleInv(cycle[c]) /\ txs[f] \in 0..MaxLt
  BY DEF IndexInv, TypeOK
<1>2. k.pc = "index" /\ st.initialScanDone /\ UNCHANGED <<txs, disk, polling>>
  BY DEF Incremental
<1>3. cycle[c].pc = "index"
  BY <1>1, <1>2 DEF WithSeeds, Cycle
<1>4. k \in Cycle /\ CycleInv(k)
  BY <1>1, <1>3, SeedsInv
<1>5. \/ cycle' = [cycle EXCEPT ![c] = next] /\ UNCHANGED faults
      \/ cycle' = [cycle EXCEPT ![c] = Finished(k, f)] /\ Fault
  BY DEF Incremental
<1>6. DbInv(k.db, {})
  BY <1>2, <1>4 DEF CycleInv
<1>7. next \in Cycle /\ CycleInv(next)
  <2> HIDE DEF k
  <2> QED BY <1>1, <1>2, <1>4, <1>6, IncrementalInv
<1>8. Finished(k, f) \in Cycle /\ CycleInv(Finished(k, f))
  BY <1>4, <1>6, FinishedInv
<1> HIDE DEF k, next
<1>9. cycle' \in [Cycles -> Cycle] /\ \A d \in Cycles : CycleInv(cycle'[d])
  BY <1>5, <1>7, <1>8, OneCycleMoves
<1>10. faults' \in 0..MaxFaults
  BY <1>5, FaultTypes DEF IndexInv, TypeOK
<1> QED BY <1>2, <1>9, <1>10 DEF IndexInv, TypeOK

LEMMA SavedInv ==
    ASSUME IndexInv, NEW c \in Cycles, Indexed(c) \/ Charged(c)
    PROVE  IndexInv'
<1> DEFINE k == cycle[c]
<1>1. /\ k \in Cycle /\ CycleInv(k) /\ k.pc # "paging" /\ disk' = k.db
      /\ UNCHANGED <<txs, faults>> /\ polling' \in BOOLEAN
  BY DEF IndexInv, TypeOK, Indexed, Charged, SaveDB
<1>2. k.db \in Database /\ DbInv(k.db, {})
  BY <1>1, CycleParts DEF CycleInv
<1>3. cycle' \in [Cycles -> Cycle] /\ \A d \in Cycles : CycleInv(cycle'[d])
  <2>1. CASE Indexed(c)
    <3>1. cycle' = [cycle EXCEPT ![c] = [k EXCEPT !.pc = "charge"]]
      BY <2>1 DEF Indexed
    <3>2. [k EXCEPT !.pc = "charge"] \in Cycle /\ CycleInv([k EXCEPT !.pc = "charge"])
      <4>1. "charge" \in {"index", "charge"}
        OBVIOUS
      <4> QED BY <1>1, <4>1, MovedOn
    <3> QED BY <3>1, <3>2, OneCycleMoves
  <2>2. CASE Charged(c)
    <3>1. cycle' = [cycle EXCEPT ![c] = Idle]
      BY <2>2 DEF Charged
    <3> QED BY <3>1, IdleInv, OneCycleMoves
  <2> QED BY <2>1, <2>2
<1> HIDE DEF k
<1> QED BY <1>1, <1>2, <1>3 DEF IndexInv, TypeOK

LEMMA CrashInv == ASSUME IndexInv, Crash PROVE IndexInv'
<1>1. /\ cycle' = [c \in Cycles |-> Idle] /\ polling' = FALSE /\ UNCHANGED <<txs, disk>>
      /\ faults' \in 0..MaxFaults
  BY FaultTypes DEF Crash
<1> QED BY <1>1, IdleInv DEF IndexInv, TypeOK

LEMMA SubscribeInv ==
    ASSUME IndexInv, NEW f \in Factories, Subscribe(f)
    PROVE  IndexInv'
<1>1. txs[f] + 1 \in 0..MaxLt
  BY ConstantTypes DEF IndexInv, TypeOK, Subscribe, HistoryBound
<1>2. txs' \in [Factories -> 0..MaxLt]
  BY <1>1 DEF IndexInv, TypeOK, Subscribe
<1> QED BY <1>2 DEF IndexInv, TypeOK, Subscribe

LEMMA InitInv == Init => IndexInv
<1> SUFFICES ASSUME Init PROVE IndexInv
  OBVIOUS
<1>1. txs \in [Factories -> 0..MaxLt] /\ txs[Fallback] \in 0..MaxLt
  BY ConstantTypes DEF Init
<1>2. disk \in Database /\ DbInv(disk, {})
  BY <1>1, EmptyInv, LegacyInv DEF Init
<1>3. cycle \in [Cycles -> Cycle] /\ \A c \in Cycles : CycleInv(cycle[c])
  BY IdleInv DEF Init
<1>4. polling \in BOOLEAN /\ faults \in 0..MaxFaults
  <2>1. polling = FALSE /\ faults = 0
    BY DEF Init
  <2>2. 0 \in 0..MaxFaults
    BY ConstantTypes
  <2> QED BY <2>1, <2>2
<1> QED BY <1>1, <1>2, <1>3, <1>4 DEF IndexInv, TypeOK

LEMMA StepInv == IndexInv /\ [Next]_vars => IndexInv'
<1> SUFFICES ASSUME IndexInv, [Next]_vars PROVE IndexInv'
  OBVIOUS
<1>1. CASE \E c \in Cycles : Start(c)
  BY <1>1, StartInv
<1>2. CASE \E c \in Cycles : Step(c)
  BY <1>2, FetchInv, NextPageInv, SavedInv, FirstPageInv, IncrementalStepInv DEF Step
<1>3. CASE \E f \in Factories : Subscribe(f)
  BY <1>3, SubscribeInv
<1>4. CASE Crash
  BY <1>4, CrashInv
<1>5. CASE UNCHANGED vars
  BY <1>5 DEF vars, IndexInv, TypeOK
<1> QED BY <1>1, <1>2, <1>3, <1>4, <1>5 DEF Next

LEMMA AlwaysInv == Spec => []IndexInv
<1> QED BY InitInv, StepInv, PTL DEF Spec

-----------------------------------------------------------------------------
(* Theorems.                                                               *)

\* What lies below the cursor of a factory is in the database file and in
\* every copy of it, for any number of factories and of overlapping cycles,
\* any page size of at least two and any history (indexNewSubscriptions,
\* loadDB, pollCycle).
THEOREM CursorMissesNothing == Spec => []NothingBelowCursorMissed
<1>1. IndexInv => NothingBelowCursorMissed
  <2> SUFFICES ASSUME IndexInv PROVE NothingBelowCursorMissed
    OBVIOUS
  <2>1. Complete(disk)
    BY DEF IndexInv, DbInv
  <2>2. \A c \in Cycles : Complete(cycle[c].db)
    BY DEF IndexInv, CycleInv, DbInv
  <2> QED BY <2>1, <2>2 DEF NothingBelowCursorMissed
<1> QED BY <1>1, AlwaysInv, PTL

\* Cursors, copies of the database and the cycles stay of their types.
THEOREM IndexTypes == Spec => []TypeOK
<1>1. IndexInv => TypeOK
  BY DEF IndexInv
<1> QED BY <1>1, AlwaysInv, PTL
=============================================================================
