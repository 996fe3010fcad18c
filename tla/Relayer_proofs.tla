--------------------------- MODULE Relayer_proofs ---------------------------
(***************************************************************************)
(* What holds of Relayer for every value of its constants: the types, that *)
(* the receiver's log is true, and, as long as cycles do not overlap, that *)
(* a charge is logged before it leaves and a seqno is told of once.        *)
(***************************************************************************)
EXTENDS Relayer, TLAPS

\* Inside tryCharge, after the seqno is read.
UnderWay(k) == k.pc \in {"intent", "waiting", "report"}

\* What a cycle has in hand is a known subscription, and what it has read of
\* its seqno is not ahead of the chain ch.
CycleInv(k, ch) ==
    /\ k.pc \in {"recheck", "read"} => k.sub \in Subs
    /\ UnderWay(k) => k.sub \in Subs /\ k.seqno <= ch[k.sub].seqno
    /\ k.pc = "report" => k.seqno < k.to /\ k.to <= ch[k.sub].seqno

\* A cycle that runs alone finds its intent in the log file wd, and nothing in
\* the receiver's log lg that is newer than the seqno it has read.
AloneInv(k, wd, lg) ==
    /\ k.pc = "intent" => wd[k.sub] # NoEntry /\ wd[k.sub].seqno = k.seqno
    /\ UnderWay(k) => \A l \in lg : l.sub = k.sub => l.to <= k.seqno

\* Without a secret, only a test may have posted a line that is not true.
TrueLine(l, ch) ==
    \/ l.sub = NoSub /\ ~HasSecret
    \/ l.sub \in Subs /\ l.from < l.to /\ l.to <= ch[l.sub].seqno

Alone == \A c, d \in Cycles : Busy(c) /\ Busy(d) => c = d

RelayerInv ==
    /\ TypeOK
    /\ \A c \in Cycles : CycleInv(cycle[c], chain)
    /\ \A l \in log : TrueLine(l, chain)
    /\ overlapped \/ (Alone /\ \A c \in Cycles : AloneInv(cycle[c], walDisk, log))

\* The part of TypeOK that is about neither the chain nor the cycles.
FilesTyped ==
    /\ net \subseteq [sub : Subs, seqno : Seqno]
    /\ walDisk \in Wal /\ dbDisk \subseteq Subs
    /\ polling \in BOOLEAN
    /\ log \subseteq ChargeEvent
    /\ faults \in 0..MaxFaults

LEMMA ConstantTypes ==
    /\ NoSub \notin Subs /\ HasSecret \in BOOLEAN
    /\ MaxSeqno \in Nat /\ MaxSeqno >= 1 /\ MaxFaults \in Nat
    /\ 0 \in Seqno /\ 1 \in Seqno /\ \A n \in Seqno : n \in Nat
  BY RelayerConstants DEF Seqno

-----------------------------------------------------------------------------
(* Cycles and their logs.                                                  *)

LEMMA CycleParts ==
    ASSUME NEW k \in Cycle
    PROVE  /\ k.wal \in Wal /\ k.backedOff \subseteq Subs /\ k.todo \subseteq Subs
           /\ k.sub \in Subs \cup {NoSub} /\ k.replaying \in BOOLEAN
           /\ k.entry \in Seqno /\ k.seqno \in Seqno /\ k.to \in Seqno
  BY DEF Cycle

LEMMA WalParts ==
    ASSUME NEW wal \in Wal, NEW s \in Subs
    PROVE  wal[s].seqno \in Seqno /\ wal[s].attempts \in Nat
  BY ConstantTypes DEF Wal, WalEntry, NoEntry

LEMMA EmptyTypes == EmptyWal \in Wal /\ Idle \in Cycle
<1>1. EmptyWal \in Wal
  BY DEF EmptyWal, Wal
<1> QED BY <1>1, ConstantTypes DEF Idle, Cycle

\* Clearing and logging keep a log a log, and logging leaves the entry.
LEMMA ClearedTypes ==
    ASSUME NEW wal \in Wal, NEW s
    PROVE  Cleared(wal, s) \in Wal
  BY DEF Cleared, Wal

LEMMA LoggedTypes ==
    ASSUME NEW wal \in Wal, NEW s \in Subs, NEW n \in Seqno
    PROVE  /\ Logged(wal, s, n) \in Wal
           /\ Logged(wal, s, n)[s].seqno = n /\ Logged(wal, s, n)[s] # NoEntry
<1> DEFINE e == [seqno |-> n, attempts |-> wal[s].attempts + 1]
<1>1. e.attempts \in Nat \ {0} /\ e.attempts # 0
  BY WalParts
<1>2. e \in WalEntry /\ e # NoEntry
  <2>1. e.attempts # NoEntry.attempts
    BY <1>1 DEF NoEntry
  <2>2. e \in WalEntry
    BY <1>1 DEF WalEntry
  <2> QED BY <2>1, <2>2
<1>3. Logged(wal, s, n) = [wal EXCEPT ![s] = e]
  BY DEF Logged
<1>4. e.seqno = n
  OBVIOUS
<1> HIDE DEF e
<1> QED BY <1>2, <1>3, <1>4 DEF Wal

\* A cycle that is outside tryCharge, or before the seqno is read.
Calm(k) == k \in Cycle /\ ~UnderWay(k) /\ (k.pc \in {"recheck", "read"} => k.sub \in Subs)

LEMMA ReturnedCalm ==
    ASSUME NEW k \in Cycle
    PROVE  Calm(Returned(k)) /\ Returned(k).pc \in {"replay", "scan"}
<1> DEFINE pc == IF k.replaying THEN "replay" ELSE "scan"
<1>1. pc \in {"replay", "scan"}
  OBVIOUS
<1>2. Returned(k) = [k EXCEPT !.pc = pc, !.sub = NoSub, !.entry = 0, !.seqno = 0, !.to = 0]
  BY DEF Returned
<1> HIDE DEF pc
<1>3. Returned(k) \in Cycle /\ Returned(k).pc = pc
  BY <1>1, <1>2, ConstantTypes DEF Cycle
<1> QED BY <1>1, <1>3 DEF Calm, UnderWay

LEMMA MarkedFailedCalm ==
    ASSUME NEW k \in Cycle, k.sub \in Subs
    PROVE  Calm(MarkedFailed(k))
<1> DEFINE r    == Returned(k)
           more == r.backedOff \cup {k.sub}
<1>1. r \in Cycle /\ r.pc \in {"replay", "scan"} /\ more \subseteq Subs
  BY ReturnedCalm, CycleParts DEF Calm
<1>2. MarkedFailed(k) = [r EXCEPT !.backedOff = more]
  BY DEF MarkedFailed
<1> HIDE DEF r, more
<1>3. MarkedFailed(k) \in Cycle /\ MarkedFailed(k).pc = r.pc
  BY <1>1, <1>2 DEF Cycle
<1> QED BY <1>1, <1>3 DEF Calm, UnderWay

LEMMA ThrownCalm ==
    ASSUME NEW k \in Cycle, k.sub \in Subs
    PROVE  Calm(Thrown(k))
<1>1. CASE k.replaying
  <2>1. Thrown(k) = [k EXCEPT !.pc = "recheck", !.seqno = 0]
    BY <1>1 DEF Thrown
  <2>2. Thrown(k) \in Cycle /\ Thrown(k).pc = "recheck" /\ Thrown(k).sub = k.sub
    BY <2>1, ConstantTypes DEF Cycle
  <2> QED BY <2>2 DEF Calm, UnderWay
<1>2. CASE ~k.replaying
  BY <1>2, MarkedFailedCalm DEF Thrown
<1> QED BY <1>1, <1>2

-----------------------------------------------------------------------------
(* A cycle moves.                                                          *)

LEMMA FilesTypes == RelayerInv => FilesTyped
  BY DEF RelayerInv, TypeOK, FilesTyped

LEMMA BusyCycle ==
    ASSUME RelayerInv, NEW c \in Cycles
    PROVE  cycle[c] \in Cycle /\ CycleInv(cycle[c], chain)
  BY DEF RelayerInv, TypeOK

\* One cycle goes on, the others stay; the chain is as it was.
LEMMA OneCycleMoves ==
    ASSUME RelayerInv, NEW c \in Cycles, Busy(c), NEW next \in Cycle,
           cycle' = [cycle EXCEPT ![c] = next], UNCHANGED <<chain, overlapped>>,
           FilesTyped', CycleInv(next, chain), \A l \in log' : TrueLine(l, chain),
           ~overlapped => AloneInv(next, walDisk', log')
    PROVE  RelayerInv'
<1>1. cycle \in [Cycles -> Cycle] /\ \A d \in Cycles : CycleInv(cycle[d], chain)
  BY DEF RelayerInv, TypeOK
<1>2. cycle' \in [Cycles -> Cycle] /\ cycle'[c] = next /\ \A d \in Cycles \ {c} : cycle'[d] = cycle[d]
  BY <1>1
<1>3. TypeOK'
  BY <1>2 DEF RelayerInv, TypeOK, FilesTyped
<1>4. ASSUME ~overlapped PROVE Alone' /\ \A d \in Cycles : AloneInv(cycle'[d], walDisk', log')
  <2>1. \A d \in Cycles \ {c} : cycle[d].pc = "idle"
    BY <1>4 DEF RelayerInv, Alone, Busy
  <2>2. \A d \in Cycles \ {c} : AloneInv(cycle'[d], walDisk', log')
    BY <1>2, <2>1 DEF AloneInv, UnderWay
  <2>3. Alone'
    BY <1>2, <2>1 DEF Alone, Busy
  <2> QED BY <1>2, <1>4, <2>2, <2>3
<1>5. \A d \in Cycles : CycleInv(cycle'[d], chain')
  BY <1>1, <1>2
<1>6. \A l \in log' : TrueLine(l, chain')
  OBVIOUS
<1>7. overlapped' = overlapped /\ overlapped \in BOOLEAN
  BY DEF RelayerInv, TypeOK
<1> QED BY <1>3, <1>4, <1>5, <1>6, <1>7 DEF RelayerInv

\* A cycle that is calm afterwards has nothing to answer for.
LEMMA CalmMoves ==
    ASSUME RelayerInv, NEW c \in Cycles, Busy(c), NEW next, Calm(next),
           cycle' = [cycle EXCEPT ![c] = next], UNCHANGED <<chain, overlapped, log>>,
           FilesTyped'
    PROVE  RelayerInv'
<1>1. next \in Cycle /\ CycleInv(next, chain) /\ AloneInv(next, walDisk', log')
  BY DEF Calm, CycleInv, AloneInv, UnderWay
<1>2. \A l \in log' : TrueLine(l, chain)
  BY DEF RelayerInv
<1> QED BY <1>1, <1>2, OneCycleMoves

LEMMA FaultTypes == RelayerInv /\ Fault => faults' \in 0..MaxFaults
<1> SUFFICES ASSUME RelayerInv, Fault PROVE faults' \in 0..MaxFaults
  OBVIOUS
<1>1. faults \in 0..MaxFaults
  BY DEF RelayerInv, TypeOK
<1> QED BY <1>1, ConstantTypes DEF Fault

\* Saving a log keeps it what it is for the rest of the cycle.
LEMMA SavedCalm ==
    ASSUME NEW next, Calm(next), NEW wal \in Wal
    PROVE  Calm([next EXCEPT !.wal = wal])
<1> DEFINE new == [next EXCEPT !.wal = wal]
<1>1. new \in Cycle /\ new.pc = next.pc /\ new.sub = next.sub
  BY DEF Calm, Cycle
<1> HIDE DEF new
<1>2. Calm(new)
  BY <1>1 DEF Calm, UnderWay
<1> QED BY <1>2 DEF new

-----------------------------------------------------------------------------
(* replayWal                                                               *)

LEMMA DroppedInv ==
    ASSUME RelayerInv, NEW c \in Cycles, NEW s \in Subs, Abandon(c, s) \/ AlreadyConfirmed(c, s)
    PROVE  RelayerInv'
<1> DEFINE k    == cycle[c]
           left == k.todo \ {s}
           next == [k EXCEPT !.todo = left]
           wal  == Cleared(k.wal, s)
<1>1. /\ k \in Cycle /\ k.pc = "replay" /\ walDisk' = wal
      /\ cycle' = [cycle EXCEPT ![c] = [next EXCEPT !.wal = wal]]
      /\ UNCHANGED <<chain, net, dbDisk, polling, log, overlapped, faults>>
  BY BusyCycle DEF Abandon, AlreadyConfirmed, Replays, Save
<1>2. left \subseteq Subs /\ wal \in Wal
  BY <1>1, CycleParts, ClearedTypes
<1> HIDE DEF left, wal
<1>3. next \in Cycle /\ next.pc = "replay"
  BY <1>1, <1>2 DEF Cycle
<1> HIDE DEF next
<1>4. Calm([next EXCEPT !.wal = wal])
  BY <1>2, <1>3, SavedCalm DEF Calm, UnderWay
<1>5. Busy(c)
  BY <1>1 DEF Busy
<1>6. FilesTyped'
  BY <1>1, <1>2, FilesTypes DEF FilesTyped
<1> QED BY <1>1, <1>4, <1>5, <1>6, CalmMoves

LEMMA TakenUpInv ==
    ASSUME RelayerInv, NEW c \in Cycles, NEW s \in Subs, Retry(c, s) \/ ReplayFails(c, s)
    PROVE  RelayerInv'
<1> DEFINE k        == cycle[c]
           left     == k.todo \ {s}
           e        == k.wal[s].seqno
           next(pc) == [k EXCEPT !.pc = pc, !.sub = s, !.todo = left, !.entry = e]
<1>1. k \in Cycle /\ k.pc = "replay" /\ left \subseteq Subs /\ e \in Seqno /\ Busy(c)
  BY BusyCycle, CycleParts, WalParts DEF Retry, ReplayFails, Replays, Busy
<1>2. /\ \/ cycle' = [cycle EXCEPT ![c] = next("read")]
         \/ cycle' = [cycle EXCEPT ![c] = next("recheck")]
      /\ UNCHANGED <<chain, net, disk, polling, log, overlapped>>
  BY DEF Retry, ReplayFails
<1>3. faults' \in 0..MaxFaults
  BY FilesTypes, FaultTypes DEF Retry, ReplayFails, FilesTyped
<1> HIDE DEF left, e
<1>4. ASSUME NEW pc \in {"read", "recheck"} PROVE Calm(next(pc))
  <2>1. next(pc) \in Cycle /\ next(pc).pc = pc /\ next(pc).sub = s
    BY <1>1 DEF Cycle
  <2> HIDE DEF next
  <2> QED BY <2>1 DEF Calm, UnderWay
<1> HIDE DEF next
<1>5. FilesTyped'
  BY <1>2, <1>3, FilesTypes DEF FilesTyped, disk
<1>6. Calm(next("read")) /\ Calm(next("recheck"))
  BY <1>4
<1> QED BY <1>1, <1>2, <1>5, <1>6, CalmMoves

LEMMA RecheckInv ==
    ASSUME RelayerInv, NEW c \in Cycles, Recheck(c)
    PROVE  RelayerInv'
<1> DEFINE k    == cycle[c]
           next == [Returned(k) EXCEPT !.todo = {}]
           wal  == Cleared(k.wal, k.sub)
<1>1. k \in Cycle /\ k.pc = "recheck" /\ k.sub \in Subs /\ Busy(c)
  BY BusyCycle DEF Recheck, Busy, CycleInv
<1>2. /\ \/ /\ cycle' = [cycle EXCEPT ![c] = [next EXCEPT !.wal = wal]] /\ walDisk' = wal
            /\ UNCHANGED faults
         \/ /\ cycle' = [cycle EXCEPT ![c] = MarkedFailed(k)] /\ UNCHANGED walDisk
            /\ Fault \/ UNCHANGED faults
      /\ UNCHANGED <<chain, net, dbDisk, polling, log, overlapped>>
  BY DEF Recheck, Save
<1>3. wal \in Wal
  BY <1>1, CycleParts, ClearedTypes
<1>4. faults' \in 0..MaxFaults
  BY <1>2, FilesTypes, FaultTypes DEF FilesTyped
<1>5. FilesTyped'
  BY <1>2, <1>3, <1>4, FilesTypes DEF FilesTyped
<1>6. Calm(MarkedFailed(k))
  BY <1>1, MarkedFailedCalm
<1>7. Calm([next EXCEPT !.wal = wal])
  <2>1. Calm(Returned(k)) /\ Returned(k).pc \in {"replay", "scan"}
    BY <1>1, ReturnedCalm
  <2>2. next \in Cycle /\ next.pc = Returned(k).pc
    BY <2>1 DEF Cycle, Calm
  <2> HIDE DEF next
  <2>3. Calm(next)
    BY <2>1, <2>2 DEF Calm, UnderWay
  <2> QED BY <1>3, <2>3, SavedCalm
<1> HIDE DEF next, wal, k
<1> QED BY <1>1, <1>2, <1>5, <1>6, <1>7, CalmMoves

-----------------------------------------------------------------------------
(* tryCharge                                                               *)

LEMMA SignedTypes ==
    ASSUME NEW k \in Cycle, k.sub \in Subs
    PROVE  SignedCharge(k) \in [sub : Subs, seqno : Seqno] /\ Event(k) \in ChargeEvent
  BY CycleParts DEF SignedCharge, Event, ChargeEvent

LEMMA ThrownInv ==
    ASSUME RelayerInv, NEW c \in Cycles, ReadFails(c) \/ SendFails(c) \/ TimedOut(c)
    PROVE  RelayerInv'
<1> DEFINE k == cycle[c]
<1>1. k \in Cycle /\ k.sub \in Subs /\ Busy(c)
  BY BusyCycle DEF ReadFails, SendFails, TimedOut, Busy, CycleInv, UnderWay
<1>2. /\ cycle' = [cycle EXCEPT ![c] = Thrown(k)]
      /\ UNCHANGED <<chain, disk, polling, log, overlapped>>
      /\ net' \in {net, net \cup {SignedCharge(k)}}
      /\ Fault \/ UNCHANGED faults
  BY DEF ReadFails, SendFails, TimedOut
<1>3. faults' \in 0..MaxFaults
  BY <1>2, FilesTypes, FaultTypes DEF FilesTyped
<1>4. net' \subseteq [sub : Subs, seqno : Seqno]
  BY <1>1, <1>2, FilesTypes, SignedTypes DEF FilesTyped
<1>5. FilesTyped'
  BY <1>2, <1>3, <1>4, FilesTypes DEF FilesTyped, disk
<1>6. Calm(Thrown(k))
  BY <1>1, ThrownCalm
<1> HIDE DEF k
<1> QED BY <1>1, <1>2, <1>5, <1>6, CalmMoves DEF disk

\* The seqno read is the chain's, the entry is in the file, and nothing newer
\* has been told of.
LEMMA ReadAndLogInv ==
    ASSUME RelayerInv, NEW c \in Cycles, ReadAndLog(c)
    PROVE  RelayerInv'
<1> DEFINE k    == cycle[c]
           n    == chain[k.sub].seqno
           wal  == Logged(k.wal, k.sub, n)
           next == [[k EXCEPT !.pc = "intent", !.seqno = n] EXCEPT !.wal = wal]
<1>1. k \in Cycle /\ k.sub \in Subs /\ Busy(c)
  BY BusyCycle DEF ReadAndLog, Busy, CycleInv
<1>2. /\ cycle' = [cycle EXCEPT ![c] = next] /\ walDisk' = wal
      /\ UNCHANGED <<chain, net, dbDisk, polling, log, overlapped, faults>>
  BY DEF ReadAndLog, Save
<1>3. n \in Seqno /\ n \in Nat
  BY <1>1, ConstantTypes DEF RelayerInv, TypeOK
<1>4. wal \in Wal /\ wal[k.sub].seqno = n /\ wal[k.sub] # NoEntry
  BY <1>1, <1>3, CycleParts, LoggedTypes
<1> HIDE DEF wal
<1>5. /\ next \in Cycle /\ next.pc = "intent" /\ next.seqno = n /\ next.sub = k.sub
  <2> HIDE DEF n
  <2> QED BY <1>1, <1>3, <1>4 DEF Cycle
<1> HIDE DEF next
<1>6. CycleInv(next, chain)
  BY <1>1, <1>3, <1>5 DEF CycleInv, UnderWay
<1>7. \A l \in log' : TrueLine(l, chain)
  BY <1>2 DEF RelayerInv
<1>8. \A l \in log' : l.sub = next.sub => l.to <= next.seqno
  BY <1>1, <1>5, <1>7, ConstantTypes DEF TrueLine
<1>9. AloneInv(next, walDisk', log')
  BY <1>2, <1>4, <1>5, <1>8 DEF AloneInv
<1>10. FilesTyped'
  BY <1>2, <1>4, FilesTypes DEF FilesTyped
<1> QED BY <1>1, <1>2, <1>5, <1>6, <1>7, <1>9, <1>10, OneCycleMoves

LEMMA SendInv ==
    ASSUME RelayerInv, NEW c \in Cycles, Send(c)
    PROVE  RelayerInv'
<1> DEFINE k    == cycle[c]
           next == [k EXCEPT !.pc = "waiting"]
<1>1. /\ k \in Cycle /\ CycleInv(k, chain) /\ k.pc = "intent" /\ k.sub \in Subs
      /\ k.seqno <= chain[k.sub].seqno /\ Busy(c)
  BY BusyCycle DEF Send, Busy, CycleInv, UnderWay
<1>2. /\ cycle' = [cycle EXCEPT ![c] = next] /\ net' = net \cup {SignedCharge(k)}
      /\ UNCHANGED <<chain, disk, polling, log, overlapped, faults>>
  BY DEF Send
<1>3. next \in Cycle /\ next.pc = "waiting" /\ next.seqno = k.seqno /\ next.sub = k.sub
  BY <1>1 DEF Cycle
<1>4. FilesTyped'
  BY <1>1, <1>2, FilesTypes, SignedTypes DEF FilesTyped, disk
<1>5. ASSUME ~overlapped PROVE \A l \in log : l.sub = k.sub => l.to <= k.seqno
  BY <1>1, <1>5 DEF RelayerInv, AloneInv, UnderWay
<1> HIDE DEF next, k
<1>6. CycleInv(next, chain)
  BY <1>1, <1>3 DEF CycleInv, UnderWay
<1>7. ~overlapped => AloneInv(next, walDisk', log')
  BY <1>2, <1>3, <1>5 DEF AloneInv
<1>8. \A l \in log' : TrueLine(l, chain)
  BY <1>2 DEF RelayerInv
<1> QED BY <1>1, <1>2, <1>3, <1>4, <1>6, <1>7, <1>8, OneCycleMoves

LEMMA ConfirmedInv ==
    ASSUME RelayerInv, NEW c \in Cycles, Confirmed(c)
    PROVE  RelayerInv'
<1> DEFINE k    == cycle[c]
           n    == chain[k.sub].seqno
           off  == k.backedOff \ {k.sub}
           wal  == Cleared(k.wal, k.sub)
           next == [[k EXCEPT !.pc = "report", !.to = n, !.backedOff = off] EXCEPT !.wal = wal]
<1>1. /\ k \in Cycle /\ CycleInv(k, chain) /\ k.pc = "waiting" /\ k.sub \in Subs
      /\ k.seqno < n /\ Busy(c)
  <2>1. k \in Cycle /\ CycleInv(k, chain) /\ k.pc = "waiting" /\ Busy(c) /\ n > k.seqno
    BY BusyCycle DEF Confirmed, SeenAdvanced, Busy
  <2>2. k.sub \in Subs
    BY <2>1 DEF CycleInv, UnderWay
  <2>3. n \in Nat /\ k.seqno \in Nat
    BY <2>1, <2>2, CycleParts, ConstantTypes DEF RelayerInv, TypeOK
  <2> QED BY <2>1, <2>2, <2>3
<1>2. /\ cycle' = [cycle EXCEPT ![c] = next] /\ walDisk' = wal
      /\ UNCHANGED <<chain, net, dbDisk, polling, log, overlapped, faults>>
  BY DEF Confirmed, Save
<1>3. n \in Seqno /\ n \in Nat /\ k.seqno \in Nat /\ off \subseteq Subs /\ wal \in Wal
  BY <1>1, ConstantTypes, CycleParts, ClearedTypes DEF RelayerInv, TypeOK
<1>4. ASSUME ~overlapped PROVE \A l \in log : l.sub = k.sub => l.to <= k.seqno
  BY <1>1, <1>4 DEF RelayerInv, AloneInv, UnderWay
<1> HIDE DEF wal, off
<1>5. /\ next \in Cycle /\ next.pc = "report" /\ next.seqno = k.seqno /\ next.sub = k.sub
      /\ next.to = n
  <2> HIDE DEF n
  <2> QED BY <1>1, <1>3 DEF Cycle
<1> HIDE DEF next
<1>6. CycleInv(next, chain)
  BY <1>1, <1>3, <1>5 DEF CycleInv, UnderWay
<1> HIDE DEF k
<1>7. ~overlapped => AloneInv(next, walDisk', log')
  BY <1>2, <1>4, <1>5 DEF AloneInv
<1>8. \A l \in log' : TrueLine(l, chain)
  BY <1>2 DEF RelayerInv
<1>9. FilesTyped'
  BY <1>2, <1>3, FilesTypes DEF FilesTyped
<1> QED BY <1>1, <1>2, <1>5, <1>6, <1>7, <1>8, <1>9, OneCycleMoves

LEMMA ReportInv ==
    ASSUME RelayerInv, NEW c \in Cycles, Report(c)
    PROVE  RelayerInv'
<1> DEFINE k    == cycle[c]
           next == Returned(k)
<1>1. /\ k \in Cycle /\ k.sub \in Subs /\ Busy(c)
      /\ k.seqno < k.to /\ k.to <= chain[k.sub].seqno
  BY BusyCycle DEF Report, Busy, CycleInv, UnderWay
<1>2. /\ cycle' = [cycle EXCEPT ![c] = next]
      /\ UNCHANGED <<chain, net, disk, polling, overlapped>>
      /\ Fault \/ UNCHANGED faults
      /\ log' \subseteq log \cup {Event(k)}
  BY DEF Report, Receive
<1>3. Calm(next)
  BY <1>1, ReturnedCalm
<1>4. next \in Cycle /\ CycleInv(next, chain) /\ AloneInv(next, walDisk', log')
  BY <1>3 DEF Calm, CycleInv, AloneInv, UnderWay
<1>5. TrueLine(Event(k), chain)
  BY <1>1 DEF TrueLine, Event
<1>6. \A l \in log' : TrueLine(l, chain)
  BY <1>2, <1>5 DEF RelayerInv
<1>7. faults' \in 0..MaxFaults
  BY <1>2, FilesTypes, FaultTypes DEF FilesTyped
<1>8. log' \subseteq ChargeEvent
  BY <1>1, <1>2, SignedTypes, FilesTypes DEF FilesTyped
<1>9. FilesTyped'
  BY <1>2, <1>7, <1>8, FilesTypes DEF FilesTyped, disk
<1> HIDE DEF next, k
<1> QED BY <1>1, <1>2, <1>4, <1>6, <1>9, OneCycleMoves

-----------------------------------------------------------------------------
(* pollCycle                                                               *)

LEMMA StartInv ==
    ASSUME RelayerInv, NEW c \in Cycles, Start(c)
    PROVE  RelayerInv'
<1> DEFINE due  == {s \in Subs : walDisk[s] # NoEntry}
           next == [Idle EXCEPT !.pc = "replay", !.wal = walDisk, !.backedOff = dbDisk,
                                !.todo = due, !.replaying = TRUE]
           busy == \E d \in Cycles : Busy(d)
<1>1. /\ cycle' = [cycle EXCEPT ![c] = next] /\ overlapped' = (overlapped \/ busy)
      /\ UNCHANGED <<chain, net, disk, polling, log, faults>>
  BY DEF Start
<1>2. FilesTyped /\ cycle \in [Cycles -> Cycle] /\ overlapped \in BOOLEAN
  BY FilesTypes DEF RelayerInv, TypeOK
<1>3. due \subseteq Subs /\ busy \in BOOLEAN
  OBVIOUS
<1> HIDE DEF due
<1>4. next \in Cycle /\ next.pc = "replay"
  BY <1>2, <1>3, EmptyTypes DEF FilesTyped, Cycle
<1> HIDE DEF next
<1>5. cycle' \in [Cycles -> Cycle] /\ cycle'[c] = next
      /\ \A d \in Cycles \ {c} : cycle'[d] = cycle[d]
  BY <1>1, <1>2, <1>4
<1>6. \A d \in Cycles : CycleInv(cycle'[d], chain')
  BY <1>1, <1>4, <1>5 DEF RelayerInv, CycleInv, UnderWay
<1>7. ASSUME ~overlapped'
      PROVE  Alone' /\ \A d \in Cycles : AloneInv(cycle'[d], walDisk', log')
  <2>1. \A d \in Cycles : cycle[d].pc = "idle"
    BY <1>1, <1>7 DEF Busy
  <2>2. \A d \in Cycles : d = c \/ cycle'[d].pc = "idle"
    BY <1>5, <2>1
  <2>3. Alone'
    BY <2>2 DEF Alone, Busy
  <2>4. \A d \in Cycles : AloneInv(cycle'[d], walDisk', log')
    BY <1>4, <1>5, <2>2 DEF AloneInv, UnderWay
  <2> QED BY <2>3, <2>4
<1>8. \A l \in log' : TrueLine(l, chain')
  BY <1>1 DEF RelayerInv
<1>9. overlapped' \in BOOLEAN
  BY <1>1, <1>2, <1>3
<1> HIDE DEF busy
<1>10. TypeOK'
  BY <1>1, <1>5, <1>9 DEF RelayerInv, TypeOK, disk
<1> QED BY <1>6, <1>7, <1>8, <1>9, <1>10 DEF RelayerInv

\* A cycle ends.
LEMMA EndInv ==
    ASSUME RelayerInv, NEW c \in Cycles, NoFactories(c) \/ ScanDone(c)
    PROVE  RelayerInv'
<1>1. /\ cycle' = [cycle EXCEPT ![c] = Idle] /\ polling' = TRUE
      /\ dbDisk' = cycle[c].backedOff /\ Busy(c)
      /\ UNCHANGED <<chain, net, walDisk, log, overlapped>>
      /\ Fault \/ UNCHANGED faults
  BY DEF NoFactories, ScanDone, Replayed, SaveDB, Busy
<1>2. faults' \in 0..MaxFaults
  BY <1>1, FilesTypes, FaultTypes DEF FilesTyped
<1>3. dbDisk' \subseteq Subs
  BY <1>1, BusyCycle, CycleParts
<1>4. Calm(Idle)
  BY EmptyTypes DEF Calm, UnderWay, Idle
<1>5. FilesTyped'
  BY <1>1, <1>2, <1>3, FilesTypes DEF FilesTyped
<1> QED BY <1>1, <1>4, <1>5, CalmMoves

LEMMA DiscoverInv ==
    ASSUME RelayerInv, NEW c \in Cycles, Discover(c)
    PROVE  RelayerInv'
<1> DEFINE k    == cycle[c]
           next == [k EXCEPT !.pc = "scan", !.replaying = FALSE, !.todo = Subs]
<1>1. /\ cycle' = [cycle EXCEPT ![c] = next] /\ dbDisk' = k.backedOff /\ Busy(c)
      /\ UNCHANGED <<chain, net, walDisk, polling, log, overlapped, faults>>
  BY DEF Discover, Replayed, SaveDB, Busy
<1>2. k \in Cycle /\ dbDisk' \subseteq Subs
  BY <1>1, BusyCycle, CycleParts
<1>3. next \in Cycle /\ next.pc = "scan"
  BY <1>2 DEF Cycle
<1>4. Calm(next)
  BY <1>3 DEF Calm, UnderWay
<1>5. FilesTyped'
  BY <1>1, <1>2, FilesTypes DEF FilesTyped
<1> HIDE DEF next
<1> QED BY <1>1, <1>4, <1>5, CalmMoves

LEMMA ScanInv ==
    ASSUME RelayerInv, NEW c \in Cycles, NEW s \in Subs,
           Skip(c, s) \/ ScanDue(c, s) \/ ScanFails(c, s)
    PROVE  RelayerInv'
<1> DEFINE k    == cycle[c]
           left == k.todo \ {s}
           off  == k.backedOff \cup {s}
           gone == [k EXCEPT !.todo = left]
           due  == [k EXCEPT !.pc = "read", !.sub = s, !.todo = left]
           lost == [k EXCEPT !.todo = left, !.backedOff = off]
<1>1. /\ k.pc = "scan" /\ Busy(c) /\ k \in Cycle /\ cycle \in [Cycles -> Cycle]
      /\ left \subseteq Subs /\ off \subseteq Subs
  BY BusyCycle, CycleParts DEF Skip, ScanDue, ScanFails, Scans, Busy, RelayerInv, TypeOK
<1>2. UNCHANGED <<chain, net, disk, polling, log, overlapped>> /\ (Fault \/ UNCHANGED faults)
  BY DEF Skip, ScanDue, ScanFails
<1>3. \/ cycle' = [cycle EXCEPT ![c] = gone]
      \/ cycle' = [cycle EXCEPT ![c] = due]
      \/ cycle' = [cycle EXCEPT ![c] = lost]
  <2>1. CASE Skip(c, s)
    BY <2>1 DEF Skip
  <2>2. CASE ScanDue(c, s)
    BY <2>2 DEF ScanDue
  <2>3. CASE ScanFails(c, s)
    BY <1>1, <2>3 DEF ScanFails
  <2> QED BY <2>1, <2>2, <2>3
<1> HIDE DEF left, off
<1>4. gone \in Cycle /\ gone.pc = "scan" /\ lost \in Cycle /\ lost.pc = "scan"
  BY <1>1 DEF Cycle
<1>5. due \in Cycle /\ due.pc = "read" /\ due.sub = s
  BY <1>1 DEF Cycle
<1> HIDE DEF gone, due, lost
<1>6. Calm(gone) /\ Calm(due) /\ Calm(lost)
  BY <1>4, <1>5 DEF Calm, UnderWay
<1>7. faults' \in 0..MaxFaults
  BY <1>2, FilesTypes, FaultTypes DEF FilesTyped
<1>8. FilesTyped'
  BY <1>2, <1>7, FilesTypes DEF FilesTyped, disk
<1> QED BY <1>1, <1>2, <1>3, <1>6, <1>8, CalmMoves

LEMMA CrashInv == ASSUME RelayerInv, Crash PROVE RelayerInv'
<1>1. /\ cycle' = [c \in Cycles |-> Idle] /\ polling' = FALSE
      /\ UNCHANGED <<chain, net, disk, log, overlapped>>
  BY DEF Crash
<1>2. faults' \in 0..MaxFaults
  BY FaultTypes DEF Crash
<1>3. Idle.pc = "idle"
  BY DEF Idle
<1>4. \A c \in Cycles : cycle'[c].pc = "idle"
  BY <1>1, <1>3
<1>5. TypeOK'
  BY <1>1, <1>2, EmptyTypes DEF RelayerInv, TypeOK, disk
<1>6. Alone' /\ \A c \in Cycles : AloneInv(cycle'[c], walDisk', log')
  BY <1>4 DEF Alone, Busy, AloneInv, UnderWay
<1>7. \A c \in Cycles : CycleInv(cycle'[c], chain')
  BY <1>4 DEF CycleInv, UnderWay
<1> QED BY <1>1, <1>5, <1>6, <1>7 DEF RelayerInv

LEMMA BackoffInv == ASSUME RelayerInv, NEW s \in Subs, BackoffOver(s) PROVE RelayerInv'
<1> DEFINE off(c)  == cycle[c].backedOff \ {s}
           next(c) == [cycle[c] EXCEPT !.backedOff = off(c)]
<1>1. /\ cycle' = [c \in Cycles |-> next(c)] /\ dbDisk' = dbDisk \ {s}
      /\ UNCHANGED <<chain, net, walDisk, polling, log, overlapped, faults>>
  BY DEF BackoffOver
<1>2. ASSUME NEW c \in Cycles
      PROVE  /\ next(c) \in Cycle /\ next(c).pc = cycle[c].pc /\ next(c).sub = cycle[c].sub
             /\ next(c).seqno = cycle[c].seqno /\ next(c).to = cycle[c].to
  <2>1. cycle[c] \in Cycle /\ off(c) \subseteq Subs
    BY BusyCycle, CycleParts
  <2> HIDE DEF off
  <2> QED BY <2>1 DEF Cycle
<1> HIDE DEF next
<1>3. \A c \in Cycles : /\ cycle'[c] \in Cycle /\ cycle'[c].pc = cycle[c].pc
                        /\ cycle'[c].sub = cycle[c].sub /\ cycle'[c].seqno = cycle[c].seqno
                        /\ cycle'[c].to = cycle[c].to
  BY <1>1, <1>2
<1>4. cycle' \in [Cycles -> Cycle]
  BY <1>1, <1>2
<1>5. TypeOK'
  BY <1>1, <1>4 DEF RelayerInv, TypeOK
<1>6. \A c \in Cycles : CycleInv(cycle'[c], chain')
  BY <1>1, <1>3 DEF RelayerInv, CycleInv, UnderWay
<1>7. ~overlapped => Alone' /\ \A c \in Cycles : AloneInv(cycle'[c], walDisk', log')
  BY <1>1, <1>3 DEF RelayerInv, Alone, Busy, AloneInv, UnderWay
<1> QED BY <1>1, <1>5, <1>6, <1>7 DEF RelayerInv

\* A test's line is refused, or is about no subscription.
LEMMA TestInv == ASSUME RelayerInv, TestWebhook PROVE RelayerInv'
<1>1. /\ UNCHANGED <<chain, net, disk, cycle, polling, overlapped, faults>>
      /\ log' = log \/ (~HasSecret /\ log' = log \cup {TestEvent})
  BY DEF TestWebhook, Receive, Authentic
<1>2. TestEvent \in ChargeEvent /\ TestEvent.sub = NoSub
  BY ConstantTypes DEF TestEvent, ChargeEvent
<1>3. TypeOK'
  BY <1>1, <1>2 DEF RelayerInv, TypeOK, disk
<1>4. \A l \in log' : TrueLine(l, chain')
  BY <1>1, <1>2 DEF RelayerInv, TrueLine
<1>5. \A c \in Cycles : CycleInv(cycle'[c], chain')
  BY <1>1 DEF RelayerInv
<1>6. \A k : (UnderWay(k) => k.sub \in Subs) => (AloneInv(k, walDisk, log) => AloneInv(k, walDisk', log'))
  BY <1>1, <1>2, ConstantTypes DEF AloneInv, disk
<1>7. ~overlapped => Alone' /\ \A c \in Cycles : AloneInv(cycle'[c], walDisk', log')
  BY <1>1, <1>6 DEF RelayerInv, Alone, Busy, CycleInv
<1> QED BY <1>1, <1>3, <1>4, <1>5, <1>7 DEF RelayerInv

-----------------------------------------------------------------------------
(* The chain.                                                              *)

ChainType == chain \in [Subs -> [seqno : Seqno, status : Status, due : BOOLEAN]]

\* A seqno only moves on, so what was true of the past stays true.
LEMMA ChainMoves ==
    ASSUME RelayerInv, ChainType', \A s \in Subs : chain[s].seqno <= chain'[s].seqno,
           net' \subseteq net, faults' \in 0..MaxFaults,
           UNCHANGED <<disk, cycle, polling, log, overlapped>>
    PROVE  RelayerInv'
<1>1. TypeOK'
  BY DEF RelayerInv, TypeOK, ChainType, disk
<1>2. \A s \in Subs, n \in Seqno : n <= chain[s].seqno => n <= chain'[s].seqno
  BY ConstantTypes DEF RelayerInv, TypeOK, ChainType
<1>3. \A l \in log' : TrueLine(l, chain')
  <2> TAKE l \in log'
  <2>1. l \in log /\ TrueLine(l, chain) /\ l.to \in Seqno
    BY DEF RelayerInv, TypeOK, ChargeEvent
  <2> QED BY <1>2, <2>1 DEF TrueLine
<1>4. \A c \in Cycles : CycleInv(cycle'[c], chain')
  <2> TAKE c \in Cycles
  <2>1. CycleInv(cycle[c], chain) /\ cycle[c].seqno \in Seqno /\ cycle[c].to \in Seqno
    BY BusyCycle, CycleParts
  <2>2. CycleInv(cycle[c], chain')
    BY <1>2, <2>1 DEF CycleInv, UnderWay
  <2> QED BY <2>2
<1>5. ~overlapped => Alone' /\ \A c \in Cycles : AloneInv(cycle'[c], walDisk', log')
  BY DEF RelayerInv, Alone, Busy, disk
<1> QED BY <1>1, <1>3, <1>4, <1>5 DEF RelayerInv

LEMMA AdvanceMoves ==
    ASSUME RelayerInv, NEW s \in Subs, NEW status \in Status, NEW due \in BOOLEAN,
           Advance(s, status, due)
    PROVE  /\ ChainType' /\ net' \subseteq net
           /\ \A r \in Subs : chain[r].seqno <= chain'[r].seqno
<1> DEFINE n   == chain[s].seqno + 1
           new == [seqno |-> n, status |-> status, due |-> due]
<1>1. ChainType /\ chain[s].seqno < MaxSeqno
  BY DEF RelayerInv, TypeOK, ChainType, Advance
<1>2. n \in Seqno /\ chain[s].seqno <= n /\ \A r \in Subs : chain[r].seqno \in Nat
  BY <1>1, ConstantTypes DEF ChainType, Seqno
<1>3. chain' = [chain EXCEPT ![s] = new] /\ net' \subseteq net
  BY DEF Advance
<1>4. new.seqno = n /\ new \in [seqno : Seqno, status : Status, due : BOOLEAN]
  BY <1>2
<1> HIDE DEF new
<1>5. chain' \in [Subs -> [seqno : Seqno, status : Status, due : BOOLEAN]]
  BY <1>1, <1>3, <1>4 DEF ChainType
<1>6. ASSUME NEW r \in Subs PROVE chain[r].seqno <= chain'[r].seqno
  <2>1. CASE r = s
    <3>1. chain'[s].seqno = n
      BY <1>1, <1>3, <1>4 DEF ChainType
    <3> QED BY <1>2, <2>1, <3>1
  <2>2. CASE r # s
    <3>1. chain'[r] = chain[r]
      BY <1>1, <1>3, <2>2 DEF ChainType
    <3> QED BY <1>2, <3>1
  <2> QED BY <2>1, <2>2
<1> QED BY <1>3, <1>5, <1>6 DEF ChainType

LEMMA StatusTypes ==
    /\ "ACTIVE" \in Status /\ "GRACE" \in Status
    /\ "PAUSED" \in Status /\ "CANCELLED" \in Status
  BY DEF Status

LEMMA LandInv == ASSUME RelayerInv, NEW m \in net, Land(m) PROVE RelayerInv'
<1>1. m.sub \in Subs
  BY DEF RelayerInv, TypeOK
<1>2. \E status \in Status, due \in BOOLEAN : Advance(m.sub, status, due)
  BY StatusTypes DEF Land
<1>3. /\ ChainType' /\ net' \subseteq net
      /\ \A r \in Subs : chain[r].seqno <= chain'[r].seqno
  BY <1>1, <1>2, AdvanceMoves
<1>4. UNCHANGED <<disk, cycle, polling, log, overlapped>> /\ faults' \in 0..MaxFaults
  BY FilesTypes DEF Land, FilesTyped
<1> QED BY <1>3, <1>4, ChainMoves

LEMMA OthersAdvanceInv ==
    ASSUME RelayerInv, NEW s \in Subs, TopUp(s) \/ OwnerActs(s)
    PROVE  RelayerInv'
<1>1. chain[s].due \in BOOLEAN
  BY DEF RelayerInv, TypeOK
<1>2. \E status \in Status, due \in BOOLEAN : Advance(s, status, due)
  BY <1>1, StatusTypes DEF TopUp, OwnerActs
<1>3. /\ ChainType' /\ net' \subseteq net
      /\ \A r \in Subs : chain[r].seqno <= chain'[r].seqno
  BY <1>2, AdvanceMoves
<1>4. UNCHANGED <<disk, cycle, polling, log, overlapped>> /\ faults' \in 0..MaxFaults
  BY FilesTypes DEF TopUp, OwnerActs, FilesTyped
<1> QED BY <1>3, <1>4, ChainMoves

LEMMA SeqnosStay ==
    ASSUME RelayerInv, ChainType', \A r \in Subs : chain'[r].seqno = chain[r].seqno
    PROVE  \A r \in Subs : chain[r].seqno <= chain'[r].seqno
  BY ConstantTypes DEF RelayerInv, TypeOK

LEMMA VanishInv ==
    ASSUME RelayerInv, NEW m \in net, RolledBack(m) \/ Vanish(m)
    PROVE  RelayerInv'
<1>1. /\ net' \subseteq net /\ UNCHANGED <<chain, disk, cycle, polling, log, overlapped>>
      /\ Fault \/ UNCHANGED faults
  BY DEF RolledBack, Vanish
<1>2. faults' \in 0..MaxFaults
  BY <1>1, FilesTypes, FaultTypes DEF FilesTyped
<1>3. ChainType'
  BY <1>1 DEF RelayerInv, TypeOK, ChainType
<1> QED BY <1>1, <1>2, <1>3, SeqnosStay, ChainMoves

LEMMA BillingTimeInv == ASSUME RelayerInv, NEW s \in Subs, BillingTime(s) PROVE RelayerInv'
<1>1. /\ chain' = [chain EXCEPT ![s].due = TRUE]
      /\ UNCHANGED <<net, disk, cycle, polling, log, overlapped, faults>>
  BY DEF BillingTime
<1>2. ChainType
  BY DEF RelayerInv, TypeOK, ChainType
<1>3. ChainType' /\ \A r \in Subs : chain'[r].seqno = chain[r].seqno
  BY <1>1, <1>2 DEF ChainType
<1>4. net' \subseteq net /\ faults' \in 0..MaxFaults
  BY <1>1, FilesTypes DEF FilesTyped
<1> QED BY <1>1, <1>3, <1>4, SeqnosStay, ChainMoves

-----------------------------------------------------------------------------
LEMMA InitInv == Init => RelayerInv
<1> SUFFICES ASSUME Init PROVE RelayerInv
  OBVIOUS
<1>1. /\ \A c \in Cycles : cycle[c] = Idle
      /\ cycle \in [Cycles -> Cycle]
  BY EmptyTypes DEF Init
<1>2. Idle.pc = "idle"
  BY DEF Idle
<1>3. chain \in [Subs -> [seqno : Seqno, status : Status, due : BOOLEAN]]
  <2>1. \A n \in 0..MaxSeqno - 1, status \in {"ACTIVE", "GRACE", "CANCELLED"} :
          Found(n, status) \in [seqno : Seqno, status : Status, due : BOOLEAN]
    BY ConstantTypes, StatusTypes DEF Found, Seqno
  <2> QED BY <2>1 DEF Init
<1>4. 0 \in 0..MaxFaults
  BY ConstantTypes
<1>5. TypeOK
  BY <1>1, <1>3, <1>4, EmptyTypes DEF Init, TypeOK
<1>6. \A c \in Cycles : CycleInv(cycle[c], chain)
  BY <1>1, <1>2 DEF CycleInv, UnderWay
<1>7. \A l \in log : TrueLine(l, chain)
  BY DEF Init
<1>8. Alone /\ \A c \in Cycles : AloneInv(cycle[c], walDisk, log)
  BY <1>1, <1>2 DEF Alone, Busy, AloneInv, UnderWay
<1> QED BY <1>5, <1>6, <1>7, <1>8 DEF RelayerInv

LEMMA StepInv == RelayerInv /\ [Next]_vars => RelayerInv'
<1> SUFFICES ASSUME RelayerInv, [Next]_vars PROVE RelayerInv'
  OBVIOUS
<1>1. CASE \E c \in Cycles : Start(c)
  BY <1>1, StartInv
<1>2. CASE \E c \in Cycles : Step(c)
  <2> PICK c \in Cycles : Step(c)
    BY <1>2
  <2>1. CASE Recheck(c) \/ ReadAndLog(c) \/ Send(c) \/ Confirmed(c) \/ Report(c)
    BY <2>1, RecheckInv, ReadAndLogInv, SendInv, ConfirmedInv, ReportInv
  <2>2. CASE ReadFails(c) \/ SendFails(c) \/ TimedOut(c)
    BY <2>2, ThrownInv
  <2>3. CASE Discover(c) \/ NoFactories(c) \/ ScanDone(c)
    BY <2>3, DiscoverInv, EndInv
  <2>4. CASE \E s \in Subs : \/ Abandon(c, s) \/ AlreadyConfirmed(c, s) \/ Retry(c, s)
                             \/ ReplayFails(c, s)
    BY <2>4, DroppedInv, TakenUpInv
  <2>5. CASE \E s \in Subs : Skip(c, s) \/ ScanDue(c, s) \/ ScanFails(c, s)
    BY <2>5, ScanInv
  <2> QED BY <2>1, <2>2, <2>3, <2>4, <2>5 DEF Step
<1>3. CASE \E m \in net : Land(m) \/ RolledBack(m) \/ Vanish(m)
  BY <1>3, LandInv, VanishInv
<1>4. CASE \E s \in Subs : BillingTime(s) \/ TopUp(s) \/ OwnerActs(s) \/ BackoffOver(s)
  BY <1>4, BillingTimeInv, OthersAdvanceInv, BackoffInv
<1>5. CASE Crash \/ TestWebhook
  BY <1>5, CrashInv, TestInv
<1>6. CASE UNCHANGED vars
  BY <1>6 DEF vars, disk, RelayerInv, TypeOK, Alone, Busy
<1> QED BY <1>1, <1>2, <1>3, <1>4, <1>5, <1>6 DEF Next

LEMMA AlwaysInv == Spec => []RelayerInv
<1> QED BY InitInv, StepInv, PTL DEF Spec

-----------------------------------------------------------------------------
(* Theorems.                                                               *)

\* Every line the receiver logs as confirmed is a range of seqnos a known
\* subscription has gone through, for any number of subscriptions and of
\* overlapping cycles, after any crash or lost answer (webhook-server.ts,
\* tryCharge).
THEOREM ReceiversLogIsTrue == Spec => []LogIsTrue
<1>1. RelayerInv => LogIsTrue
  BY DEF RelayerInv, TrueLine, LogIsTrue
<1> QED BY <1>1, AlwaysInv, PTL

\* The relayer's copies, its files and the chain stay of their types.
THEOREM RelayerTypes == Spec => []TypeOK
<1>1. RelayerInv => TypeOK
  BY DEF RelayerInv
<1> QED BY <1>1, AlwaysInv, PTL

\* Only a send puts a message on its way.
LEMMA OnlySendsAdd ==
    ASSUME [Next]_vars, NEW m \in net' \ net
    PROVE  \E c \in Cycles : Send(c) \/ SendFails(c)
<1> SUFFICES ASSUME ~\E c \in Cycles : Send(c) \/ SendFails(c) PROVE net' \subseteq net
  OBVIOUS
<1>1. CASE \E c \in Cycles : Start(c) \/ Step(c)
  <2> PICK c \in Cycles : Start(c) \/ Step(c)
    BY <1>1
  <2>1. ASSUME NEW s \in Subs,
               \/ Abandon(c, s) \/ AlreadyConfirmed(c, s) \/ Retry(c, s)
               \/ ReplayFails(c, s) \/ Skip(c, s) \/ ScanDue(c, s) \/ ScanFails(c, s)
        PROVE  net' = net
    BY <2>1 DEF Abandon, AlreadyConfirmed, Retry, ReplayFails, Skip, ScanDue, ScanFails
  <2>2. CASE \/ Start(c) \/ Recheck(c) \/ ReadAndLog(c) \/ ReadFails(c)
             \/ Confirmed(c) \/ TimedOut(c) \/ Report(c)
    BY <2>2 DEF Start, Recheck, ReadAndLog, ReadFails, Confirmed, TimedOut, Report
  <2>3. CASE Discover(c) \/ NoFactories(c) \/ ScanDone(c)
    BY <2>3 DEF Discover, NoFactories, ScanDone
  <2> QED BY <2>1, <2>2, <2>3 DEF Step
<1>2. CASE \E m2 \in net : Land(m2) \/ RolledBack(m2) \/ Vanish(m2)
  BY <1>2 DEF Land, RolledBack, Vanish, Advance
<1>3. CASE \E s \in Subs : BillingTime(s) \/ TopUp(s) \/ OwnerActs(s) \/ BackoffOver(s)
  BY <1>3 DEF BillingTime, TopUp, OwnerActs, BackoffOver, Advance
<1>4. CASE Crash \/ TestWebhook
  BY <1>4 DEF Crash, TestWebhook
<1>5. CASE UNCHANGED vars
  BY <1>5 DEF vars
<1> QED BY <1>1, <1>2, <1>3, <1>4, <1>5 DEF Next

\* No charge leaves before the log on disk names it, as long as no two cycles
\* have run at once (walLogIntent before the send in tryCharge).
THEOREM ChargeIsLoggedFirst == Spec => SendIsLogged
<1> DEFINE Named == \A m \in net' \ net : overlapped \/ (walDisk[m.sub] # NoEntry
                                                         /\ walDisk[m.sub].seqno = m.seqno)
<1>1. RelayerInv /\ [Next]_vars => [Named]_vars
  <2> SUFFICES ASSUME RelayerInv, [Next]_vars, NEW m \in net' \ net, ~overlapped
               PROVE  walDisk[m.sub] # NoEntry /\ walDisk[m.sub].seqno = m.seqno
    OBVIOUS
  <2>1. \E c \in Cycles : Send(c) \/ SendFails(c)
    BY OnlySendsAdd
  <2>2. PICK c \in Cycles : cycle[c].pc = "intent" /\ m = SignedCharge(cycle[c])
    BY <2>1 DEF Send, SendFails
  <2>3. m.sub = cycle[c].sub /\ m.seqno = cycle[c].seqno
    BY <2>2 DEF SignedCharge
  <2> QED BY <2>2, <2>3 DEF RelayerInv, AloneInv
<1> QED BY <1>1, AlwaysInv, PTL DEF Spec, SendIsLogged

\* The service is not told twice of one seqno, as long as no two cycles have
\* run at once: what a cycle reports begins where everything reported before
\* has ended (fireWebhook in tryCharge).
THEOREM ServiceToldOnce == Spec => ToldOnce
<1> DEFINE Told == \A c \in Cycles :
         (cycle[c].pc = "report" /\ cycle'[c].pc \notin {"report", "idle"}) =>
           LET e == Event(cycle[c]) IN
           \/ overlapped
           \/ e.from < e.to /\ \A l \in log : l.sub = e.sub => l.to <= e.from
<1>1. RelayerInv /\ [Next]_vars => [Told]_vars
  <2> SUFFICES ASSUME RelayerInv, NEW c \in Cycles, cycle[c].pc = "report", ~overlapped
               PROVE  LET e == Event(cycle[c]) IN
                      e.from < e.to /\ \A l \in log : l.sub = e.sub => l.to <= e.from
    OBVIOUS
  <2>1. cycle[c].seqno < cycle[c].to
    BY DEF RelayerInv, CycleInv
  <2>2. \A l \in log : l.sub = cycle[c].sub => l.to <= cycle[c].seqno
    BY DEF RelayerInv, AloneInv, UnderWay
  <2> QED BY <2>1, <2>2 DEF Event
<1> QED BY <1>1, AlwaysInv, PTL DEF Spec, ToldOnce
=============================================================================
