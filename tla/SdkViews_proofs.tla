--------------------------- MODULE SdkViews_proofs ---------------------------
(***************************************************************************)
(* What the flags of the hooks show as loading is asked for still, for any *)
(* number of addresses, calls, faults and refetches.                       *)
(***************************************************************************)
EXTENDS SdkViews, TLAPS

\* The state of a hook and the call of a fetch keep their fields.
ViewFields  == {"mounted", "address", "data", "of", "switches", "loading", "error"}
ShownFields == {"revenue", "charges", "pool", "loading", "error"}
FetchFields == {"pc", "served", "got"}

Shapes ==
    /\ view = [x \in ViewFields |-> view[x]]
    /\ shown = [x \in ShownFields |-> shown[x]]
    /\ fetch = [f \in Fetches |-> fetch[f]]
    /\ \A f \in Fetches : fetch[f] = [x \in FetchFields |-> fetch[f][x]]

PageLoads    == view.loading => pending # {}
FactoryLoads == shown.loading => \E f \in Fetches : fetch[f].pc \in Waiting

ViewInv == Shapes /\ PageLoads /\ FactoryLoads

OnPage == <<view, pending>>

-----------------------------------------------------------------------------
LEMMA InitInv == Init => ViewInv
<1> SUFFICES ASSUME Init PROVE ViewInv
  OBVIOUS
<1>1. /\ view = [x \in ViewFields |-> view[x]]
      /\ view.loading => pending # {}
  <2>1. PICK m \in {"subscription", "factory"}, a \in Addresses :
          /\ view = [mounted |-> m, address |-> a, data |-> NoData, of |-> {}, switches |-> 0,
                     loading |-> m = "subscription", error |-> FALSE]
          /\ m = "subscription" => pending # {}
    BY DEF Init
  <2> QED BY <2>1 DEF ViewFields
<1>2. /\ shown = [x \in ShownFields |-> shown[x]]
      /\ ~shown.loading
  BY DEF Init, ShownFields
<1>3. /\ fetch = [f \in Fetches |-> fetch[f]]
      /\ \A f \in Fetches : fetch[f] = [x \in FetchFields |-> fetch[f][x]]
  BY DEF Init, FetchFields
<1> QED BY <1>1, <1>2, <1>3 DEF ViewInv, Shapes, PageLoads, FactoryLoads

LEMMA CallShape ==
  ASSUME ViewInv, NEW f \in Fetches, NEW pc
  PROVE  [fetch[f] EXCEPT !.pc = pc]
           = [pc |-> pc, served |-> fetch[f].served, got |-> fetch[f].got]
<1>1. fetch[f] = [x \in FetchFields |-> fetch[f][x]]
  BY DEF ViewInv, Shapes
<1> DEFINE k == fetch[f]
<1>2. DOMAIN k = {"pc", "served", "got"} /\ k = [x \in {"pc", "served", "got"} |-> k[x]]
  BY <1>1 DEF FetchFields
<1> HIDE DEF k
<1>3. [k EXCEPT !.pc = pc] = [pc |-> pc, served |-> k.served, got |-> k.got]
  BY <1>2
<1> QED BY <1>3 DEF k

\* A fetch goes on to another call, or ends and takes the flag down.
LEMMA GoesKeeps ==
  ASSUME ViewInv, UNCHANGED OnPage, NEW f \in Fetches, NEW pc, NEW served, NEW got,
         fetch' = [fetch EXCEPT ![f] = [pc |-> pc, served |-> served, got |-> got]],
         shown' = [x \in ShownFields |-> shown'[x]],
         shown'.loading => pc \in Waiting
  PROVE  ViewInv'
<1>1. /\ fetch' = [g \in Fetches |-> fetch'[g]]
      /\ fetch'[f] = [pc |-> pc, served |-> served, got |-> got]
      /\ \A g \in Fetches \ {f} : fetch'[g] = fetch[g]
  BY DEF ViewInv, Shapes
<1>2. \A g \in Fetches : fetch'[g] = [x \in FetchFields |-> fetch'[g][x]]
  BY <1>1 DEF ViewInv, Shapes, FetchFields
<1>3. Shapes'
  BY <1>1, <1>2 DEF ViewInv, Shapes, OnPage
<1>4. FactoryLoads'
  BY <1>1 DEF FactoryLoads, Waiting
<1> QED BY <1>3, <1>4 DEF ViewInv, PageLoads, OnPage

LEMMA StartKeeps ==
  ASSUME ViewInv, UNCHANGED OnPage, NEW f \in Fetches, StartsFetch(f)
  PROVE  ViewInv'
<1>1. fetch' = [fetch EXCEPT ![f] = [pc |-> "count", served |-> fetch[f].served,
                                     got |-> fetch[f].got]]
  <2>1. fetch' = [fetch EXCEPT ![f] = [fetch[f] EXCEPT !.pc = "count"]]
    BY DEF StartsFetch
  <2>2. [fetch[f] EXCEPT !.pc = "count"]
          = [pc |-> "count", served |-> fetch[f].served, got |-> fetch[f].got]
    BY CallShape
  <2> QED BY <2>1, <2>2
<1>2. shown' = [x \in ShownFields |-> shown'[x]]
  BY DEF StartsFetch, ViewInv, Shapes, ShownFields
<1> QED BY <1>1, <1>2, GoesKeeps DEF Waiting

LEMMA ThrowKeeps ==
  ASSUME ViewInv, UNCHANGED OnPage, NEW f \in Fetches, FetchThrows(f)
  PROVE  ViewInv'
<1>1. /\ shown' = [x \in ShownFields |-> shown'[x]]
      /\ ~shown'.loading
  BY DEF FetchThrows, ViewInv, Shapes, ShownFields
<1> QED BY <1>1, GoesKeeps DEF FetchThrows, Goes

LEMMA AnswerKeeps ==
  ASSUME ViewInv, NEW f \in Fetches, FetchAnswered(f)
  PROVE  ViewInv'
<1>1. UNCHANGED OnPage
  BY DEF FetchAnswered, onPage, OnPage
<1>2. CASE FetchThrows(f)
  BY <1>1, <1>2, ThrowKeeps
<1>3. CASE Goes(f, "revenue") /\ shown' = shown
  <2>1. shown' = [x \in ShownFields |-> shown'[x]]
    BY <1>3 DEF ViewInv, Shapes
  <2> QED BY <1>1, <1>3, <2>1, GoesKeeps DEF Goes, Waiting
<1>4. CASE Goes(f, "charges") /\ shown' = [shown EXCEPT !.revenue = fetch[f].got]
  <2>1. shown' = [x \in ShownFields |-> shown'[x]]
    BY <1>4 DEF ViewInv, Shapes
  <2> QED BY <1>1, <1>4, <2>1, GoesKeeps DEF Goes, Waiting
<1>5. CASE Goes(f, "pool") /\ shown' = [shown EXCEPT !.charges = fetch[f].got]
  <2>1. shown' = [x \in ShownFields |-> shown'[x]]
    BY <1>5 DEF ViewInv, Shapes
  <2> QED BY <1>1, <1>5, <2>1, GoesKeeps DEF Goes, Waiting
<1>6. CASE Goes(f, "done") /\ shown' = [shown EXCEPT !.pool = fetch[f].got, !.loading = FALSE]
  <2>1. /\ shown' = [x \in ShownFields |-> shown'[x]]
        /\ ~shown'.loading
    BY <1>6 DEF ViewInv, Shapes, ShownFields
  <2> QED BY <1>1, <1>6, <2>1, GoesKeeps DEF Goes
<1> QED BY <1>2, <1>3, <1>4, <1>5, <1>6 DEF FetchAnswered

\* useSubscription asks, is answered, or is left without an answer.
LEMMA PageKeeps ==
  ASSUME ViewInv, UNCHANGED onFact,
         view' = [x \in ViewFields |-> view'[x]], view'.loading => pending' # {}
  PROVE  ViewInv'
  BY DEF ViewInv, Shapes, PageLoads, FactoryLoads, onFact, Waiting

LEMMA AskKeeps ==
  ASSUME ViewInv, NEW a \in Addresses, Switch(a) \/ Interval(a)
  PROVE  ViewInv'
<1>1. pending' # {}
  BY DEF Switch, Interval, Request, Asks
<1>2. view' = [x \in ViewFields |-> view'[x]]
  BY DEF ViewInv, Shapes, Switch, Interval
<1> QED BY <1>1, <1>2, PageKeeps DEF Switch, Interval

LEMMA ReplyKeeps ==
  ASSUME ViewInv, NEW r \in pending, Served(r) \/ Answered(r) \/ Unanswered(r)
  PROVE  ViewInv'
<1>1. CASE Served(r)
  <2>1. pending' # {} /\ view' = view
    BY <1>1 DEF Served
  <2> QED BY <1>1, <2>1, PageKeeps DEF Served, ViewInv, Shapes
<1>2. CASE Answered(r) \/ Unanswered(r)
  <2>1. /\ view' = [x \in ViewFields |-> view'[x]]
        /\ ~view'.loading
    BY <1>2 DEF ViewInv, Shapes, ViewFields, Answered, Unanswered
  <2> QED BY <1>2, <2>1, PageKeeps DEF Answered, Unanswered
<1> QED BY <1>1, <1>2

LEMMA StillKeeps == ASSUME ViewInv, UNCHANGED <<onPage, onFact>> PROVE ViewInv'
  BY DEF ViewInv, Shapes, PageLoads, FactoryLoads, onPage, onFact, Waiting

LEMMA StepInv == ViewInv /\ [Next]_vars => ViewInv'
<1> SUFFICES ASSUME ViewInv, [Next]_vars PROVE ViewInv'
  OBVIOUS
<1>1. CASE Contracts
  BY <1>1, StillKeeps DEF Contracts, FactoryCharged, FactoryAddsPlan, Arrives
<1>2. CASE (\E m \in Buttons : Click(m)) \/ Rejects
  BY <1>2, StillKeeps DEF Click, Rejects
<1>3. CASE Confirms
  <2>1. CASE UNCHANGED onFact
    BY <1>3, <2>1, StillKeeps DEF Confirms
  <2>2. CASE \E f \in Fetches : StartsFetch(f)
    <3>1. UNCHANGED OnPage
      BY <1>3 DEF Confirms, onPage, OnPage
    <3> QED BY <2>2, <3>1, StartKeeps
  <2> QED BY <1>3, <2>1, <2>2 DEF Confirms
<1>4. CASE \E a \in Addresses : Switch(a) \/ Interval(a)
  BY <1>4, AskKeeps
<1>5. CASE \E r \in pending : Served(r) \/ Answered(r) \/ Unanswered(r)
  BY <1>5, ReplyKeeps
<1>6. CASE FactoryView
  <2> PICK f \in Fetches : Refetch(f) \/ FetchServed(f) \/ FetchAnswered(f) \/ FetchFails(f)
    BY <1>6 DEF FactoryView
  <2>1. CASE Refetch(f)
    BY <2>1, StartKeeps DEF Refetch, onPage, OnPage
  <2>2. CASE FetchServed(f)
    <3>1. fetch' = [fetch EXCEPT ![f] = [pc |-> fetch[f].pc, served |-> TRUE,
                                         got |-> Value(fetch[f].pc)]]
      BY <2>2 DEF FetchServed
    <3>2. /\ UNCHANGED OnPage /\ shown' = shown
          /\ fetch[f].pc \in Waiting
      BY <2>2 DEF FetchServed, onPage, OnPage
    <3>3. shown' = [x \in ShownFields |-> shown'[x]]
      BY <3>2 DEF ViewInv, Shapes
    <3> QED BY <3>1, <3>2, <3>3, GoesKeeps
  <2>3. CASE FetchAnswered(f)
    BY <2>3, AnswerKeeps
  <2>4. CASE FetchFails(f)
    BY <2>4, ThrowKeeps DEF FetchFails, onPage, OnPage
  <2> QED BY <2>1, <2>2, <2>3, <2>4
<1>7. CASE UNCHANGED vars
  BY <1>7, StillKeeps DEF vars
<1> QED BY <1>1, <1>2, <1>3, <1>4, <1>5, <1>6, <1>7 DEF Next, User, Lost, Replies

\* Whatever overlaps, is refetched, switched, lost or throws, neither hook keeps
\* showing that it loads once nothing is under way (useSubscription, fetchFactory).
THEOREM NoLoadingForever == Spec => []LoadingIsAsked
<1>1. ViewInv => LoadingIsAsked
  BY DEF ViewInv, PageLoads, FactoryLoads, LoadingIsAsked
<1> QED BY <1>1, InitInv, StepInv, PTL DEF Spec
=============================================================================
