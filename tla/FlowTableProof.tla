--------------------------- MODULE FlowTableProof ---------------------------
(***************************************************************************)
(* What FlowTable guarantees for any number of worker threads, rows, flow  *)
(* structures and tuples.  The threads, tuples and lives of the flows are  *)
(* kept by every step; so the invariant IInv of FlowTableInv is inductive. *)
(* The properties of the flow table follow from it, or from it and a step  *)
(* of their own; and the table implements FlowLifecycle.                   *)
(***************************************************************************)
EXTENDS FlowTableInv

-----------------------------------------------------------------------------
(* The evicted flows, and the threads, tuples and lives of the flows. *)

\* The flow manager leaves a row only when it has no evicted flow left.
LEMMA EvictedInHandStep ==
    ASSUME TypeOK, EvictedInHand, [Next]_vars PROVE EvictedInHand'
<1>. Manager \in DOMAIN pc /\ Manager \notin Worker /\ Manager # Unix
  BY ThreadAssumption DEF TypeOK, Thread
<1>1. ASSUME evl' \subseteq evl, pc'[Manager] = pc[Manager] PROVE EvictedInHand'
  BY <1>1, Zenon DEF EvictedInHand
<1>2. ASSUME pc[Manager] \notin {"row", "evict"}, UNCHANGED evl PROVE EvictedInHand'
  BY <1>2, Zenon DEF EvictedInHand
<1>3. ASSUME NEW r \in Row, RowStart(r) PROVE EvictedInHand'
  BY <1>3, Zenon DEF EvictedInHand, RowStart, Goto
<1>4. ASSUME RowDone \/ EvictedDone PROVE EvictedInHand'
  BY <1>4, Zenon DEF EvictedInHand, RowDone, EvictedDone, Goto, fm
<1>5. ASSUME BatchStart \/ BatchDone \/ SentUnlock PROVE EvictedInHand'
  BY <1>2, <1>5, Zenon DEF BatchStart, BatchDone, SentUnlock, fm
<1>6. ASSUME NEW f \in Flow, SendToLocalThread(f) \/ AsideRecycle(f) PROVE EvictedInHand'
  BY <1>2, <1>6, Zenon DEF SendToLocalThread, AsideRecycle
<1>7. ASSUME NEW f \in Flow, RowKeepFlow(f) \/ RowTimeoutFlow(f) \/ ClearEvicted(f)
      PROVE  EvictedInHand'
  BY <1>1, <1>7, Zenon DEF RowKeepFlow, RowTimeoutFlow, ClearEvicted, fm
<1>8. ASSUME NEW w \in Worker, LookupFlow(w) PROVE EvictedInHand'
  BY <1>1, <1>8, Zenon DEF LookupFlow, LookupSkip, LookupTimedOut, LookupFound, LookupReuse, WalkOn, Goto, fm
<1>9. ASSUME NEW w \in Worker, NEW f \in Flow, \/ LookupNew(w, f) \/ TcpReuseReplace(w, f)
                                              \/ CheckWorkQueue(w, f)
      PROVE  EvictedInHand'
  BY <1>1, <1>9, Zenon DEF LookupNew, TcpReuseReplace, FlowInit, CheckWorkQueue, Goto, fm
<1>10. ASSUME NEW w \in Worker, \/ LookupNone(w) \/ ReuseNone(w) \/ FlowUpdateState(w)
                                \/ PacketDone(w)
       PROVE  EvictedInHand'
  BY <1>1, <1>10, Zenon DEF LookupNone, ReuseNone, FlowUpdateState, PacketDone, Goto, fm
<1>11. ASSUME NEW w \in Worker, \/ PacketNoFlow(w) \/ ProcessInjectedFlows(w)
                                \/ \E k \in Key : LookupStart(w, k)
       PROVE  EvictedInHand'
  BY <1>1, <1>11, Zenon DEF PacketNoFlow, ProcessInjectedFlows, LookupStart, Goto, fm
<1>12. ASSUME RecyclerStep \/ UnixStep \/ \E f \in Flow : FlowByIdRow(f) PROVE EvictedInHand'
  BY <1>1, <1>12, Zenon DEF RecyclerStep, RecyclerExtract, RecyclerFlow, UnixStep, FlowByIdLock, FlowByIdDone,
     FlowByIdRow, Goto, fm
<1>13. ASSUME (\E r \in Row : TimePasses(r)) \/ UNCHANGED vars PROVE EvictedInHand'
  BY <1>1, <1>13, Zenon DEF TimePasses, vars, fm
<1>. QED
  BY <1>3, <1>4, <1>5, <1>6, <1>7, <1>8, <1>9, <1>10, <1>11, <1>12, <1>13, Zenon DEF Next, WorkerStep, GetFlow,
     ManagerStep

\* A life begins with FlowInit and ends with LogAndClear: no other step touches the tuple,
\* the thread and the record of a flow, or the spare flows.
LEMMA Lives ==
    ASSUME [Next]_vars
    PROVE  \/ \E w \in Worker, f \in Flow :
                LookupNew(w, f) \/ TcpReuseReplace(w, f) \/ CheckWorkQueue(w, f)
           \/ \E f \in Flow : RecyclerFlow(f)
           \/ UNCHANGED <<key, owner, logged, spare>>
<1>1. ASSUME NEW w \in Worker, \/ ReuseNone(w) \/ ProcessInjectedFlows(w)
                               \/ \E f \in Flow : LookupTimedOut(w, f)
      PROVE  UNCHANGED <<key, owner, logged, spare>>
  BY <1>1, Zenon DEF ReuseNone, ProcessInjectedFlows, LookupTimedOut, flows
<1>2. ASSUME NEW f \in Flow, \/ RowTimeoutFlow(f) \/ ClearEvicted(f) \/ AsideRecycle(f)
                             \/ SendToLocalThread(f)
      PROVE  UNCHANGED <<key, owner, logged, spare>>
  BY <1>2, Zenon DEF RowTimeoutFlow, ClearEvicted, AsideRecycle, SendToLocalThread, flows
<1>3. ASSUME RecyclerExtract \/ \E r \in Row : RowStart(r)
      PROVE  UNCHANGED <<key, owner, logged, spare>>
  BY <1>3, Zenon DEF RecyclerExtract, RowStart, flows
<1>4. ASSUME UNCHANGED <<head, evicted, work, inject, spare, evl, aside, recycleQ, recList, flows>>
      PROVE  UNCHANGED <<key, owner, logged, spare>>
  BY <1>4 DEF flows
<1>. QED
  BY <1>1, <1>2, <1>3, <1>4, Frame, Zenon DEF ListStep

\* A new flow gets the thread that found it missing, or that of the flow it replaces.
LEMMA OwnedStep ==
    ASSUME TypeOK, FlowsLocked, Found, Owned, [Next]_vars PROVE Owned'
<1>. key \in [Flow -> Key \cup {None}] /\ owner \in [Flow -> Worker \cup {None}]
  BY Zenon DEF TypeOK
<1>1. ASSUME NEW w \in Worker, NEW f \in Flow, NEW tid \in Worker, FlowInit(w, f, tid)
      PROVE  Owned'
  BY <1>1, Zenon DEF Owned, FlowInit
<1>2. ASSUME NEW w \in Worker, NEW f \in Flow, LookupNew(w, f) PROVE Owned'
  BY <1>1, <1>2, Zenon DEF LookupNew
<1>3. ASSUME NEW w \in Worker, NEW f \in Flow, TcpReuseReplace(w, f) PROVE Owned'
  BY <1>3, InReuse, <1>1, Zenon DEF TcpReuseReplace, Owned
<1>4. ASSUME NEW f \in Flow, LogAndClear(f) PROVE Owned'
  BY <1>4, ThreadAssumption, Zenon DEF Owned, LogAndClear
<1>5. ASSUME UNCHANGED <<key, owner>> PROVE Owned'
  BY <1>5, Zenon DEF Owned
<1>. QED
  BY <1>2, <1>3, <1>4, <1>5, Lives, Zenon DEF CheckWorkQueue, RecyclerFlow

\* A flow is added to a row only after the whole row was found not to have its tuple, or
\* in the place of the one flow that had it.
LEMMA OneFlowStep ==
    ASSUME TypeOK, FlowsLocked, Found, OneFlowPerKey, [Next]_vars PROVE OneFlowPerKey'
<1>. head \in [Row -> SUBSET Flow] /\ key \in [Flow -> Key \cup {None}]
  BY Zenon DEF TypeOK
<1>1. ASSUME \A r \in Row : head'[r] \subseteq head[r],
             \A g \in Flow : key'[g] = key[g] \/ key'[g] = None
      PROVE  OneFlowPerKey'
  BY <1>1, ThreadAssumption DEF OneFlowPerKey
<1>2. ASSUME NEW w \in Worker, NEW f \in Flow, key' = [key EXCEPT ![f] = pkt[w]],
             \A r \in Row : r # row[w] => head'[r] = head[r] \ {f},
             head'[row[w]] \subseteq head[row[w]] \cup {f}, row[w] \in Row,
             \A g \in head'[row[w]] : g # f => key[g] # pkt[w]
      PROVE  OneFlowPerKey'
  BY <1>2 DEF OneFlowPerKey
<1>3. ASSUME NEW w \in Worker, NEW f \in Flow, LookupNew(w, f) PROVE OneFlowPerKey'
  <2>1. /\ w \in Thread /\ row[w] \in Row /\ walk[w] = {}
    BY <1>3, ThreadAssumption, Zenon DEF LookupNew, Found, WalkInRow, TypeOK, Thread
  <2>. QED
    BY <1>2, <2>1, <1>3, Zenon DEF LookupNew, Found, NonePassedBy, FlowInit
<1>4. ASSUME NEW w \in Worker, NEW f \in Flow, TcpReuseReplace(w, f) PROVE OneFlowPerKey'
  <2>1. /\ row[w] \in Row /\ cur[w] \in head[row[w]] /\ pkt[w] \in Key /\ key[cur[w]] = pkt[w]
    BY <1>4, InReuse, Zenon DEF TcpReuseReplace
  <2>2. \A g \in head[row[w]] : g # cur[w] => key[g] # pkt[w]
    BY <2>1 DEF OneFlowPerKey
  <2>. QED
    BY <1>2, <2>1, <2>2, <1>4, Zenon DEF TcpReuseReplace, FlowInit
<1>5. ASSUME NEW w \in Worker, ReuseNone(w) \/ \E f \in Flow : LookupTimedOut(w, f)
      PROVE  OneFlowPerKey'
  <2>1. /\ key' = key
        /\ \E f : head' = [head EXCEPT ![row[w]] = @ \ {f}]
    BY <1>5, Zenon DEF ReuseNone, LookupTimedOut
  <2>. QED
    BY <1>1, <2>1, Zenon
<1>6. ASSUME NEW f \in Flow, RowTimeoutFlow(f) PROVE OneFlowPerKey'
  BY <1>1, <1>6, Zenon DEF RowTimeoutFlow
<1>7. ASSUME NEW f \in Flow, (\E w \in Worker : CheckWorkQueue(w, f)) \/ RecyclerFlow(f)
      PROVE  OneFlowPerKey'
  BY <1>1, <1>7, Zenon DEF CheckWorkQueue, RecyclerFlow, LogAndClear, table
<1>8. ASSUME UNCHANGED <<head, key>> PROVE OneFlowPerKey'
  BY <1>8 DEF OneFlowPerKey
<1>9. ASSUME NEW f \in Flow, ClearEvicted(f) \/ SendToLocalThread(f) \/ AsideRecycle(f)
      PROVE  OneFlowPerKey'
  BY <1>8, <1>9, Zenon DEF ClearEvicted, SendToLocalThread, AsideRecycle, table, flows
<1>10. ASSUME \/ RecyclerExtract \/ \E w \in Worker : ProcessInjectedFlows(w)
              \/ \E r \in Row : RowStart(r)
       PROVE  OneFlowPerKey'
  BY <1>8, <1>10, Zenon DEF RecyclerExtract, ProcessInjectedFlows, RowStart, table, flows
<1>11. ASSUME UNCHANGED <<head, evicted, work, inject, spare, evl, aside, recycleQ, recList, flows>>
       PROVE  OneFlowPerKey'
  BY <1>8, <1>11, Zenon DEF flows
<1>. QED
  BY <1>3, <1>4, <1>5, <1>6, <1>7, <1>9, <1>10, <1>11, Frame, Zenon DEF ListStep

\* A flow is cleared on its way to the spare flows, and nobody locks it there.
LEMMA SpareUnusedStep ==
    ASSUME TypeOK, Lists, FlowsLocked, Found, SpareUnused, [Next]_vars PROVE SpareUnused'
<1>. /\ spare \subseteq Flow /\ lock \in [Flow -> Thread \cup {None}]
     /\ key \in [Flow -> Key \cup {None}] /\ owner \in [Flow -> Worker \cup {None}]
  BY Zenon DEF TypeOK
<1>1. ASSUME NEW w \in Worker, NEW f \in Flow, LookupNew(w, f) \/ TcpReuseReplace(w, f)
      PROVE  SpareUnused'
  <2>1. spare' = spare \ {f} /\ \A g \in spare' : lock'[g] = lock[g] \/ lock'[g] = None
    BY <1>1, Zenon DEF LookupNew, TcpReuseReplace, FlowInit
  <2>. QED
    BY <2>1, <1>1, Zenon DEF SpareUnused, LookupNew, TcpReuseReplace, FlowInit
<1>2. ASSUME NEW f \in Flow, (\E w \in Worker : CheckWorkQueue(w, f)) \/ RecyclerFlow(f)
      PROVE  SpareUnused'
  <2>1. /\ spare' = spare \cup {f} /\ lock' = lock /\ lock[f] = None
        /\ key' = [key EXCEPT ![f] = None] /\ owner' = [owner EXCEPT ![f] = None]
    BY <1>2, Zenon DEF CheckWorkQueue, RecyclerFlow, LogAndClear
  <2>. QED
    BY <2>1 DEF SpareUnused
<1>3. ASSUME UNCHANGED <<spare, key, owner>>, \A g \in spare : lock'[g] = lock[g] \/ lock'[g] = None
      PROVE  SpareUnused'
  BY <1>3, Zenon DEF SpareUnused
<1>4. ASSUME NEW f, NEW t, f \notin spare \/ t = None, lock' = [lock EXCEPT ![f] = t],
             UNCHANGED <<spare, key, owner>>
      PROVE  SpareUnused'
  BY <1>3, <1>4, Zenon
<1>5. ASSUME NEW w \in Worker, NEW f \in Flow, LookupFound(w, f) \/ LookupReuse(w, f)
      PROVE  SpareUnused'
  <2>1. f \notin spare
    BY <1>5, InWalk, Zenon DEF LookupFound, LookupReuse, Lists, Thread
  <2>. QED
    BY <1>4, <1>5, <2>1, Zenon DEF LookupFound, LookupReuse, flows
<1>6. ASSUME NEW f \in Flow, RowTimeoutFlow(f) \/ ClearEvicted(f) PROVE SpareUnused'
  BY <1>6, InWalk, <1>4, Zenon DEF RowTimeoutFlow, ClearEvicted, Lists, Thread
<1>7. ASSUME FlowByIdLock PROVE SpareUnused'
  <2>1. cur[Unix] \in Flow /\ row[Unix] \in Row /\ cur[Unix] \in head[row[Unix]]
    BY <1>7, ThreadAssumption DEF FlowByIdLock, Found, WantedInRow, TypeOK, Thread
  <2>. QED
    BY <1>4, <1>7, <2>1, Zenon DEF FlowByIdLock, flows, Lists
<1>8. ASSUME NEW w \in Worker, ReuseNone(w) \/ PacketDone(w) PROVE SpareUnused'
  BY <1>4, <1>8, Zenon DEF ReuseNone, PacketDone, flows
<1>9. ASSUME SentUnlock \/ FlowByIdDone \/ \E f \in Flow : AsideRecycle(f) PROVE SpareUnused'
  BY <1>4, <1>9, Zenon DEF SentUnlock, FlowByIdDone, AsideRecycle, flows
<1>10. ASSUME UNCHANGED <<spare, key, owner, lock>> PROVE SpareUnused'
  BY <1>3, <1>10, Zenon
<1>11. ASSUME NEW w \in Worker, \/ FlowUpdateState(w) \/ LookupNone(w)
                                \/ \E f \in Flow : LookupSkip(w, f) \/ LookupTimedOut(w, f)
       PROVE  SpareUnused'
  BY <1>10, <1>11, Zenon DEF FlowUpdateState, LookupNone, LookupSkip, LookupTimedOut, flows
<1>12. ASSUME NEW w \in Worker, \/ PacketNoFlow(w) \/ ProcessInjectedFlows(w)
                                \/ \E k \in Key : LookupStart(w, k)
       PROVE  SpareUnused'
  BY <1>10, <1>12, Zenon DEF PacketNoFlow, ProcessInjectedFlows, LookupStart, flows
<1>13. ASSUME BatchStart \/ RowDone \/ EvictedDone \/ BatchDone PROVE SpareUnused'
  BY <1>10, <1>13, Zenon DEF BatchStart, RowDone, EvictedDone, BatchDone, flows
<1>14. ASSUME RecyclerExtract \/ \E f \in Flow : \/ RowKeepFlow(f) \/ SendToLocalThread(f)
                                                \/ FlowByIdRow(f)
       PROVE  SpareUnused'
  BY <1>10, <1>14, Zenon DEF RecyclerExtract, RowKeepFlow, SendToLocalThread, FlowByIdRow, flows
<1>15. ASSUME (\E r \in Row : RowStart(r) \/ TimePasses(r)) \/ UNCHANGED vars PROVE SpareUnused'
  BY <1>10, <1>15, Zenon DEF RowStart, TimePasses, vars, flows
<1>. QED
  BY <1>1, <1>2, <1>5, <1>6, <1>7, <1>8, <1>9, <1>11, <1>12, <1>13, <1>14, <1>15, Zenon DEF Next, WorkerStep,
     LookupFlow, GetFlow, ManagerStep, RecyclerStep, UnixStep

\* Where a flow is not, by where it is.
LEMMA NewElsewhere ==
    ASSUME Lists, NEW f \in Flow, FlowGetNew(f)
    PROVE  \A v \in Worker : f \notin work[v] /\ f \notin inject[v]
  BY Zenon DEF Lists, FlowGetNew, UsedFlow
LEMMA WorkElsewhere ==
    ASSUME Lists, NEW w \in Worker, NEW f \in Flow, f \in work[w]
    PROVE  f \notin spare /\ \A v \in Worker : f \notin inject[v] /\ (v # w => f \notin work[v])
  BY Zenon DEF Lists
LEMMA RecElsewhere ==
    ASSUME Lists, NEW f \in Flow, f \in recList
    PROVE  f \notin spare /\ \A v \in Worker : f \notin work[v] /\ f \notin inject[v]
  BY Zenon DEF Lists

\* MoveToWorkQueue keeps only flows of its thread, and the flow manager sends a flow to
\* the thread of the flow.
LEMMA FinishedByOwnerStep ==
    ASSUME TypeOK, Lists, FlowsLocked, Found, FinishedByOwner, [Next]_vars PROVE FinishedByOwner'
<1>. /\ key \in [Flow -> Key \cup {None}] /\ owner \in [Flow -> Worker \cup {None}]
     /\ work \in [Worker -> SUBSET Flow] /\ inject \in [Worker -> SUBSET Flow]
  BY Zenon DEF TypeOK
<1>1. ASSUME NEW w \in Worker, NEW f, MoveToWorkQueue(w, f), UNCHANGED <<key, owner, inject>>
      PROVE  FinishedByOwner'
  BY <1>1 DEF FinishedByOwner, FlowBelongsToUs, MoveToWorkQueue
<1>2. ASSUME NEW w \in Worker, ReuseNone(w) \/ \E f \in Flow : LookupTimedOut(w, f)
      PROVE  FinishedByOwner'
  BY <1>1, <1>2, Zenon DEF ReuseNone, LookupTimedOut
<1>3. ASSUME NEW w \in Worker, NEW f \in Flow, LookupNew(w, f) PROVE FinishedByOwner'
  BY <1>3, NewElsewhere DEF LookupNew, FlowInit, FinishedByOwner, FlowBelongsToUs
<1>4. ASSUME NEW w \in Worker, NEW f \in Flow, TcpReuseReplace(w, f) PROVE FinishedByOwner'
  <2>1. \A v \in Worker : f \notin work[v] /\ f \notin inject[v]
    BY <1>4, NewElsewhere, Zenon DEF TcpReuseReplace
  <2>2. lock[f] = None /\ lock[cur[w]] = w /\ w # None /\ cur[w] \in Flow
    BY <1>4, InReuse, ThreadAssumption, Zenon DEF TcpReuseReplace, FlowInit, Thread
  <2>3. inject' = inject /\ \A g \in Flow : g # f => key'[g] = key[g] /\ owner'[g] = owner[g]
    BY <1>4, Zenon DEF TcpReuseReplace, FlowInit
  <2>4. CASE FlowBelongsToUs(w, cur[w]) /\ work' = [work EXCEPT ![w] = @ \cup {cur[w]}]
    BY <2>1, <2>2, <2>3, <2>4 DEF FinishedByOwner, FlowBelongsToUs
  <2>5. CASE work' = work
    BY <2>1, <2>2, <2>3, <2>5 DEF FinishedByOwner, FlowBelongsToUs
  <2>. QED
    BY <1>4, <2>4, <2>5, Zenon DEF TcpReuseReplace, FlowBelongsToUs
<1>5. ASSUME NEW w \in Worker, ProcessInjectedFlows(w) PROVE FinishedByOwner'
  BY <1>5, Zenon DEF ProcessInjectedFlows, flows, FinishedByOwner, FlowBelongsToUs
<1>6. ASSUME NEW w \in Worker, NEW f \in Flow, CheckWorkQueue(w, f) PROVE FinishedByOwner'
  BY <1>6, WorkElsewhere DEF CheckWorkQueue, LogAndClear, FinishedByOwner, FlowBelongsToUs
<1>7. ASSUME NEW f \in Flow, RecyclerFlow(f) PROVE FinishedByOwner'
  BY <1>7, RecElsewhere DEF RecyclerFlow, LogAndClear, FinishedByOwner, FlowBelongsToUs
<1>8. ASSUME NEW f \in Flow, SendToLocalThread(f) PROVE FinishedByOwner'
  BY <1>8, Zenon DEF SendToLocalThread, flows, FinishedByOwner, FlowBelongsToUs
<1>9. ASSUME UNCHANGED <<work, inject, key, owner>> PROVE FinishedByOwner'
  BY <1>9, Zenon DEF FinishedByOwner, FlowBelongsToUs
<1>10. ASSUME NEW f \in Flow, RowTimeoutFlow(f) \/ ClearEvicted(f) \/ AsideRecycle(f)
       PROVE  FinishedByOwner'
  BY <1>9, <1>10, Zenon DEF RowTimeoutFlow, ClearEvicted, AsideRecycle, flows
<1>11. ASSUME RecyclerExtract \/ \E r \in Row : RowStart(r) PROVE FinishedByOwner'
  BY <1>9, <1>11, Zenon DEF RecyclerExtract, RowStart, flows
<1>12. ASSUME UNCHANGED <<head, evicted, work, inject, spare, evl, aside, recycleQ, recList, flows>>
       PROVE  FinishedByOwner'
  BY <1>9, <1>12, Zenon DEF flows
<1>. QED
  BY <1>2, <1>3, <1>4, <1>5, <1>6, <1>7, <1>8, <1>10, <1>11, <1>12, Frame, Zenon DEF ListStep

\* A flow record is written on the way to the spare flows, and by nobody else.

\* A flow record is written on the way to the spare flows, and by nobody else.
LEMMA LoggedOnceStep ==
    ASSUME TypeOK, Lists, LoggedOnce, [Next]_vars PROVE LoggedOnce'
<1>. logged \in [Flow -> Nat]
  BY Zenon DEF TypeOK
<1>1. ASSUME NEW f \in Flow, f \notin spare, spare' = spare \cup {f},
             logged' = [logged EXCEPT ![f] = @ + 1]
      PROVE  LoggedOnce'
  BY <1>1 DEF LoggedOnce
<1>2. ASSUME NEW f \in Flow, (\E w \in Worker : CheckWorkQueue(w, f)) \/ RecyclerFlow(f)
      PROVE  LoggedOnce'
  BY <1>2, WorkElsewhere, RecElsewhere, <1>1, Zenon DEF CheckWorkQueue, RecyclerFlow, LogAndClear
<1>3. ASSUME NEW w \in Worker, NEW f \in Flow, LookupNew(w, f) \/ TcpReuseReplace(w, f)
      PROVE  LoggedOnce'
  <2>1. spare' = spare \ {f} /\ logged' = [logged EXCEPT ![f] = 0]
    BY <1>3, Zenon DEF LookupNew, TcpReuseReplace, FlowInit
  <2>. QED
    BY <2>1 DEF LoggedOnce
<1>4. ASSUME UNCHANGED <<spare, logged>> PROVE LoggedOnce'
  BY <1>4, Zenon DEF LoggedOnce
<1>. QED
  BY <1>2, <1>3, <1>4, Lives, Zenon

\* Whoever adds a flow to a row makes the row due.
LEMMA NeverMeansEmptyStep ==
    ASSUME TypeOK, NeverMeansEmpty, [Next]_vars PROVE NeverMeansEmpty'
<1>. /\ head \in [Row -> SUBSET Flow] /\ evicted \in [Row -> SUBSET Flow]
     /\ nextTs \in [Row -> {"due", "later", "never"}]
     /\ \A t \in Thread : pc[t] \in {"walk", "new", "reuse", "row"} => row[t] \in Row
  BY ThreadAssumption, Zenon DEF TypeOK
<1>. Manager \in Thread /\ \A w \in Worker : w \in Thread
  BY Zenon DEF Thread
<1>1. ASSUME UNCHANGED <<head, evicted>>, \A r \in Row : nextTs'[r] \in {nextTs[r], "due"}
      PROVE  NeverMeansEmpty'
  BY <1>1, Zenon DEF NeverMeansEmpty
<1>2. ASSUME NEW w \in Worker, NEW f, row[w] \in Row, MoveToWorkQueue(w, f),
             head' = [head EXCEPT ![row[w]] = @ \ {f}]
      PROVE  NeverMeansEmpty'
  BY <1>2, Zenon DEF NeverMeansEmpty, MoveToWorkQueue, FlowBelongsToUs
<1>3. ASSUME NEW w \in Worker, ReuseNone(w) \/ \E f \in Flow : LookupTimedOut(w, f)
      PROVE  NeverMeansEmpty'
  BY <1>2, <1>3, Zenon DEF ReuseNone, LookupTimedOut
<1>4. ASSUME NEW w \in Worker, NEW f \in Flow, LookupNew(w, f) PROVE NeverMeansEmpty'
  BY <1>4, Zenon DEF LookupNew, NeverMeansEmpty
<1>5. ASSUME NEW w \in Worker, NEW f \in Flow, TcpReuseReplace(w, f) PROVE NeverMeansEmpty'
  BY <1>5, Zenon DEF TcpReuseReplace, FlowBelongsToUs, NeverMeansEmpty
<1>6. ASSUME NEW r \in Row, RowStart(r) PROVE NeverMeansEmpty'
  BY <1>6, Zenon DEF NeverMeansEmpty, RowStart
<1>7. ASSUME NEW f \in Flow, RowTimeoutFlow(f) PROVE NeverMeansEmpty'
  BY <1>7, Zenon DEF NeverMeansEmpty, RowTimeoutFlow
<1>8. ASSUME RowDone PROVE NeverMeansEmpty'
  BY <1>8, Zenon DEF RowDone, NeverMeansEmpty
<1>9. ASSUME NEW w \in Worker, NEW f \in Flow,
             \/ LookupSkip(w, f) \/ LookupFound(w, f) \/ LookupReuse(w, f) \/ CheckWorkQueue(w, f)
      PROVE  NeverMeansEmpty'
  BY <1>1, <1>9, Zenon DEF LookupSkip, LookupFound, LookupReuse, CheckWorkQueue, table
<1>10. ASSUME NEW w \in Worker, LookupNone(w) \/ PacketDone(w) \/ ProcessInjectedFlows(w)
       PROVE  NeverMeansEmpty'
  BY <1>1, <1>10, Zenon DEF LookupNone, PacketDone, ProcessInjectedFlows, table
<1>11. ASSUME NEW w \in Worker, \/ FlowUpdateState(w) \/ PacketNoFlow(w)
                                \/ \E k \in Key : LookupStart(w, k)
       PROVE  NeverMeansEmpty'
  BY <1>1, <1>11, Zenon DEF FlowUpdateState, PacketNoFlow, LookupStart, table
<1>12. ASSUME BatchStart \/ EvictedDone \/ BatchDone \/ SentUnlock PROVE NeverMeansEmpty'
  BY <1>1, <1>12, Zenon DEF BatchStart, EvictedDone, BatchDone, SentUnlock, table
<1>13. ASSUME NEW f \in Flow, \/ RowKeepFlow(f) \/ ClearEvicted(f) \/ SendToLocalThread(f)
                              \/ AsideRecycle(f)
       PROVE  NeverMeansEmpty'
  BY <1>1, <1>13, Zenon DEF RowKeepFlow, ClearEvicted, SendToLocalThread, AsideRecycle, table
<1>14. ASSUME RecyclerStep \/ UnixStep \/ \E f \in Flow : FlowByIdRow(f) PROVE NeverMeansEmpty'
  BY <1>1, <1>14, Zenon DEF RecyclerStep, RecyclerExtract, RecyclerFlow, UnixStep, FlowByIdLock, FlowByIdDone,
     FlowByIdRow, table
<1>15. ASSUME NEW r \in Row, TimePasses(r) PROVE NeverMeansEmpty'
  BY <1>1, <1>15, Zenon DEF TimePasses
<1>16. CASE UNCHANGED vars
  BY <1>1, <1>16, Zenon DEF vars, table
<1>. QED
  BY <1>3, <1>4, <1>5, <1>6, <1>7, <1>8, <1>9, <1>10, <1>11, <1>12, <1>13, <1>14, <1>15, <1>16, Zenon DEF Next,
     WorkerStep, LookupFlow, GetFlow, ManagerStep

-----------------------------------------------------------------------------
(* The invariant holds. *)

LEMMA InvInit == Init => IInv
<1>. SUFFICES ASSUME Init PROVE IInv
  OBVIOUS
<1>. USE ThreadAssumption, KeyAssumption
<1>1. Owned /\ EvictedInHand /\ RowsLocked /\ OneFlowPerKey /\ SpareUnused
  BY Zenon DEF Init, Owned, EvictedInHand, RowsLocked, OneFlowPerKey, SpareUnused, Thread
<1>2. FlowsLocked /\ Found
  BY Zenon DEF Init, FlowsLocked, Found, WalkInRow, PacketRow, PacketFlow, NonePassedBy, WantedInRow, Thread
<1>. QED
  BY <1>1, <1>2, TypeInit, Zenon DEF IInv, Init, ListInv, Lists, Listed, FbRow

LEMMA InvStep ==
    ASSUME IInv, [Next]_vars PROVE IInv'
<1>1. Owned' /\ EvictedInHand' /\ OneFlowPerKey' /\ SpareUnused'
  BY OwnedStep, EvictedInHandStep, OneFlowStep, SpareUnusedStep, Zenon DEF IInv, ListInv
<1>. QED
  BY TypeStep, ListsStep, RowsLockedStep, FlowsLockedStep, FoundStep, <1>1, Zenon DEF IInv, ListInv

\* IInv is an invariant of the flow table.
THEOREM Invariance == Spec => []IInv
<1>1. IInv /\ UNCHANGED vars => IInv'
  BY InvStep
<1>. QED
  BY InvInit, InvStep, PTL DEF Spec

-----------------------------------------------------------------------------
(* The properties of the flow table. *)

\* The type invariant: in particular a thread has a row locked, and a flow in hand,
\* exactly where the code of FlowGetFlowFromHash, FlowTimeoutHash and the others has.
THEOREM TypeCorrect == Spec => []TypeOK
  BY Invariance, PTL DEF IInv

LEMMA OnePlace ==
    ASSUME Lists, Listed, NEW f \in Flow PROVE \E p : Places(f) = {p}
<1>. DEFINE Q == <<spare, evl, aside, recycleQ, recList>>
<1>1. Q[1] = spare /\ Q[2] = evl /\ Q[3] = aside /\ Q[4] = recycleQ /\ Q[5] = recList
  OBVIOUS
<1>. DEFINE H == {r \in Row : f \in head[r]}
           E == {r \in Row : f \in evicted[r]}
           W == {w \in Worker : f \in work[w]}
           I == {w \in Worker : f \in inject[w]}
           K == {q \in 1..5 : f \in Q[q]}
<1>2. Places(f) = {<<"head", r>> : r \in H} \cup {<<"evicted", r>> : r \in E}
          \cup {<<"work", w>> : w \in W} \cup {<<"inject", w>> : w \in I}
          \cup {<<"queue", q>> : q \in K}
  BY Zenon DEF Places
<1>3. \/ \E r : H = {r} /\ E = {} /\ W = {} /\ I = {} /\ K = {}
      \/ \E r : H = {} /\ E = {r} /\ W = {} /\ I = {} /\ K = {}
      \/ \E w : H = {} /\ E = {} /\ W = {w} /\ I = {} /\ K = {}
      \/ \E w : H = {} /\ E = {} /\ W = {} /\ I = {w} /\ K = {}
      \/ \E q : H = {} /\ E = {} /\ W = {} /\ I = {} /\ K = {q}
  <2>1. CASE \E r \in Row : f \in head[r]
    <3>1. PICK r \in Row : f \in head[r]
      BY <2>1
    <3>2. H = {r} /\ E = {} /\ W = {} /\ I = {}
      BY <3>1, Zenon DEF Lists
    <3>3. K = {}
      BY <3>1, <1>1 DEF Lists
    <3>. QED
      BY <3>2, <3>3, Zenon
  <2>2. CASE \E r \in Row : f \in evicted[r]
    <3>1. PICK r \in Row : f \in evicted[r]
      BY <2>2
    <3>2. H = {} /\ E = {r} /\ W = {} /\ I = {}
      BY <3>1, Zenon DEF Lists
    <3>3. K = {}
      BY <3>1, <1>1 DEF Lists
    <3>. QED
      BY <3>2, <3>3, Zenon
  <2>3. CASE \E w \in Worker : f \in work[w]
    <3>1. PICK w \in Worker : f \in work[w]
      BY <2>3
    <3>2. H = {} /\ E = {} /\ W = {w} /\ I = {}
      BY <3>1 DEF Lists
    <3>3. K = {}
      BY <3>1, <1>1 DEF Lists
    <3>. QED
      BY <3>2, <3>3, Zenon
  <2>4. CASE \E w \in Worker : f \in inject[w]
    <3>1. PICK w \in Worker : f \in inject[w]
      BY <2>4
    <3>2. H = {} /\ E = {} /\ W = {} /\ I = {w}
      BY <3>1, Zenon DEF Lists
    <3>3. K = {}
      BY <3>1, <1>1 DEF Lists
    <3>. QED
      BY <3>2, <3>3, Zenon
  <2>5. CASE f \in spare \cup evl \cup aside \cup recycleQ \cup recList
    <3>1. \E q : K = {q}
      <4>1. ASSUME f \in spare PROVE K = {1}
        BY <4>1, <1>1 DEF Lists
      <4>2. ASSUME f \in evl PROVE K = {2}
        BY <4>2, <1>1 DEF Lists
      <4>3. ASSUME f \in aside PROVE K = {3}
        BY <4>3, <1>1 DEF Lists
      <4>4. ASSUME f \in recycleQ PROVE K = {4}
        BY <4>4, <1>1 DEF Lists
      <4>5. ASSUME f \in recList PROVE K = {5}
        BY <4>5, <1>1 DEF Lists
      <4>. QED
        BY <2>5, <4>1, <4>2, <4>3, <4>4, <4>5, Zenon
    <3>. QED
      BY <2>5, <3>1, Zenon DEF Lists
  <2>. QED
    BY <2>1, <2>2, <2>3, <2>4, <2>5, Zenon DEF Listed
<1>. HIDE DEF H, E, W, I, K
<1>4. ASSUME NEW x, H = {x} /\ E = {} /\ W = {} /\ I = {} /\ K = {}
      PROVE  \E p : Places(f) = {p}
  <2>1. Places(f) = {<<"head", x>>}
    BY <1>2, <1>4
  <2>. QED
    BY <2>1, Zenon
<1>5. ASSUME NEW x, H = {} /\ E = {x} /\ W = {} /\ I = {} /\ K = {}
      PROVE  \E p : Places(f) = {p}
  <2>1. Places(f) = {<<"evicted", x>>}
    BY <1>2, <1>5
  <2>. QED
    BY <2>1, Zenon
<1>6. ASSUME NEW x, H = {} /\ E = {} /\ W = {x} /\ I = {} /\ K = {}
      PROVE  \E p : Places(f) = {p}
  <2>1. Places(f) = {<<"work", x>>}
    BY <1>2, <1>6
  <2>. QED
    BY <2>1, Zenon
<1>7. ASSUME NEW x, H = {} /\ E = {} /\ W = {} /\ I = {x} /\ K = {}
      PROVE  \E p : Places(f) = {p}
  <2>1. Places(f) = {<<"inject", x>>}
    BY <1>2, <1>7
  <2>. QED
    BY <2>1, Zenon
<1>8. ASSUME NEW x, H = {} /\ E = {} /\ W = {} /\ I = {} /\ K = {x}
      PROVE  \E p : Places(f) = {p}
  <2>1. Places(f) = {<<"queue", x>>}
    BY <1>2, <1>8
  <2>. QED
    BY <2>1, Zenon
<1>. QED
  BY <1>3, <1>4, <1>5, <1>6, <1>7, <1>8, Zenon

\* The one next pointer of a flow links it into one list: no thread ever loses a flow
\* or leaves it on two of the row lists, the queues and the spare flows.
THEOREM EveryFlowOnOneList == Spec => []OnOneList
<1>1. IInv => OnOneList
  BY OnePlace, Zenon DEF IInv, ListInv, OnOneList
<1>. QED
  BY <1>1, Invariance, PTL

\* The flow that FlowGetFlowFromHash returns stays locked, in its row and with its
\* tuple until the worker unlocks it, whatever the flow manager, the recycler, the
\* other workers and FlowGetUsedFlow do.
THEOREM PacketFlowStays == Spec => []PacketFlowInHash
<1>1. IInv => PacketFlowInHash
  BY Zenon DEF IInv, Found, PacketFlow, FlowsLocked, PacketFlowInHash
<1>. QED
  BY <1>1, Invariance, PTL

\* FlowUpdateState, which follows fb without a row lock, reaches the row of the flow.
THEOREM FbReachesRow == Spec => []FbNamesRow
<1>1. IInv => FbNamesRow
  BY KeyAssumption DEF IInv, ListInv, Found, PacketFlow, FbRow, FbNamesRow
<1>. QED
  BY <1>1, Invariance, PTL

\* FlowGetFlowFromHash never makes a second flow for a tuple that has one.
THEOREM NoDuplicateFlows == Spec => []OneFlowPerKey
  BY Invariance, PTL DEF IInv

\* No walk of a row, by a worker or by the flow manager, is led out of it.
THEOREM WalksStay == Spec => []WalkStaysInRow
<1>1. IInv => WalkStaysInRow
  BY Zenon DEF IInv, Found, WalkInRow, RowsLocked, WalkStaysInRow, TypeOK
<1>. QED
  BY <1>1, Invariance, PTL

\* A flow that FlowGetNew takes from the spare flows holds nothing of its last life.
THEOREM SparesClean == Spec => []SpareFlowsClean
<1>1. IInv => SpareFlowsClean
  BY Zenon DEF IInv, ListInv, Lists, FbRow, SpareUnused, SpareFlowsClean, TypeOK
<1>. QED
  BY <1>1, Invariance, PTL

\* CheckWorkQueue only ever finishes TCP flows of its own thread.
THEOREM FinishedBySelf == Spec => []FinishedByOwner
<1>1. Init => FinishedByOwner
  BY Zenon DEF Init, FinishedByOwner, FlowBelongsToUs
<1>2. IInv /\ FinishedByOwner /\ [Next]_vars => FinishedByOwner'
  BY FinishedByOwnerStep DEF IInv, ListInv
<1>. QED
  BY <1>1, <1>2, Invariance, PTL DEF Spec

\* Every life of a flow is reported once, at its end, by whichever thread ends it.
THEOREM OneRecordPerLife == Spec => []LoggedOnce
<1>1. Init => LoggedOnce
  <2>. SUFFICES ASSUME Init, NEW f \in Flow
                PROVE  logged[f] <= 1 /\ (f \notin spare => logged[f] = 0)
    BY Zenon DEF LoggedOnce
  <2>. QED
    BY DEF Init
<1>2. IInv /\ LoggedOnce /\ [Next]_vars => LoggedOnce'
  BY LoggedOnceStep DEF IInv, ListInv
<1>. QED
  BY <1>1, <1>2, Invariance, PTL DEF Spec

\* A row that the flow manager passes over as empty has no flow to time out.
THEOREM EmptyRowsOnly == Spec => []NeverMeansEmpty
<1>1. Init => NeverMeansEmpty
  BY Zenon DEF Init, NeverMeansEmpty
<1>2. IInv /\ NeverMeansEmpty /\ [Next]_vars => NeverMeansEmpty'
  BY NeverMeansEmptyStep DEF IInv, ListInv
<1>. QED
  BY <1>1, <1>2, Invariance, PTL DEF Spec

-----------------------------------------------------------------------------
(* The flow table implements FlowLifecycle. *)

\* A flow in a row has a tuple that hashes to this row.
HeadKeys ==
    \A r \in Row : \A f \in head[r] : key[f] \in Key /\ hash[key[f]] = r

InHash(f) == \E r \in Row : f \in head[r]

\* A flow gets its tuple as it enters the row, and loses it only after it left.
LEMMA HeadKeysStep ==
    ASSUME TypeOK, Lists, FlowsLocked, Found, HeadKeys, [Next]_vars PROVE HeadKeys'
<1>. head \in [Row -> SUBSET Flow] /\ key \in [Flow -> Key \cup {None}]
  BY Zenon DEF TypeOK
<1>1. ASSUME \A r \in Row : head'[r] \subseteq head[r],
             \A g \in Flow : InHash(g) => key'[g] = key[g]
      PROVE  HeadKeys'
  BY <1>1 DEF HeadKeys, InHash
<1>2. ASSUME NEW w \in Worker, NEW f \in Flow, key' = [key EXCEPT ![f] = pkt[w]],
             \A r \in Row : r # row[w] => head'[r] = head[r] \ {f},
             head'[row[w]] \subseteq head[row[w]] \cup {f}, row[w] \in Row,
             pkt[w] \in Key, row[w] = hash[pkt[w]]
      PROVE  HeadKeys'
  BY <1>2 DEF HeadKeys
<1>3. ASSUME NEW w \in Worker, NEW f \in Flow, LookupNew(w, f) PROVE HeadKeys'
  <2>1. /\ w \in Thread /\ row[w] \in Row /\ pkt[w] \in Key /\ row[w] = hash[pkt[w]]
    BY <1>3, KeyAssumption, Zenon DEF LookupNew, Found, PacketRow, Thread
  <2>. QED
    BY <1>2, <1>3, <2>1, Zenon DEF LookupNew, FlowInit
<1>4. ASSUME NEW w \in Worker, NEW f \in Flow, TcpReuseReplace(w, f) PROVE HeadKeys'
  <2>1. /\ row[w] \in Row /\ pkt[w] \in Key /\ row[w] = hash[pkt[w]]
    BY <1>4, KeyAssumption, Zenon DEF TcpReuseReplace, Found, PacketRow
  <2>. QED
    BY <1>2, <2>1, <1>4, Zenon DEF TcpReuseReplace, FlowInit
<1>5. ASSUME NEW w \in Worker, ReuseNone(w) \/ \E f \in Flow : LookupTimedOut(w, f)
      PROVE  HeadKeys'
  <2>1. /\ key' = key
        /\ \E f : head' = [head EXCEPT ![row[w]] = @ \ {f}]
    BY <1>5, Zenon DEF ReuseNone, LookupTimedOut
  <2>. QED
    BY <1>1, <2>1, Zenon
<1>6. ASSUME NEW f \in Flow, RowTimeoutFlow(f) PROVE HeadKeys'
  BY <1>1, <1>6, Zenon DEF RowTimeoutFlow
<1>7. ASSUME NEW f \in Flow, (\E w \in Worker : CheckWorkQueue(w, f)) \/ RecyclerFlow(f)
      PROVE  HeadKeys'
  <2>1. ~InHash(f)
    BY <1>7, Zenon DEF CheckWorkQueue, RecyclerFlow, Lists, InHash
  <2>. QED
    BY <1>1, <1>7, <2>1, Zenon DEF CheckWorkQueue, RecyclerFlow, LogAndClear, table
<1>8. ASSUME UNCHANGED <<head, key>> PROVE HeadKeys'
  BY <1>8, Zenon DEF HeadKeys
<1>9. ASSUME NEW f \in Flow, ClearEvicted(f) \/ SendToLocalThread(f) \/ AsideRecycle(f)
      PROVE  HeadKeys'
  BY <1>8, <1>9, Zenon DEF ClearEvicted, SendToLocalThread, AsideRecycle, table, flows
<1>10. ASSUME \/ RecyclerExtract \/ \E w \in Worker : ProcessInjectedFlows(w)
              \/ \E r \in Row : RowStart(r)
       PROVE  HeadKeys'
  BY <1>8, <1>10, Zenon DEF RecyclerExtract, ProcessInjectedFlows, RowStart, table, flows
<1>11. ASSUME UNCHANGED <<head, evicted, work, inject, spare, evl, aside, recycleQ, recList, flows>>
       PROVE  HeadKeys'
  BY <1>8, <1>11, Zenon DEF flows
<1>. QED
  BY <1>3, <1>4, <1>5, <1>6, <1>7, <1>9, <1>10, <1>11, Frame, Zenon DEF ListStep

\* What a flow is, seen from outside, before and after a step.
LEMMA Status ==
    /\ \A f \in Flow : /\ InHash(f) => stBar[f] = key[f]
                       /\ ~InHash(f) /\ f \in spare => stBar[f] = "free"
                       /\ ~InHash(f) /\ f \notin spare => stBar[f] = "ending"
    /\ DOMAIN stBar = Flow /\ stBar = [f \in Flow |-> stBar[f]]
  BY Zenon DEF stBar, InHash

LEMMA StatusNext ==
    /\ \A f \in Flow : /\ InHash(f)' => stBar'[f] = key'[f]
                       /\ ~InHash(f)' /\ f \in spare' => stBar'[f] = "free"
                       /\ ~InHash(f)' /\ f \notin spare' => stBar'[f] = "ending"
    /\ DOMAIN stBar' = Flow /\ stBar' = [f \in Flow |-> stBar'[f]]
  BY Zenon DEF stBar, InHash

\* A flow leaves its row: an end.
LEMMA EndStep ==
    ASSUME TypeOK, Lists, HeadKeys, NEW f \in Flow, NEW r \in Row, f \in head[r],
           head' = [head EXCEPT ![r] = @ \ {f}], UNCHANGED <<key, spare>>
    PROVE  Lifecycle!Next
<1>. head \in [Row -> SUBSET Flow]
  BY Zenon DEF TypeOK
<1>1. ~InHash(f)' /\ f \notin spare'
  BY Zenon DEF Lists, InHash
<1>. QED
  BY Status, StatusNext, <1>1 DEF Lifecycle!Next, Lifecycle!End, HeadKeys, InHash

\* A flow that has left its row is reported, cleared and spare again: a finish.
LEMMA FinishStep ==
    ASSUME TypeOK, Lists, NEW f \in Flow, f \notin spare, ~InHash(f), LogAndClear(f),
           head' = head, spare' = spare \cup {f}
    PROVE  Lifecycle!Next
<1>. key \in [Flow -> Key \cup {None}]
  BY Zenon DEF TypeOK
<1>. QED
  BY Status, StatusNext DEF Lifecycle!Next, Lifecycle!Finish, LogAndClear, InHash

\* A flow for a tuple that its row was found not to have: a start.
LEMMA StartStep ==
    ASSUME IInv, HeadKeys, NEW w \in Worker, NEW f \in Flow, LookupNew(w, f)
    PROVE  Lifecycle!Next
<1>. /\ TypeOK /\ Lists /\ Found /\ head \in [Row -> SUBSET Flow]
     /\ key \in [Flow -> Key \cup {None}]
  BY Zenon DEF IInv, ListInv, TypeOK
<1>1. /\ w \in Thread /\ walk[w] = {} /\ pkt[w] \in Key /\ row[w] = hash[pkt[w]]
      /\ row[w] \in Row
  BY KeyAssumption DEF Thread, LookupNew, Found, WalkInRow, PacketRow
<1>2. \A g \in head[row[w]] : key[g] # pkt[w]
  BY <1>1, Zenon DEF LookupNew, Found, NonePassedBy
<1>3. \A g \in Flow : stBar[g] # pkt[w]
  BY <1>1, <1>2, Status, StatusAssumption DEF HeadKeys, InHash
<1>4. /\ head' = [r \in Row |-> IF r = row[w] THEN head[r] \cup {f} ELSE head[r] \ {f}]
      /\ key' = [key EXCEPT ![f] = pkt[w]] /\ spare' = spare \ {f}
  BY Zenon DEF LookupNew, FlowInit
<1>5. \A g \in Flow : g # f => (InHash(g)' <=> InHash(g)) /\ key'[g] = key[g]
  BY <1>1, <1>4, Zenon DEF InHash
<1>6. \A g \in Flow : g # f => stBar'[g] = stBar[g]
  BY <1>4, <1>5, Status, StatusNext
<1>7. stBar' = [stBar EXCEPT ![f] = pkt[w]]
  BY <1>1, <1>4, <1>6, Status, StatusNext, Zenon DEF InHash
<1>. QED
  BY <1>1, <1>3, Status, <1>7, Zenon DEF Lifecycle!Next, Lifecycle!Start, Lifecycle!Unserved, Lists, InHash,
     UsedFlow, HeadKeys, LookupNew, FlowGetNew

\* TcpReuseReplace: another flow takes the tuple over.
LEMMA ReplaceStep ==
    ASSUME IInv, HeadKeys, NEW w \in Worker, NEW f \in Flow, TcpReuseReplace(w, f)
    PROVE  Lifecycle!Next
<1>. /\ TypeOK /\ Lists /\ Found /\ FlowsLocked /\ head \in [Row -> SUBSET Flow]
     /\ key \in [Flow -> Key \cup {None}]
  BY Zenon DEF IInv, ListInv, TypeOK
<1>1. PICK old \in Flow : old = cur[w]
  BY InReuse, Zenon DEF TcpReuseReplace
<1>2. /\ w \in Thread /\ row[w] \in Row /\ old \in head[row[w]] /\ old \in Flow
      /\ pkt[w] \in Key /\ key[old] = pkt[w]
  BY <1>1, InReuse, Zenon DEF TcpReuseReplace, Thread
<1>3. f # old
  BY <1>1, ThreadAssumption, Zenon DEF TcpReuseReplace, FlowInit, FlowsLocked, Thread
<1>4. stBar[old] = pkt[w]
  BY <1>2, Status, Zenon DEF InHash
<1>5. stBar[f] \in Key \cup {"free"}
  BY Status, Zenon DEF Lists, InHash, UsedFlow, HeadKeys, TcpReuseReplace, FlowGetNew
<1>6. /\ head' = [r \in Row |-> IF r = row[w] THEN (head[r] \cup {f}) \ {old}
                              ELSE head[r] \ {f}]
      /\ key' = [key EXCEPT ![f] = pkt[w]] /\ spare' = spare \ {f}
  BY <1>1, Zenon DEF TcpReuseReplace, FlowInit
<1>7. ~InHash(old)' /\ old \notin spare'
  BY <1>2, <1>3, <1>6, Zenon DEF Lists, InHash
<1>8. \A g \in Flow : g # f /\ g # old => stBar'[g] = stBar[g]
  BY <1>6, <1>2, Status, StatusNext DEF InHash
<1>9. stBar'[f] = pkt[w]
  BY <1>2, <1>3, <1>6, StatusNext, Zenon DEF InHash
<1>10. stBar'[old] = "ending"
  BY <1>2, <1>7, StatusNext, Zenon
<1>11. stBar' = [stBar EXCEPT ![old] = "ending", ![f] = stBar[old]]
  BY <1>2, <1>3, <1>4, <1>8, <1>9, <1>10, Status, StatusNext
<1>. QED
  BY <1>2, <1>3, <1>4, <1>5, <1>11, Zenon DEF Lifecycle!Next, Lifecycle!Replace

\* Any other step is not seen from outside.
LEMMA HiddenStep ==
    ASSUME UNCHANGED <<head, key, spare>> PROVE stBar' = stBar
  BY DEF stBar

LEMMA LifecycleStep ==
    ASSUME IInv, HeadKeys, [Next]_vars PROVE [Lifecycle!Next]_stBar
<1>. /\ TypeOK /\ Lists /\ Found /\ FlowsLocked /\ head \in [Row -> SUBSET Flow]
  BY Zenon DEF IInv, ListInv, TypeOK
<1>1. ASSUME NEW w \in Worker, NEW f \in Flow, LookupNew(w, f) \/ TcpReuseReplace(w, f)
      PROVE  Lifecycle!Next
  BY <1>1, StartStep, ReplaceStep, Zenon
<1>2. ASSUME NEW w \in Worker, NEW f \in Flow, LookupTimedOut(w, f) PROVE Lifecycle!Next
  BY <1>2, InWalk, EndStep, Zenon DEF LookupTimedOut, Thread
<1>3. ASSUME NEW w \in Worker, ReuseNone(w) PROVE Lifecycle!Next
  BY <1>3, InReuse, EndStep, Zenon DEF ReuseNone
<1>4. ASSUME NEW f \in Flow, RowTimeoutFlow(f) PROVE Lifecycle!Next
  BY <1>4, InWalk, EndStep, Zenon DEF RowTimeoutFlow, Thread
<1>5. ASSUME NEW f \in Flow, (\E w \in Worker : CheckWorkQueue(w, f)) \/ RecyclerFlow(f)
      PROVE  Lifecycle!Next
  BY <1>5, FinishStep, Zenon DEF CheckWorkQueue, RecyclerFlow, Lists, InHash, table
<1>6. ASSUME \/ \E f \in Flow : ClearEvicted(f) \/ SendToLocalThread(f) \/ AsideRecycle(f)
             \/ RecyclerExtract \/ \E w \in Worker : ProcessInjectedFlows(w)
             \/ \E r \in Row : RowStart(r)
      PROVE  stBar' = stBar
  BY <1>6, HiddenStep, Zenon DEF ClearEvicted, SendToLocalThread, AsideRecycle, RecyclerExtract,
     ProcessInjectedFlows, RowStart, table, flows
<1>7. ASSUME UNCHANGED <<head, evicted, work, inject, spare, evl, aside, recycleQ, recList, flows>>
      PROVE  stBar' = stBar
  BY <1>7, HiddenStep, Zenon DEF flows
<1>. QED
  BY <1>1, <1>2, <1>3, <1>4, <1>5, <1>6, <1>7, Frame, Zenon DEF ListStep

\* The flow engine keeps its promise to its users, FlowLifecycle: whatever the workers,
\* the flow manager and the recycler do, a tuple never has two flows, and a flow that
\* left its row is logged and cleared before FlowGetNew hands it out again.
THEOREM ImplementsLifecycle == Spec => KeepsLifecycle
<1>1. Init => HeadKeys /\ Lifecycle!Init
  BY DEF Init, HeadKeys, stBar, Lifecycle!Init
<1>2. IInv /\ HeadKeys /\ [Next]_vars => HeadKeys'
  BY HeadKeysStep DEF IInv, ListInv
<1>3. IInv /\ HeadKeys /\ [Next]_vars => [Lifecycle!Next]_stBar
  BY LifecycleStep
<1>. QED
  BY <1>1, <1>2, <1>3, Invariance, PTL DEF Spec, KeepsLifecycle, Lifecycle!Spec

=============================================================================
