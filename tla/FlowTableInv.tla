---------------------------- MODULE FlowTableInv ----------------------------
(***************************************************************************)
(* The inductive invariant of FlowTable: which list a flow is on, what     *)
(* each thread has locked, and what stays true because of it.  Here that   *)
(* every step keeps the types, that it keeps every flow on exactly one     *)
(* list, that it keeps what the threads have locked, and that what a       *)
(* thread found under its locks stays true until it unlocks.               *)
(* FlowTableProof has the rest.                                            *)
(***************************************************************************)
EXTENDS FlowTable, TLAPS

-----------------------------------------------------------------------------
(* The inductive invariant. *)

\* A flow on one list is on no other: the nine kinds of list in an order, each
\* against itself and the later ones.
Lists ==
    \A f \in Flow :
      /\ \A r \in Row : f \in head[r] =>
            /\ \A s \in Row : f \notin evicted[s] /\ (s # r => f \notin head[s])
            /\ \A v \in Worker : f \notin work[v] /\ f \notin inject[v]
            /\ f \notin spare \cup evl \cup aside \cup recycleQ \cup recList
      /\ \A r \in Row : f \in evicted[r] =>
            /\ \A s \in Row : s # r => f \notin evicted[s]
            /\ \A v \in Worker : f \notin work[v] /\ f \notin inject[v]
            /\ f \notin spare \cup evl \cup aside \cup recycleQ \cup recList
      /\ \A w \in Worker : f \in work[w] =>
            /\ \A v \in Worker : f \notin inject[v] /\ (v # w => f \notin work[v])
            /\ f \notin spare \cup evl \cup aside \cup recycleQ \cup recList
      /\ \A w \in Worker : f \in inject[w] =>
            /\ \A v \in Worker : v # w => f \notin inject[v]
            /\ f \notin spare \cup evl \cup aside \cup recycleQ \cup recList
      /\ f \in spare => f \notin evl \cup aside \cup recycleQ \cup recList
      /\ f \in evl => f \notin aside \cup recycleQ \cup recList
      /\ f \in aside => f \notin recycleQ \cup recList
      /\ f \in recycleQ => f \notin recList

\* No flow is lost.
Listed ==
    \A f \in Flow :
      \/ \E r \in Row : f \in head[r] \/ f \in evicted[r]
      \/ \E w \in Worker : f \in work[w] \/ f \in inject[w]
      \/ f \in spare \cup evl \cup aside \cup recycleQ \cup recList

\* fb names the row of a flow, and is cleared when the flow leaves the bucket.
FbRow ==
    /\ \A r \in Row : \A f \in head[r] : fb[f] = r
    /\ \A f \in Flow :
          (\A r \in Row : f \notin head[r] /\ f \notin evicted[r]) /\ f \notin evl => fb[f] = None

\* A flow that has a tuple has a thread, so the flow manager has somewhere to send it.
Owned ==
    \A f \in Flow : key[f] \in Key => owner[f] \in Worker

\* The evicted list that the flow manager took is dealt with before the next row.
EvictedInHand ==
    evl # {} => pc[Manager] \in {"row", "evict"}

\* What each thread has locked.
RowsLocked ==
    \A t \in Thread : row[t] # None => rowLock[row[t]] = t
FlowsLocked ==
    /\ \A w \in Worker : pc[w] \in {"proc", "reuse"} => lock[cur[w]] = w
    /\ pc[Manager] = "sent" => lock[cur[Manager]] = Manager /\ cur[Manager] \notin aside
    /\ \A f \in aside : lock[f] = Manager
    /\ pc[Unix] = "read" => lock[cur[Unix]] = Unix

\* What a thread found in a row stays true while it has the row, or the flow, locked:
\* the flows of a walk, the flow the unix socket thread waits for, the row of the
\* packet's tuple, the packet's flow, and that no flow passed by was the packet's.
WalkInRow(t) ==
    walk[t] # {} => pc[t] \in {"walk", "row"} /\ walk[t] \subseteq head[row[t]]
WantedInRow(t) ==
    pc[t] = "want" => cur[t] \in head[row[t]]
PacketRow(w) ==
    pc[w] \in {"walk", "new", "reuse"} => pkt[w] \in Key /\ row[w] = hash[pkt[w]]
PacketFlow(w) ==
    pc[w] \in {"proc", "reuse"} =>
        pkt[w] \in Key /\ key[cur[w]] = pkt[w] /\ cur[w] \in head[hash[pkt[w]]]
NonePassedBy(w) ==
    pc[w] \in {"walk", "new"} => \A f \in head[row[w]] : f \notin walk[w] => key[f] # pkt[w]
Found ==
    /\ \A t \in Thread : WalkInRow(t) /\ WantedInRow(t)
    /\ \A w \in Worker : PacketRow(w) /\ PacketFlow(w) /\ NonePassedBy(w)

\* A spare flow has no lock, tuple or thread.
SpareUnused ==
    \A f \in spare : lock[f] = None /\ key[f] = None /\ owner[f] = None

ListInv == Lists /\ Listed /\ FbRow
IInv ==
    /\ TypeOK /\ ListInv /\ Owned /\ EvictedInHand /\ RowsLocked /\ FlowsLocked /\ Found
    /\ OneFlowPerKey /\ SpareUnused

-----------------------------------------------------------------------------
(* Types. *)

\* The two ways in which MoveToWorkQueue, and TcpReuseReplace, deal with a flow they
\* take off its row.
LEMMA Moved ==
    ASSUME NEW w, NEW f, MoveToWorkQueue(w, f)
    PROVE  \/ /\ fb' = [fb EXCEPT ![f] = None] /\ work' = [work EXCEPT ![w] = @ \cup {f}]
              /\ evicted' = evicted /\ nextTs' = nextTs
           \/ /\ fb' = fb /\ work' = work
              /\ evicted' = [evicted EXCEPT ![row[w]] = @ \cup {f}]
              /\ nextTs' = [nextTs EXCEPT ![row[w]] = "due"]
  BY Zenon DEF MoveToWorkQueue, FlowBelongsToUs

LEMMA Replaced ==
    ASSUME NEW w, NEW f, TcpReuseReplace(w, f)
    PROVE  \/ /\ fb' = [fb EXCEPT ![f] = row[w], ![cur[w]] = None]
              /\ work' = [work EXCEPT ![w] = @ \cup {cur[w]}] /\ evicted' = evicted
           \/ /\ fb' = [fb EXCEPT ![f] = row[w]]
              /\ evicted' = [evicted EXCEPT ![row[w]] = @ \cup {cur[w]}] /\ work' = work
  BY Zenon DEF TcpReuseReplace, FlowBelongsToUs

LEMMA MoveType ==
    ASSUME TypeOK, NEW w \in Worker, NEW f \in Flow, MoveToWorkQueue(w, f)
    PROVE  /\ fb' \in [Flow -> Row \cup {None}] /\ work' \in [Worker -> SUBSET Flow]
           /\ evicted' \in [Row -> SUBSET Flow]
           /\ nextTs' \in [Row -> {"due", "later", "never"}]
<1>1. /\ fb \in [Flow -> Row \cup {None}] /\ work \in [Worker -> SUBSET Flow]
      /\ evicted \in [Row -> SUBSET Flow] /\ nextTs \in [Row -> {"due", "later", "never"}]
  BY Zenon DEF TypeOK
<1>. QED
  BY <1>1, Moved

LEMMA TypeInit == Init => TypeOK
  BY KeyAssumption, ThreadAssumption DEF Init, TypeOK, Thread

\* Every step keeps the types, and the places at which a thread has a row or a flow.
LEMMA TypeStep ==
    ASSUME TypeOK, [Next]_vars PROVE TypeOK'
<1>. USE ThreadAssumption, KeyAssumption
<1>1. ASSUME NEW w \in Worker, NEW k \in Key, LookupStart(w, k) PROVE TypeOK'
  <2>. DEFINE r == hash[k]
  <2>1. r \in Row
    BY Zenon
  <2>2. PICK emerg \in BOOLEAN : check' = [check EXCEPT ![w] = emerg \/ nextTs[r] = "due"]
    BY <1>1, Zenon DEF LookupStart
  <2>3. /\ pc[w] = "idle" /\ LockRow(w, r)
        /\ pkt' = [pkt EXCEPT ![w] = k] /\ walk' = [walk EXCEPT ![w] = head[r]]
        /\ pc' = [pc EXCEPT ![w] = IF head[r] = {} THEN "new" ELSE "walk"]
        /\ UNCHANGED <<head, evicted, nextTs, lock, flows, work, inject, spare, fm, rec, cur>>
    BY <1>1, Zenon DEF LookupStart, Goto
  <2>. HIDE DEF r
  <2>4. /\ rowLock' \in [Row -> Thread \cup {None}]
        /\ row' \in [Thread -> Row \cup {None}] /\ walk' \in [Thread -> SUBSET Flow]
        /\ pkt' \in [Worker -> Key \cup {None}]
    BY <2>1, <2>3, Zenon DEF TypeOK, LockRow, Thread
  <2>5. \A t \in Thread :
          /\ row'[t] # None <=> pc'[t] \in {"walk", "new", "reuse", "row", "want"}
          /\ cur'[t] # None <=> pc'[t] \in {"proc", "reuse", "sent", "want", "read"}
    BY <2>1, <2>3 DEF TypeOK, LockRow, Thread
  <2>. QED
    BY <2>2, <2>3, <2>4, <2>1, <2>5, Zenon DEF TypeOK, flows, fm, rec
<1>2. ASSUME NEW w \in Worker, NEW f \in Flow, LookupSkip(w, f) PROVE TypeOK'
  BY <1>2, Zenon DEF TypeOK, Thread, LookupSkip, WalkOn, Goto, table, flows, fm, rec
<1>3. ASSUME NEW w \in Worker, NEW f \in Flow, LookupTimedOut(w, f) PROVE TypeOK'
  BY <1>3, MoveType, ZenonT(40) DEF TypeOK, Thread, LookupTimedOut, WalkOn, Goto, fm, rec
<1>4. ASSUME NEW w \in Worker, NEW f \in Flow, LookupFound(w, f) PROVE TypeOK'
  BY <1>4 DEF TypeOK, Thread, LookupFound, UnlockRow, Goto, flows, fm, rec
<1>5. ASSUME NEW w \in Worker, NEW f \in Flow, LookupReuse(w, f) PROVE TypeOK'
  BY <1>5 DEF TypeOK, Thread, LookupReuse, Goto, table, flows, fm, rec
<1>6. ASSUME NEW w \in Worker, NEW f \in Flow, LookupNew(w, f) PROVE TypeOK'
  BY <1>6 DEF TypeOK, Thread, LookupNew, FlowInit, UnlockRow, Goto, fm, rec
<1>7. ASSUME NEW w \in Worker, NEW f \in Flow, TcpReuseReplace(w, f) PROVE TypeOK'
  <2>1. row[w] \in Row /\ cur[w] \in Flow
    BY <1>7, Zenon DEF TypeOK, TcpReuseReplace, Thread
  <2>2. /\ fb' \in [Flow -> Row \cup {None}] /\ work' \in [Worker -> SUBSET Flow]
        /\ evicted' \in [Row -> SUBSET Flow]
    <3>1. CASE /\ fb' = [fb EXCEPT ![f] = row[w], ![cur[w]] = None]
               /\ work' = [work EXCEPT ![w] = @ \cup {cur[w]}] /\ evicted' = evicted
      <4>1. work' \in [Worker -> SUBSET Flow]
        BY <3>1, <2>1 DEF TypeOK
      <4>. QED
        BY <3>1, <2>1, <4>1, Zenon DEF TypeOK
    <3>2. CASE /\ fb' = [fb EXCEPT ![f] = row[w]]
               /\ evicted' = [evicted EXCEPT ![row[w]] = @ \cup {cur[w]}] /\ work' = work
      BY <3>2, <2>1 DEF TypeOK
    <3>. QED
      BY <1>7, <3>1, <3>2, Replaced, Zenon
  <2>3. nextTs' \in [Row -> {"due", "later", "never"}] /\ head' \in [Row -> SUBSET Flow]
    BY <1>7, <2>1 DEF TypeOK, TcpReuseReplace
  <2>4. lock' \in [Flow -> Thread \cup {None}]
    BY <1>7, <2>1, Zenon DEF TypeOK, TcpReuseReplace, Thread
  <2>5. /\ rowLock' \in [Row -> Thread \cup {None}] /\ spare' \subseteq Flow
        /\ key' \in [Flow -> Key \cup {None}] /\ owner' \in [Flow -> Worker \cup {None}]
        /\ logged' \in [Flow -> Nat]
    BY <1>7, <2>1, Zenon DEF TypeOK, TcpReuseReplace, FlowInit, UnlockRow, Thread
  <2>6. /\ row' = [row EXCEPT ![w] = None] /\ cur' = [cur EXCEPT ![w] = f]
        /\ pc' = [pc EXCEPT ![w] = "proc"] /\ pc[w] = "reuse"
        /\ UNCHANGED <<inject, fm, rec, walk, pkt, check>>
    BY <1>7, Zenon DEF TcpReuseReplace, FlowInit, UnlockRow, Goto
  <2>7. \A t \in Thread :
          /\ row'[t] # None <=> pc'[t] \in {"walk", "new", "reuse", "row", "want"}
          /\ cur'[t] # None <=> pc'[t] \in {"proc", "reuse", "sent", "want", "read"}
    BY <2>6 DEF TypeOK, Thread
  <2>. QED
    BY <2>2, <2>3, <2>4, <2>5, <2>6, <2>7, Zenon DEF TypeOK, fm, rec
<1>8. ASSUME NEW w \in Worker, LookupNone(w) PROVE TypeOK'
  BY <1>8, Zenon DEF TypeOK, Thread, LookupNone, UnlockRow, Goto, flows, fm, rec
<1>9. ASSUME NEW w \in Worker, ReuseNone(w) PROVE TypeOK'
  BY <1>9, MoveType, Zenon DEF TypeOK, ReuseNone, Thread, UnlockRow, Goto, fm, rec
<1>10. ASSUME NEW w \in Worker, FlowUpdateState(w) PROVE TypeOK'
  BY <1>10, Zenon DEF TypeOK, Thread, FlowUpdateState, flows, fm, rec
<1>11. ASSUME NEW w \in Worker, PacketDone(w) PROVE TypeOK'
  BY <1>11, Zenon DEF TypeOK, Thread, PacketDone, Goto, table, flows, fm, rec
<1>12. ASSUME NEW w \in Worker, PacketNoFlow(w) PROVE TypeOK'
  BY <1>12, Zenon DEF TypeOK, Thread, PacketNoFlow, Goto, table, flows, fm, rec
<1>13. ASSUME NEW w \in Worker, ProcessInjectedFlows(w) PROVE TypeOK'
  BY <1>13, Zenon DEF TypeOK, Thread, ProcessInjectedFlows, Goto, table, flows, fm, rec
<1>14. ASSUME NEW w \in Worker, NEW f \in Flow, CheckWorkQueue(w, f) PROVE TypeOK'
  BY <1>14 DEF TypeOK, Thread, CheckWorkQueue, LogAndClear, Goto, table, fm, rec
<1>15. ASSUME BatchStart PROVE TypeOK'
  BY <1>15, Zenon DEF TypeOK, Thread, BatchStart, Goto, table, flows, rec
<1>16. ASSUME NEW r \in Row, RowStart(r) PROVE TypeOK'
  <2>1. CASE nextTs[r] = "due"
    <3>1. /\ pc[Manager] = "rows" /\ todoRows' = todoRows \ {r} /\ LockRow(Manager, r)
          /\ evl' = evicted[r] /\ evicted' = [evicted EXCEPT ![r] = {}]
          /\ walk' = [walk EXCEPT ![Manager] = head[r]] /\ pc' = [pc EXCEPT ![Manager] = "row"]
          /\ UNCHANGED <<head, nextTs, lock, flows, work, inject, spare, aside, rec, cur, pkt, check>>
      BY <1>16, <2>1, Zenon DEF RowStart, Goto
    <3>. QED
      BY <3>1 DEF TypeOK, LockRow, Thread, flows, rec
  <2>2. CASE nextTs[r] # "due"
    BY <1>16, <2>2 DEF TypeOK, RowStart, flows, rec
  <2>. QED
    BY <2>1, <2>2, Zenon
<1>17. ASSUME NEW f \in Flow, RowKeepFlow(f) PROVE TypeOK'
  BY <1>17, Zenon DEF TypeOK, Thread, RowKeepFlow, table, flows, fm, rec
<1>18. ASSUME NEW f \in Flow, RowTimeoutFlow(f) PROVE TypeOK'
  <2>1. /\ walk' \in [Thread -> SUBSET Flow] /\ lock' \in [Flow -> Thread \cup {None}]
        /\ fb' \in [Flow -> Row \cup {None}] /\ aside' \subseteq Flow
    BY <1>18 DEF TypeOK, Thread, RowTimeoutFlow
  <2>2. head' \in [Row -> SUBSET Flow]
    BY <1>18 DEF TypeOK, Thread, RowTimeoutFlow
  <2>. QED
    BY <2>1, <2>2, <1>18, Zenon DEF TypeOK, rec, RowTimeoutFlow
<1>19. ASSUME RowDone PROVE TypeOK'
  <2>1. nextTs \in [Row -> {"due", "later", "never"}]
    BY Zenon DEF TypeOK
  <2>2. nextTs' \in [Row -> {"due", "later", "never"}]
    BY <1>19, <2>1, Zenon DEF RowDone
  <2>. QED
    BY <1>19, <2>2, Zenon DEF TypeOK, RowDone, UnlockRow, Goto, Thread, flows, fm, rec
<1>20. ASSUME NEW f \in Flow, ClearEvicted(f) PROVE TypeOK'
  BY <1>20, Zenon DEF TypeOK, Thread, ClearEvicted, table, rec
<1>21. ASSUME EvictedDone PROVE TypeOK'
  BY <1>21, Zenon DEF TypeOK, Thread, EvictedDone, Goto, table, flows, fm, rec
<1>22. ASSUME BatchDone PROVE TypeOK'
  BY <1>22, Zenon DEF TypeOK, Thread, BatchDone, Goto, table, flows, fm, rec
<1>23. ASSUME NEW f \in Flow, SendToLocalThread(f) PROVE TypeOK'
  BY <1>23, ZenonT(40) DEF TypeOK, Thread, SendToLocalThread, Goto, table, flows, rec
<1>24. ASSUME SentUnlock PROVE TypeOK'
  BY <1>24, Zenon DEF TypeOK, Thread, SentUnlock, Goto, table, flows, fm, rec
<1>25. ASSUME NEW f \in Flow, AsideRecycle(f) PROVE TypeOK'
  BY <1>25, ZenonT(40) DEF TypeOK, Thread, AsideRecycle, Goto, table, flows
<1>26. ASSUME RecyclerExtract PROVE TypeOK'
  BY <1>26, Zenon DEF TypeOK, Thread, RecyclerExtract, table, flows, fm
<1>27. ASSUME NEW f \in Flow, RecyclerFlow(f) PROVE TypeOK'
  BY <1>27 DEF TypeOK, Thread, RecyclerFlow, LogAndClear, table, fm
<1>28. ASSUME NEW f \in Flow, FlowByIdRow(f) PROVE TypeOK'
  <2>1. PICK r \in Row : /\ rowLock' = [rowLock EXCEPT ![r] = Unix]
                         /\ row' = [row EXCEPT ![Unix] = r]
    BY <1>28, Zenon DEF FlowByIdRow, LockRow
  <2>2. pc' = [pc EXCEPT ![Unix] = "want"] /\ cur' = [cur EXCEPT ![Unix] = f]
    BY <1>28, Zenon DEF FlowByIdRow, Goto
  <2>3. UNCHANGED <<head, evicted, nextTs, lock, flows, work, inject, spare, fm, rec, walk, pkt,
                    check>>
    BY <1>28, Zenon DEF FlowByIdRow
  <2>. QED
    BY <2>1, <2>2, <2>3 DEF TypeOK, Thread, flows, fm, rec
<1>29. ASSUME FlowByIdLock PROVE TypeOK'
  BY <1>29, Zenon DEF TypeOK, Thread, FlowByIdLock, UnlockRow, Goto, flows, fm, rec
<1>30. ASSUME FlowByIdDone PROVE TypeOK'
  BY <1>30, Zenon DEF TypeOK, Thread, FlowByIdDone, Goto, table, flows, fm, rec
<1>31. ASSUME NEW r \in Row, TimePasses(r) PROVE TypeOK'
  BY <1>31, Zenon DEF TypeOK, Thread, TimePasses, flows, fm, rec
<1>32. CASE UNCHANGED vars
  BY <1>32, Zenon DEF TypeOK, vars, table, flows, fm, rec
<1>. QED
  BY <1>1, <1>2, <1>3, <1>4, <1>5, <1>6, <1>7, <1>8, <1>9, <1>10, <1>11, <1>12, <1>13, <1>14, <1>15, <1>16,
     <1>17, <1>18, <1>19, <1>20, <1>21, <1>22, <1>23, <1>24, <1>25, <1>26, <1>27, <1>28, <1>29, <1>30, <1>31,
     <1>32, Zenon DEF Next, WorkerStep, LookupFlow, GetFlow, ManagerStep, RecyclerStep, UnixStep

-----------------------------------------------------------------------------
(* The steps that move a flow from one list to another, and the others. *)

ListStep ==
    \/ \E w \in Worker : \/ ReuseNone(w) \/ ProcessInjectedFlows(w)
                         \/ \E f \in Flow : \/ LookupTimedOut(w, f) \/ LookupNew(w, f)
                                            \/ TcpReuseReplace(w, f) \/ CheckWorkQueue(w, f)
    \/ RecyclerExtract \/ \E r \in Row : RowStart(r)
    \/ \E f \in Flow : \/ RowTimeoutFlow(f) \/ ClearEvicted(f) \/ SendToLocalThread(f)
                       \/ AsideRecycle(f) \/ RecyclerFlow(f)

\* Any other step leaves the lists and the contents of the flows alone.
LEMMA Frame ==
    ASSUME [Next]_vars
    PROVE  \/ ListStep
           \/ UNCHANGED <<head, evicted, work, inject, spare, evl, aside, recycleQ, recList, flows>>
<1>. DEFINE Same == UNCHANGED <<head, evicted, work, inject, spare, evl, aside, recycleQ, recList, flows>>
<1>1. ASSUME NEW w \in Worker, NEW k \in Key, LookupStart(w, k) PROVE Same
  BY <1>1, Zenon DEF LookupStart, flows, fm, rec
<1>2. ASSUME NEW w \in Worker, NEW f \in Flow, LookupSkip(w, f) \/ LookupFound(w, f) \/
      LookupReuse(w, f) PROVE Same
  BY <1>2, Zenon DEF LookupSkip, LookupFound, LookupReuse, table, flows, fm, rec
<1>3. ASSUME NEW w \in Worker, LookupNone(w) \/ FlowUpdateState(w) \/ PacketDone(w) \/
      PacketNoFlow(w) PROVE Same
  BY <1>3, Zenon DEF LookupNone, FlowUpdateState, PacketDone, PacketNoFlow, flows, fm, rec, table
<1>4. ASSUME BatchStart \/ RowDone \/ EvictedDone \/ BatchDone \/ SentUnlock \/
      FlowByIdLock \/ FlowByIdDone PROVE Same
  BY <1>4, Zenon DEF BatchStart, RowDone, EvictedDone, BatchDone, SentUnlock, FlowByIdLock, FlowByIdDone, table,
     flows, rec, fm
<1>5. ASSUME NEW f \in Flow, RowKeepFlow(f) \/ FlowByIdRow(f) PROVE Same
  BY <1>5, Zenon DEF RowKeepFlow, FlowByIdRow, table, flows, fm, rec
<1>6. ASSUME NEW r \in Row, TimePasses(r) PROVE Same
  BY <1>6, Zenon DEF TimePasses, flows, fm, rec
<1>7. CASE UNCHANGED vars
  BY <1>7, Zenon DEF vars, table, flows, fm, rec
<1>. QED
  BY <1>1, <1>2, <1>3, <1>4, <1>5, <1>6, <1>7, Zenon DEF ListStep, Next, WorkerStep, LookupFlow, GetFlow,
     ManagerStep, RecyclerStep, UnixStep

-----------------------------------------------------------------------------
(* What a thread knows of the flow in hand. *)

LEMMA InWalk ==
    ASSUME TypeOK, Found, NEW t \in Thread, NEW f \in walk[t]
    PROVE  f \in Flow /\ row[t] \in Row /\ f \in head[row[t]]
  BY ThreadAssumption, Zenon DEF TypeOK, Found, WalkInRow

LEMMA InReuse ==
    ASSUME TypeOK, Found, FlowsLocked, NEW w \in Worker, pc[w] = "reuse"
    PROVE  /\ cur[w] \in Flow /\ row[w] \in Row /\ cur[w] \in head[row[w]]
           /\ lock[cur[w]] = w /\ pkt[w] \in Key /\ key[cur[w]] = pkt[w]
  BY DEF TypeOK, Found, PacketRow, PacketFlow, FlowsLocked, Thread

-----------------------------------------------------------------------------
(* The lists. *)

\* Whatever thread takes a step, a flow that leaves a list enters exactly one other,
\* and its fb follows.
LEMMA ListsStep ==
    ASSUME TypeOK, ListInv, Owned, EvictedInHand, FlowsLocked, Found, [Next]_vars PROVE ListInv'
<1>. USE ThreadAssumption DEF ListInv
<1>. /\ head \in [Row -> SUBSET Flow] /\ evicted \in [Row -> SUBSET Flow]
     /\ work \in [Worker -> SUBSET Flow] /\ inject \in [Worker -> SUBSET Flow]
     /\ fb \in [Flow -> Row \cup {None}]
  BY Zenon DEF TypeOK
<1>1. ASSUME NEW w \in Worker, NEW f \in Flow, LookupTimedOut(w, f) PROVE ListInv'
  <2>1. row[w] \in Row /\ f \in head[row[w]]
    BY <1>1, InWalk, Zenon DEF LookupTimedOut, Thread
  <2>2. head' = [head EXCEPT ![row[w]] = @ \ {f}] /\ UNCHANGED <<inject, spare, fm, rec>>
    BY <1>1, Zenon DEF LookupTimedOut
  <2>3. CASE /\ fb' = [fb EXCEPT ![f] = None] /\ work' = [work EXCEPT ![w] = @ \cup {f}]
             /\ evicted' = evicted
    <3>1. Lists'
      BY <2>1, <2>2, <2>3 DEF Lists, fm, rec
    <3>2. FbRow'
      BY <2>1, <2>2, <2>3 DEF FbRow, Lists, fm, rec
    <3>. QED
      BY <3>1, <2>1, <2>2, <2>3, <3>2 DEF Listed, fm, rec
  <2>4. CASE /\ fb' = fb /\ work' = work
             /\ evicted' = [evicted EXCEPT ![row[w]] = @ \cup {f}]
    <3>1. Lists'
      BY <2>1, <2>2, <2>4 DEF Lists, fm, rec
    <3>2. FbRow'
      BY <2>1, <2>2, <2>4 DEF FbRow, Lists, fm, rec
    <3>. QED
      BY <3>1, <2>1, <2>2, <2>4, <3>2, Zenon DEF Listed, fm, rec
  <2>. QED
    BY <1>1, <2>3, <2>4, Moved, Zenon DEF LookupTimedOut
<1>2. ASSUME NEW w \in Worker, NEW f \in Flow, LookupNew(w, f) PROVE ListInv'
  <2>. DEFINE s == row[w]
  <2>1. s \in Row
    BY <1>2, Zenon DEF LookupNew, TypeOK, Thread
  <2>2. /\ head' = [r \in Row |-> IF r = s THEN head[r] \cup {f} ELSE head[r] \ {f}]
        /\ fb' = [fb EXCEPT ![f] = s] /\ spare' = spare \ {f}
        /\ UNCHANGED <<evicted, work, inject, fm, rec>>
    BY <1>2, Zenon DEF LookupNew, FlowInit
  <2>3. f \in spare \/ \E r \in Row : f \in head[r]
    BY <1>2, Zenon DEF LookupNew, FlowGetNew, UsedFlow
  <2>. HIDE DEF s
  <2>4. Lists'
    BY <2>1, <2>2, <2>3 DEF Lists, fm, rec
  <2>5. FbRow'
    BY <2>1, <2>2, <2>3 DEF FbRow, Lists, fm, rec
  <2>. QED
    BY <2>4, <2>1, <2>2, <2>3, <2>5, Zenon DEF Listed, fm, rec
<1>3. ASSUME NEW w \in Worker, NEW f \in Flow, TcpReuseReplace(w, f) PROVE ListInv'
  <2>. DEFINE g == cur[w]
              s == row[w]
  <2>1. s \in Row /\ g \in Flow /\ g \in head[s] /\ f # g
    BY <1>3, InReuse DEF TcpReuseReplace, Thread, FlowInit
  <2>2. /\ head' = [r \in Row |-> IF r = s THEN (head[r] \cup {f}) \ {g} ELSE head[r] \ {f}]
        /\ spare' = spare \ {f} /\ UNCHANGED <<inject, fm, rec>>
    BY <1>3, Zenon DEF TcpReuseReplace, FlowInit
  <2>3. f \in spare \/ \E r \in Row : f \in head[r]
    BY <1>3, Zenon DEF TcpReuseReplace, FlowGetNew, UsedFlow
  <2>4. CASE /\ fb' = [fb EXCEPT ![f] = s, ![g] = None]
             /\ work' = [work EXCEPT ![w] = @ \cup {g}] /\ evicted' = evicted
    <3>. HIDE DEF g, s
    <3>1. Lists'
      BY <2>1, <2>2, <2>3, <2>4 DEF Lists, fm, rec
    <3>2. FbRow'
      BY <2>1, <2>2, <2>3, <2>4 DEF FbRow, Lists, fm, rec
    <3>. QED
      BY <3>1, <2>1, <2>2, <2>3, <2>4, <3>2, Zenon DEF Listed, fm, rec
  <2>5. CASE /\ fb' = [fb EXCEPT ![f] = s] /\ work' = work
             /\ evicted' = [evicted EXCEPT ![s] = @ \cup {g}]
    <3>. HIDE DEF g, s
    <3>1. Lists'
      BY <2>1, <2>2, <2>3, <2>5 DEF Lists, fm, rec
    <3>2. FbRow'
      BY <2>1, <2>2, <2>3, <2>5 DEF FbRow, Lists, fm, rec
    <3>. QED
      BY <3>1, <2>1, <2>2, <2>3, <2>5, <3>2, Zenon DEF Listed, fm, rec
  <2>. QED
    BY <1>3, <2>4, <2>5, Replaced, Zenon
<1>4. ASSUME NEW w \in Worker, ReuseNone(w) PROVE ListInv'
  <2>. DEFINE g == cur[w]
  <2>1. row[w] \in Row /\ g \in Flow /\ g \in head[row[w]]
    BY <1>4, InReuse, Zenon DEF ReuseNone
  <2>2. head' = [head EXCEPT ![row[w]] = @ \ {g}] /\ UNCHANGED <<inject, spare, fm, rec>>
    BY <1>4, Zenon DEF ReuseNone
  <2>3. CASE /\ fb' = [fb EXCEPT ![g] = None] /\ work' = [work EXCEPT ![w] = @ \cup {g}]
             /\ evicted' = evicted
    <3>. HIDE DEF g
    <3>1. Lists'
      BY <2>1, <2>2, <2>3 DEF Lists, fm, rec
    <3>2. FbRow'
      BY <2>1, <2>2, <2>3 DEF FbRow, Lists, fm, rec
    <3>. QED
      BY <3>1, <2>1, <2>2, <2>3, <3>2, Zenon DEF Listed, fm, rec
  <2>4. CASE /\ fb' = fb /\ work' = work
             /\ evicted' = [evicted EXCEPT ![row[w]] = @ \cup {g}]
    <3>. HIDE DEF g
    <3>1. Lists'
      BY <2>1, <2>2, <2>4 DEF Lists, fm, rec
    <3>2. FbRow'
      BY <2>1, <2>2, <2>4 DEF FbRow, Lists, fm, rec
    <3>. QED
      BY <3>1, <2>1, <2>2, <2>4, <3>2, Zenon DEF Listed, fm, rec
  <2>. QED
    BY <1>4, <2>3, <2>4, Moved, Zenon DEF ReuseNone
<1>5. ASSUME NEW w \in Worker, ProcessInjectedFlows(w) PROVE ListInv'
  <2>1. Lists'
    BY <1>5 DEF Lists, ProcessInjectedFlows, table, flows, fm, rec
  <2>2. FbRow'
    BY <1>5, Zenon DEF FbRow, Lists, ProcessInjectedFlows, table, flows, fm, rec
  <2>. QED
    BY <2>1, <1>5, <2>2, Zenon DEF Listed, ProcessInjectedFlows, table, flows, fm, rec
<1>6. ASSUME NEW w \in Worker, NEW f \in Flow, CheckWorkQueue(w, f) PROVE ListInv'
  <2>1. Lists'
    BY <1>6 DEF Lists, CheckWorkQueue, table, fm, rec
  <2>. QED
    BY <2>1, <1>6, Zenon DEF Listed, CheckWorkQueue, table, fm, rec, FbRow, Lists
<1>7. ASSUME NEW r \in Row, RowStart(r) PROVE ListInv'
  <2>1. CASE nextTs[r] = "due"
    <3>. evl = {}
      BY <1>7, Zenon DEF RowStart, EvictedInHand
    <3>. /\ evl' = evicted[r] /\ evicted' = [evicted EXCEPT ![r] = {}]
         /\ UNCHANGED <<head, work, inject, spare, aside, rec, flows>>
      BY <1>7, <2>1, Zenon DEF RowStart
    <3>1. Lists'
      BY DEF Lists, rec, flows
    <3>2. FbRow'
      BY Zenon DEF FbRow, Lists, rec, flows
    <3>. QED
      BY <3>1, <3>2, Zenon DEF Listed, rec, flows
  <2>2. CASE nextTs[r] # "due"
    <3>1. UNCHANGED <<head, evicted, work, inject, spare, evl, aside, recycleQ, recList, fb>>
      BY <1>7, <2>2, Zenon DEF RowStart, rec, flows
    <3>. QED
      BY <3>1 DEF Lists, Listed, FbRow
  <2>. QED
    BY <2>1, <2>2, Zenon
<1>8. ASSUME NEW f \in Flow, RowTimeoutFlow(f) PROVE ListInv'
  <2>. row[Manager] \in Row /\ f \in head[row[Manager]]
    BY <1>8, InWalk, Zenon DEF RowTimeoutFlow, Thread
  <2>. /\ head' = [head EXCEPT ![row[Manager]] = @ \ {f}] /\ fb' = [fb EXCEPT ![f] = None]
       /\ aside' = aside \cup {f}
       /\ UNCHANGED <<evicted, work, inject, spare, evl, rec>>
    BY <1>8, Zenon DEF RowTimeoutFlow
  <2>1. Lists'
    BY DEF Lists, rec
  <2>2. FbRow'
    BY DEF FbRow, Lists, rec
  <2>. QED
    BY <2>1, <2>2, Zenon DEF Listed, rec
<1>9. ASSUME NEW f \in Flow, ClearEvicted(f) PROVE ListInv'
  <2>. /\ f \in evl /\ evl' = evl \ {f} /\ aside' = aside \cup {f} /\ fb' = [fb EXCEPT ![f] = None]
       /\ UNCHANGED <<head, evicted, work, inject, spare, recycleQ, recList>>
    BY <1>9, Zenon DEF ClearEvicted, table, rec
  <2>1. Lists'
    BY DEF Lists
  <2>2. FbRow'
    BY DEF FbRow, Lists
  <2>. QED
    BY <2>1, <2>2, Zenon DEF Listed
<1>10. ASSUME NEW f \in Flow, SendToLocalThread(f) PROVE ListInv'
  <2>. PICK v \in Worker : inject' = [inject EXCEPT ![v] = @ \cup {f}]
    BY <1>10, KeyAssumption, Zenon DEF SendToLocalThread, Owned
  <2>. /\ f \in aside /\ aside' = aside \ {f}
       /\ UNCHANGED <<head, evicted, work, spare, evl, recycleQ, recList, fb>>
    BY <1>10, Zenon DEF SendToLocalThread, table, flows, rec
  <2>1. Lists'
    BY DEF Lists
  <2>2. FbRow'
    BY Zenon DEF FbRow, Lists
  <2>. QED
    BY <2>1, <2>2, Zenon DEF Listed
<1>11. ASSUME NEW f \in Flow, AsideRecycle(f) PROVE ListInv'
  <2>. /\ f \in aside /\ aside' = aside \ {f} /\ recycleQ' = recycleQ \cup {f}
       /\ UNCHANGED <<head, evicted, work, inject, spare, evl, recList, fb>>
    BY <1>11, Zenon DEF AsideRecycle, table, flows
  <2>1. Lists'
    BY DEF Lists
  <2>. QED
    BY <2>1, Zenon DEF Listed, FbRow, Lists
<1>12. ASSUME RecyclerExtract PROVE ListInv'
  <2>. /\ recList = {} /\ recList' = recycleQ /\ recycleQ' = {}
       /\ UNCHANGED <<head, evicted, work, inject, spare, evl, aside, fb>>
    BY <1>12, Zenon DEF RecyclerExtract, table, flows, fm
  <2>1. Lists'
    BY DEF Lists
  <2>2. FbRow'
    BY Zenon DEF FbRow, Lists
  <2>. QED
    BY <2>1, <2>2, Zenon DEF Listed
<1>13. ASSUME NEW f \in Flow, RecyclerFlow(f) PROVE ListInv'
  <2>. /\ f \in recList /\ recList' = recList \ {f} /\ spare' = spare \cup {f}
       /\ UNCHANGED <<head, evicted, work, inject, evl, aside, recycleQ, fb>>
    BY <1>13, Zenon DEF RecyclerFlow, table, fm
  <2>1. Lists'
    BY DEF Lists
  <2>2. FbRow'
    BY Zenon DEF FbRow, Lists
  <2>. QED
    BY <2>1, <2>2, Zenon DEF Listed
<1>14. ASSUME UNCHANGED <<head, evicted, work, inject, spare, evl, aside, recycleQ, recList, flows>>
       PROVE  ListInv'
  <2>1. Lists'
    BY <1>14 DEF Lists
  <2>. QED
    BY <2>1, <1>14, Zenon DEF Listed, FbRow, flows
<1>. QED
  BY <1>1, <1>2, <1>3, <1>4, <1>5, <1>6, <1>7, <1>8, <1>9, <1>10, <1>11, <1>12, <1>13, <1>14, Frame, Zenon DEF
     ListStep

-----------------------------------------------------------------------------
(* The locks. *)

\* A thread that has a row keeps its lock: nobody takes a row that is locked.
LEMMA RowsLockedStep ==
    ASSUME TypeOK, RowsLocked, [Next]_vars PROVE RowsLocked'
<1>. USE ThreadAssumption, KeyAssumption
<1>. /\ rowLock \in [Row -> Thread \cup {None}] /\ row \in [Thread -> Row \cup {None}]
  BY Zenon DEF TypeOK
<1>1. ASSUME NEW w \in Worker, NEW k \in Key, LookupStart(w, k) PROVE RowsLocked'
  BY <1>1 DEF RowsLocked, Thread, LookupStart, LockRow, Goto, flows, fm, rec
<1>2. ASSUME NEW w \in Worker, NEW f \in Flow, LookupFound(w, f) PROVE RowsLocked'
  BY <1>2 DEF RowsLocked, Thread, LookupFound, UnlockRow, Goto, flows, fm, rec
<1>3. ASSUME NEW w \in Worker, NEW f \in Flow, LookupNew(w, f) PROVE RowsLocked'
  BY <1>3, Zenon DEF RowsLocked, Thread, LookupNew, FlowInit, UnlockRow, Goto, fm, rec
<1>4. ASSUME NEW w \in Worker, NEW f \in Flow, TcpReuseReplace(w, f) PROVE RowsLocked'
  BY <1>4, Zenon DEF RowsLocked, Thread, TcpReuseReplace, FlowInit, UnlockRow, Goto, fm, rec
<1>5. ASSUME NEW w \in Worker, LookupNone(w) PROVE RowsLocked'
  BY <1>5 DEF RowsLocked, Thread, LookupNone, UnlockRow, Goto, flows, fm, rec
<1>6. ASSUME NEW w \in Worker, ReuseNone(w) PROVE RowsLocked'
  BY <1>6, Zenon DEF RowsLocked, Thread, ReuseNone, UnlockRow, Goto, fm, rec
<1>7. ASSUME NEW r \in Row, RowStart(r) PROVE RowsLocked'
  BY <1>7 DEF RowsLocked, Thread, RowStart, LockRow, Goto, flows, rec
<1>8. ASSUME RowDone PROVE RowsLocked'
  BY <1>8, Zenon DEF RowsLocked, Thread, RowDone, UnlockRow, Goto, flows, fm, rec
<1>9. ASSUME NEW f \in Flow, FlowByIdRow(f) PROVE RowsLocked'
  BY <1>9 DEF RowsLocked, Thread, FlowByIdRow, LockRow, Goto, flows, fm, rec
<1>10. ASSUME FlowByIdLock PROVE RowsLocked'
  BY <1>10 DEF RowsLocked, Thread, FlowByIdLock, UnlockRow, Goto, flows, fm, rec
<1>11. ASSUME NEW w \in Worker, NEW f \in Flow, LookupSkip(w, f) \/ LookupTimedOut(w, f)
       \/ LookupReuse(w, f) \/ CheckWorkQueue(w, f) PROVE RowsLocked'
  BY <1>11, Zenon DEF RowsLocked, Thread, LookupSkip, WalkOn, Goto, LookupTimedOut, LookupReuse, CheckWorkQueue,
     table, flows, fm, rec
<1>12. ASSUME NEW w \in Worker, FlowUpdateState(w) \/ PacketDone(w) \/ PacketNoFlow(w)
       \/ ProcessInjectedFlows(w) PROVE RowsLocked'
  BY <1>12, Zenon DEF RowsLocked, Thread, FlowUpdateState, PacketDone, Goto, PacketNoFlow, ProcessInjectedFlows,
     flows, fm, rec, table
<1>13. ASSUME BatchStart \/ EvictedDone \/ BatchDone \/ SentUnlock PROVE RowsLocked'
  BY <1>13, Zenon DEF RowsLocked, Thread, BatchStart, Goto, EvictedDone, BatchDone, SentUnlock, table, flows,
     rec, fm
<1>14. ASSUME RecyclerExtract \/ FlowByIdDone PROVE RowsLocked'
  BY <1>14, Zenon DEF RowsLocked, Thread, RecyclerExtract, FlowByIdDone, Goto, table, flows, fm, rec
<1>15. ASSUME NEW f \in Flow, RowKeepFlow(f) \/ RowTimeoutFlow(f) \/ ClearEvicted(f) \/
       SendToLocalThread(f) PROVE RowsLocked'
  BY <1>15, Zenon DEF RowsLocked, Thread, RowKeepFlow, RowTimeoutFlow, ClearEvicted, SendToLocalThread, Goto,
     table, flows, fm, rec
<1>16. ASSUME NEW f \in Flow, AsideRecycle(f) \/ RecyclerFlow(f) PROVE RowsLocked'
  BY <1>16, Zenon DEF RowsLocked, Thread, AsideRecycle, Goto, RecyclerFlow, table, flows, fm
<1>17. ASSUME NEW r \in Row, TimePasses(r) PROVE RowsLocked'
  BY <1>17, Zenon DEF RowsLocked, Thread, TimePasses, flows, fm, rec
<1>18. CASE UNCHANGED vars
  BY <1>18, Zenon DEF RowsLocked, vars, table, flows, fm, rec
<1>. QED
  BY <1>1, <1>2, <1>3, <1>4, <1>5, <1>6, <1>7, <1>8, <1>9, <1>10, <1>11, <1>12, <1>13, <1>14, <1>15, <1>16,
     <1>17, <1>18, Zenon DEF Next, WorkerStep, LookupFlow, GetFlow, ManagerStep, RecyclerStep, UnixStep

\* A thread that has a flow keeps its lock: only its holder unlocks it.
LEMMA FlowsLockedStep ==
    ASSUME TypeOK, FlowsLocked, [Next]_vars PROVE FlowsLocked'
<1>. USE ThreadAssumption, KeyAssumption
<1>. /\ lock \in [Flow -> Thread \cup {None}] /\ cur \in [Thread -> Flow \cup {None}]
     /\ aside \subseteq Flow
     /\ pc \in [Thread -> {"idle", "walk", "new", "reuse", "proc", "house", "work", "rows", "row", "evict", "aside", "sent", "want", "read"}]
     /\ \A t \in Thread : cur[t] # None <=> pc[t] \in {"proc", "reuse", "sent", "want", "read"}
  BY Zenon DEF TypeOK
<1>1. ASSUME NEW w \in Worker, NEW k \in Key, LookupStart(w, k) PROVE FlowsLocked'
  BY <1>1, Zenon DEF FlowsLocked, Thread, LookupStart, Goto, flows, fm, rec
<1>2. ASSUME NEW w \in Worker, NEW f \in Flow, LookupSkip(w, f) PROVE FlowsLocked'
  BY <1>2, Zenon DEF FlowsLocked, Thread, LookupSkip, WalkOn, Goto, table, flows, fm, rec
<1>3. ASSUME NEW w \in Worker, NEW f \in Flow, LookupTimedOut(w, f) PROVE FlowsLocked'
  BY <1>3, Zenon DEF FlowsLocked, Thread, LookupTimedOut, WalkOn, Goto, fm, rec
<1>4. ASSUME NEW w \in Worker, NEW f \in Flow, LookupFound(w, f) PROVE FlowsLocked'
  BY <1>4 DEF FlowsLocked, Thread, LookupFound, Goto, flows, fm, rec
<1>5. ASSUME NEW w \in Worker, NEW f \in Flow, LookupReuse(w, f) PROVE FlowsLocked'
  BY <1>5 DEF FlowsLocked, Thread, LookupReuse, Goto, table, flows, fm, rec
<1>6. ASSUME NEW w \in Worker, NEW f \in Flow, LookupNew(w, f) PROVE FlowsLocked'
  BY <1>6 DEF FlowsLocked, Thread, LookupNew, FlowInit, Goto, fm, rec
<1>7. ASSUME NEW w \in Worker, NEW f \in Flow, TcpReuseReplace(w, f) PROVE FlowsLocked'
  <2>1. /\ cur[w] \in Flow /\ lock[cur[w]] = w /\ lock[f] = None /\ w \in Thread /\ f # cur[w]
    BY <1>7, Zenon DEF TcpReuseReplace, FlowInit, FlowsLocked, Thread
  <2>2. /\ pc' = [pc EXCEPT ![w] = "proc"] /\ cur' = [cur EXCEPT ![w] = f] /\ UNCHANGED aside
    BY <1>7, Zenon DEF TcpReuseReplace, FlowInit, Goto, fm
  <2>3. \A u \in Thread : u # w => pc'[u] = pc[u] /\ cur'[u] = cur[u]
    BY <2>2, Zenon
  <2>4. \A g \in Flow : lock[g] \in Thread /\ lock[g] # w => lock'[g] = lock[g]
    BY <2>1, <1>7, Zenon DEF Thread, TcpReuseReplace
  <2>5. ASSUME NEW v \in Worker, pc'[v] \in {"proc", "reuse"} PROVE lock'[cur'[v]] = v
    <3>1. CASE v = w
      BY <3>1, <2>1, <1>7, <2>2, Zenon DEF TcpReuseReplace
    <3>2. CASE v # w
      BY <3>2, <2>3, <2>4, <2>5 DEF FlowsLocked, Thread
    <3>. QED
      BY <3>1, <3>2, Zenon
  <2>6. Manager \in Thread /\ Unix \in Thread /\ Manager # w /\ Unix # w
    BY Zenon DEF Thread
  <2>7. pc'[Manager] = "sent" => lock'[cur'[Manager]] = Manager /\ cur'[Manager] \notin aside'
    BY <2>2, <2>3, <2>4, <2>6 DEF FlowsLocked
  <2>8. \A g \in aside' : lock'[g] = Manager
    BY <2>2, <2>4, <2>6, Zenon DEF FlowsLocked
  <2>9. pc'[Unix] = "read" => lock'[cur'[Unix]] = Unix
    BY <2>2, <2>3, <2>4, <2>6 DEF FlowsLocked
  <2>. QED
    BY <2>5, <2>7, <2>8, <2>9, Zenon DEF FlowsLocked
<1>8. ASSUME NEW w \in Worker, ReuseNone(w) PROVE FlowsLocked'
  BY <1>8 DEF FlowsLocked, Thread, ReuseNone, Goto, fm, rec
<1>9. ASSUME NEW w \in Worker, PacketDone(w) PROVE FlowsLocked'
  BY <1>9 DEF FlowsLocked, Thread, PacketDone, Goto, table, flows, fm, rec
<1>10. ASSUME NEW w \in Worker, NEW f \in Flow, CheckWorkQueue(w, f) PROVE FlowsLocked'
  BY <1>10 DEF FlowsLocked, Thread, CheckWorkQueue, Goto, table, fm, rec
<1>11. ASSUME NEW r \in Row, RowStart(r) PROVE FlowsLocked'
  BY <1>11 DEF FlowsLocked, Thread, RowStart, Goto, flows, rec
<1>12. ASSUME NEW f \in Flow, RowTimeoutFlow(f) PROVE FlowsLocked'
  BY <1>12 DEF FlowsLocked, Thread, RowTimeoutFlow, rec
<1>13. ASSUME NEW f \in Flow, ClearEvicted(f) PROVE FlowsLocked'
  BY <1>13 DEF FlowsLocked, Thread, ClearEvicted, table, rec
<1>14. ASSUME NEW f \in Flow, SendToLocalThread(f) PROVE FlowsLocked'
  BY <1>14, Zenon DEF FlowsLocked, Thread, SendToLocalThread, Goto, table, flows, rec
<1>15. ASSUME SentUnlock PROVE FlowsLocked'
  BY <1>15 DEF FlowsLocked, Thread, SentUnlock, Goto, table, flows, fm, rec
<1>16. ASSUME NEW f \in Flow, AsideRecycle(f) PROVE FlowsLocked'
  BY <1>16 DEF FlowsLocked, Thread, AsideRecycle, Goto, table, flows
<1>17. ASSUME NEW f \in Flow, FlowByIdRow(f) PROVE FlowsLocked'
  BY <1>17, Zenon DEF FlowsLocked, Thread, FlowByIdRow, Goto, flows, fm, rec
<1>18. ASSUME FlowByIdLock PROVE FlowsLocked'
  BY <1>18 DEF FlowsLocked, Thread, FlowByIdLock, Goto, flows, fm, rec
<1>19. ASSUME FlowByIdDone PROVE FlowsLocked'
  BY <1>19 DEF FlowsLocked, Thread, FlowByIdDone, Goto, table, flows, fm, rec
<1>20. ASSUME NEW w \in Worker, LookupNone(w) \/ FlowUpdateState(w) \/ PacketNoFlow(w)
       \/ ProcessInjectedFlows(w) PROVE FlowsLocked'
  BY <1>20 DEF FlowsLocked, Thread, LookupNone, Goto, FlowUpdateState, PacketNoFlow, ProcessInjectedFlows,
     flows, fm, rec, table
<1>21. ASSUME BatchStart \/ RowDone \/ EvictedDone \/ BatchDone PROVE FlowsLocked'
  BY <1>21 DEF FlowsLocked, Thread, BatchStart, Goto, RowDone, EvictedDone, BatchDone, table, flows, rec, fm
<1>22. ASSUME RecyclerExtract PROVE FlowsLocked'
  BY <1>22, Zenon DEF FlowsLocked, Thread, RecyclerExtract, table, flows, fm
<1>23. ASSUME NEW f \in Flow, RowKeepFlow(f) \/ RecyclerFlow(f) PROVE FlowsLocked'
  BY <1>23, Zenon DEF FlowsLocked, Thread, RowKeepFlow, RecyclerFlow, table, flows, fm, rec
<1>24. ASSUME NEW r \in Row, TimePasses(r) PROVE FlowsLocked'
  BY <1>24, Zenon DEF FlowsLocked, Thread, TimePasses, flows, fm, rec
<1>25. CASE UNCHANGED vars
  BY <1>25, Zenon DEF FlowsLocked, vars, table, flows, fm, rec
<1>. QED
  BY <1>1, <1>2, <1>3, <1>4, <1>5, <1>6, <1>7, <1>8, <1>9, <1>10, <1>11, <1>12, <1>13, <1>14, <1>15, <1>16,
     <1>17, <1>18, <1>19, <1>20, <1>21, <1>22, <1>23, <1>24, <1>25, Zenon DEF Next, WorkerStep, LookupFlow,
     GetFlow, ManagerStep, RecyclerStep, UnixStep

-----------------------------------------------------------------------------
(* What a thread found stays true under its locks. *)

\* A step in which only t moves on, ...
OnlyMoves(t) ==
    /\ \A u \in Thread : u # t =>
          pc'[u] = pc[u] /\ row'[u] = row[u] /\ walk'[u] = walk[u] /\ cur'[u] = cur[u]
    /\ \A v \in Worker : v # t => pkt'[v] = pkt[v]

\* ... and that leaves alone the rows and the flows which other threads have locked.
RespectsLocks(t) ==
    \A r \in Row :
      /\ rowLock[r] \notin {None, t} => head'[r] = head[r] /\ \A g \in head[r] : key'[g] = key[g]
      /\ \A g \in head[r] : lock[g] \notin {None, t} => g \in head'[r] /\ key'[g] = key[g]

\* Such a step takes nothing from another thread of what that thread found.
LEMMA OthersFound ==
    ASSUME TypeOK, RowsLocked, FlowsLocked, Found, NEW t \in Thread, OnlyMoves(t),
           RespectsLocks(t), NEW u \in Thread, u # t
    PROVE  /\ WalkInRow(u)' /\ WantedInRow(u)'
           /\ u \in Worker => PacketRow(u)' /\ PacketFlow(u)' /\ NonePassedBy(u)'
<1>1. /\ pc'[u] = pc[u] /\ row'[u] = row[u] /\ walk'[u] = walk[u] /\ cur'[u] = cur[u]
      /\ u \in Worker => pkt'[u] = pkt[u]
  BY Zenon DEF OnlyMoves
<1>n. u \notin {None, t}
  BY ThreadAssumption, Zenon
<1>2. ASSUME pc[u] \in {"walk", "new", "reuse", "row", "want"}
      PROVE  head'[row[u]] = head[row[u]] /\ \A g \in head[row[u]] : key'[g] = key[g]
  <2>1. row[u] \in Row
    BY <1>2 DEF TypeOK
  <2>2. row[u] # None
    BY <2>1, ThreadAssumption, Zenon
  <2>3. rowLock[row[u]] = u
    BY <2>2, Zenon DEF RowsLocked
  <2>. QED
    BY <1>n, <2>1, <2>3, Zenon DEF RespectsLocks
<1>3. ASSUME u \in Worker, pc[u] \in {"proc", "reuse"}
      PROVE  key'[cur[u]] = key[cur[u]] /\ cur[u] \in head'[hash[pkt[u]]]
  <2>1. lock[cur[u]] = u /\ pkt[u] \in Key /\ cur[u] \in head[hash[pkt[u]]]
    BY <1>3, Zenon DEF FlowsLocked, Found, PacketFlow
  <2>2. hash[pkt[u]] \in Row
    BY <2>1, KeyAssumption
  <2>. QED
    BY <1>n, <2>1, <2>2, Zenon DEF RespectsLocks
<1>4. ASSUME u \in Worker PROVE PacketRow(u)'
  BY <1>1, <1>4, Zenon DEF Found, PacketRow
<1>5. ASSUME u \in Worker PROVE PacketFlow(u)'
  BY <1>1, <1>3, <1>5, Zenon DEF Found, PacketFlow
<1>6. ASSUME u \in Worker PROVE NonePassedBy(u)'
  <2>1. NonePassedBy(u) /\ (pc[u] \in {"walk", "new"} => pc[u] \in {"walk", "new", "reuse", "row", "want"})
    BY <1>6, Zenon DEF Found
  <2>. QED
    BY <1>1, <1>2, <1>6, <2>1, Zenon DEF NonePassedBy
<1>. QED
  BY <1>1, <1>2, <1>4, <1>5, <1>6, Zenon DEF Found, WalkInRow, WantedInRow

\* So Found is kept when t finds the same of its own, ...
LEMMA MoverFound ==
    ASSUME TypeOK, RowsLocked, FlowsLocked, Found, NEW t \in Thread, OnlyMoves(t),
           RespectsLocks(t), WalkInRow(t)', WantedInRow(t)',
           t \in Worker => PacketRow(t)' /\ PacketFlow(t)' /\ NonePassedBy(t)'
    PROVE  Found'
  BY OthersFound, Zenon DEF Found, Thread

\* ... in particular when t has nothing in hand after the step.
LEMMA MoverIdle ==
    ASSUME TypeOK, RowsLocked, FlowsLocked, Found, NEW t \in Thread, OnlyMoves(t),
           RespectsLocks(t), walk'[t] = {},
           pc'[t] \notin {"walk", "row", "want", "new", "reuse", "proc"}
    PROVE  Found'
  BY MoverFound, Zenon DEF WalkInRow, WantedInRow, PacketRow, PacketFlow, NonePassedBy

\* A thread changes the lists of a row only with the row locked, and then takes out
\* only flows that are unlocked or its own.
LEMMA OwnRow ==
    ASSUME TypeOK, RowsLocked, NEW t \in Thread, row[t] \in Row, UNCHANGED key, NEW f \in Flow,
           lock[f] = None \/ lock[f] = t, head' = [head EXCEPT ![row[t]] = @ \ {f}]
    PROVE  RespectsLocks(t)
<1>1. head \in [Row -> SUBSET Flow]
  BY Zenon DEF TypeOK
<1>. QED
  BY <1>1, ThreadAssumption, Zenon DEF RespectsLocks, RowsLocked

\* A row that t has not locked but takes a flow from, as FlowGetUsedFlow does, is locked by
\* nobody, and so is the flow.
LEMMA NewFlow ==
    ASSUME TypeOK, Lists, RowsLocked, NEW w \in Worker, row[w] \in Row,
           NEW f \in Flow, FlowGetNew(f), lock[f] = None, NEW k, key' = [key EXCEPT ![f] = k],
           \A g \in head[row[w]] : lock[g] \notin {None, w} => g \in head'[row[w]],
           \A r \in Row : r # row[w] => head'[r] = head[r] \ {f}
    PROVE  RespectsLocks(w)
<1>1. \A r \in Row : rowLock[r] # None => f \notin head[r]
  BY Zenon DEF Lists, UsedFlow, FlowGetNew
<1>2. \A r \in Row : \A g \in head[r] : g # f => key'[g] = key[g]
  BY Zenon DEF TypeOK, Thread
<1>3. ASSUME NEW r \in Row, rowLock[r] \notin {None, w}
      PROVE  head'[r] = head[r] /\ \A g \in head[r] : key'[g] = key[g]
  <2>1. f \notin head[r] /\ r # row[w]
    BY ThreadAssumption, <1>1, <1>3, Zenon DEF RowsLocked, TypeOK, Thread
  <2>2. head[r] \ {f} = head[r]
    BY <2>1, Zenon
  <2>. QED
    BY <2>1, <2>2, <1>2, Zenon
<1>4. ASSUME NEW r \in Row, NEW g \in head[r], lock[g] \notin {None, w}
      PROVE  g \in head'[r] /\ key'[g] = key[g]
  BY <1>2, <1>4, Zenon
<1>. QED
  BY <1>3, <1>4, Zenon DEF RespectsLocks

\* The locks of a thread keep the other threads from undoing what it found.
LEMMA FoundStep ==
    ASSUME TypeOK, Lists, RowsLocked, FlowsLocked, Found, [Next]_vars PROVE Found'
<1>. /\ head \in [Row -> SUBSET Flow] /\ key \in [Flow -> Key \cup {None}]
     /\ row \in [Thread -> Row \cup {None}] /\ walk \in [Thread -> SUBSET Flow]
     /\ cur \in [Thread -> Flow \cup {None}] /\ pkt \in [Worker -> Key \cup {None}]
     /\ DOMAIN pc = Thread
     /\ \A t \in Thread : pc[t] \in {"walk", "new", "reuse", "row", "want"} => row[t] \in Row
  BY ThreadAssumption DEF TypeOK
<1>. /\ Manager \in Thread /\ Unix \in Thread /\ Recycler \in Thread
     /\ Manager \notin Worker /\ Unix \notin Worker /\ Recycler \notin Worker
     /\ \A w \in Worker : w \in Thread
  BY ThreadAssumption, Zenon DEF Thread
<1>1. ASSUME UNCHANGED <<head, key>>, NEW t \in Thread PROVE RespectsLocks(t)
  BY <1>1, Zenon DEF RespectsLocks
<1>2. ASSUME NEW t \in Thread, pc[t] \notin {"walk", "row"} PROVE walk[t] = {}
  BY <1>2, Zenon DEF Found, WalkInRow
<1>3. ASSUME NEW w \in Worker, NEW k \in Key, LookupStart(w, k) PROVE Found'
  <2>1. /\ pc' = [pc EXCEPT ![w] = IF head[hash[k]] = {} THEN "new" ELSE "walk"]
        /\ row' = [row EXCEPT ![w] = hash[k]] /\ walk' = [walk EXCEPT ![w] = head[hash[k]]]
        /\ pkt' = [pkt EXCEPT ![w] = k] /\ UNCHANGED <<head, key, cur>>
    BY <1>3, Zenon DEF LookupStart, LockRow, Goto, flows
  <2>2. WalkInRow(w)' /\ WantedInRow(w)' /\ PacketRow(w)' /\ PacketFlow(w)' /\ NonePassedBy(w)'
    BY <2>1, Zenon DEF WalkInRow, WantedInRow, PacketRow, PacketFlow, NonePassedBy
  <2>. QED
    BY <1>1, <2>1, <2>2, MoverFound, Zenon DEF OnlyMoves
<1>4. ASSUME NEW w \in Worker, NEW f \in Flow, pc[w] = "walk", WalkOn(w, f),
             UNCHANGED <<key, row, cur, pkt>>, RespectsLocks(w), head'[row[w]] \subseteq head[row[w]],
             f \notin head'[row[w]] \/ key[f] # pkt[w],
             \A g \in head[row[w]] : g # f => g \in head'[row[w]]
      PROVE  Found'
  <2>1. /\ pc' = [pc EXCEPT ![w] = IF walk[w] = {f} THEN "new" ELSE "walk"]
        /\ walk' = [walk EXCEPT ![w] = @ \ {f}]
    BY <1>4, Zenon DEF WalkOn, Goto
  <2>2. PacketRow(w)' /\ PacketFlow(w)'
    BY <1>4, <2>1, Zenon DEF Found, PacketRow, PacketFlow
  <2>3. NonePassedBy(w)'
    BY <1>4, <2>1, Zenon DEF Found, NonePassedBy
  <2>. QED
    BY <1>4, <2>1, <2>2, <2>3, MoverFound, Zenon DEF OnlyMoves, Found, WalkInRow, WantedInRow
<1>5. ASSUME NEW w \in Worker, NEW f \in Flow, LookupSkip(w, f) PROVE Found'
  BY <1>5, <1>1, <1>4, Zenon DEF LookupSkip, table, flows
<1>6. ASSUME NEW w \in Worker, NEW f \in Flow, LookupTimedOut(w, f) PROVE Found'
  BY <1>6, OwnRow, <1>4, Zenon DEF LookupTimedOut
<1>7. ASSUME NEW w \in Worker, NEW f \in Flow, LookupFound(w, f) \/ LookupReuse(w, f)
      PROVE  Found'
  <2>1. /\ f \in head[hash[pkt[w]]] /\ key[f] = pkt[w] /\ pkt[w] \in Key /\ row[w] = hash[pkt[w]]
    BY <1>7, InWalk, Zenon DEF LookupFound, LookupReuse, Found, PacketRow
  <2>2. /\ cur' = [cur EXCEPT ![w] = f] /\ walk' = [walk EXCEPT ![w] = {}]
        /\ UNCHANGED <<head, key, pkt>>
    BY <1>7, Zenon DEF LookupFound, LookupReuse, flows, table
  <2>3. WalkInRow(w)' /\ WantedInRow(w)' /\ PacketRow(w)' /\ PacketFlow(w)' /\ NonePassedBy(w)'
    BY <2>1, <1>7, <2>2, Zenon DEF WalkInRow, WantedInRow, PacketRow, PacketFlow, NonePassedBy, LookupFound,
       LookupReuse, Goto, UnlockRow
  <2>. QED
    BY <1>1, <2>2, <1>7, <2>3, MoverFound, Zenon DEF OnlyMoves, LookupFound, LookupReuse, Goto, UnlockRow
<1>8. ASSUME NEW w \in Worker, NEW f \in Flow, pc[w] \in {"new", "reuse"}, FlowGetNew(f),
             \E tid : FlowInit(w, f, tid), UNCHANGED <<walk, pkt>>, f \in head'[row[w]],
             \A g \in head[row[w]] : lock[g] \notin {None, w} => g \in head'[row[w]],
             \A r \in Row : r # row[w] => head'[r] = head[r] \ {f}
      PROVE  Found'
  <2>1. /\ pc' = [pc EXCEPT ![w] = "proc"] /\ row' = [row EXCEPT ![w] = None]
        /\ cur' = [cur EXCEPT ![w] = f] /\ key' = [key EXCEPT ![f] = pkt[w]] /\ lock[f] = None
    BY <1>8, Zenon DEF FlowInit, Goto, UnlockRow
  <2>2. walk[w] = {} /\ pkt[w] \in Key /\ row[w] = hash[pkt[w]]
    BY <1>2, <1>8, Zenon DEF Found, PacketRow
  <2>3. WalkInRow(w)' /\ WantedInRow(w)' /\ PacketRow(w)' /\ PacketFlow(w)' /\ NonePassedBy(w)'
    BY <1>8, <2>1, <2>2, Zenon DEF WalkInRow, WantedInRow, PacketRow, PacketFlow, NonePassedBy
  <2>. QED
    BY <1>8, <2>1, NewFlow, <2>3, MoverFound, Zenon DEF OnlyMoves
<1>9. ASSUME NEW w \in Worker, NEW f \in Flow, LookupNew(w, f) PROVE Found'
  BY <1>9, <1>8, Zenon DEF LookupNew
<1>10. ASSUME NEW w \in Worker, NEW f \in Flow, TcpReuseReplace(w, f) PROVE Found'
  <2>1. lock[cur[w]] = w /\ lock[f] = None /\ w # None /\ row[w] \in Row
    BY <1>10, InReuse, ThreadAssumption DEF TcpReuseReplace, FlowInit
  <2>. QED
    BY <1>8, <1>10, <2>1, Zenon DEF TcpReuseReplace
<1>11. ASSUME NEW w \in Worker, ReuseNone(w) PROVE Found'
  <2>1. /\ row[w] \in Row /\ cur[w] \in Flow /\ lock[cur[w]] = w /\ walk[w] = {} /\ w \in Thread
        /\ head' = [head EXCEPT ![row[w]] = @ \ {cur[w]}] /\ UNCHANGED <<key, walk, pkt>>
    BY <1>2, <1>11, InReuse, Zenon DEF ReuseNone
  <2>. QED
    BY <2>1, <1>11, OwnRow, MoverIdle, Zenon DEF ReuseNone, Goto, UnlockRow, OnlyMoves
<1>12. ASSUME NEW t \in Thread, NEW f \in Flow, lock[f] = None, \A r \in Row : f \notin head[r],
              LogAndClear(f), UNCHANGED head
       PROVE  RespectsLocks(t)
  BY <1>12 DEF RespectsLocks, LogAndClear
<1>13. ASSUME NEW w \in Worker, NEW f \in Flow, CheckWorkQueue(w, f) PROVE Found'
  <2>1. OnlyMoves(w) /\ pc'[w] \in {"work", "idle"}
    BY <1>2, <1>13, Zenon DEF OnlyMoves, CheckWorkQueue, Goto
  <2>. QED
    BY <1>12, <1>13, <1>2, <2>1, MoverIdle, Zenon DEF CheckWorkQueue, table, Lists, Goto
<1>14. ASSUME NEW f \in Flow, RecyclerFlow(f) PROVE Found'
  BY <1>14, <1>12, MoverFound, Zenon DEF RecyclerFlow, Lists, table, OnlyMoves, Found, WalkInRow, WantedInRow
<1>15. ASSUME NEW w \in Worker, LookupNone(w) \/ PacketDone(w) \/ PacketNoFlow(w) PROVE Found'
  <2>1. OnlyMoves(w) /\ pc'[w] = "house"
    BY <1>15, Zenon DEF OnlyMoves, LookupNone, PacketDone, PacketNoFlow, UnlockRow, Goto, table, flows
  <2>. QED
    BY <1>1, <1>2, <1>15, <2>1, MoverIdle, Zenon DEF LookupNone, PacketDone, PacketNoFlow, UnlockRow, Goto,
       table, flows
<1>16. ASSUME NEW w \in Worker, ProcessInjectedFlows(w) PROVE Found'
  BY <1>16, <1>1, <1>2, MoverIdle, Zenon DEF ProcessInjectedFlows, Goto, table, flows, OnlyMoves
<1>17. ASSUME NEW t \in {Manager, Unix}, walk[t] = {}, UNCHANGED <<head, key, walk, pkt>>,
              pc'[t] \notin {"walk", "row", "want", "new", "reuse", "proc"},
              \A u \in Thread : u # t => pc'[u] = pc[u] /\ row'[u] = row[u] /\ cur'[u] = cur[u]
       PROVE  Found'
  BY <1>17, <1>1, MoverIdle DEF OnlyMoves
<1>18. ASSUME BatchStart \/ EvictedDone \/ BatchDone \/ SentUnlock PROVE Found'
  <2>1. pc'[Manager] \in {"rows", "idle", "aside"} /\ \A u \in Thread : u # Manager => pc'[u] = pc[u]
    BY <1>18, Zenon DEF BatchStart, EvictedDone, BatchDone, SentUnlock, Goto
  <2>. QED
    BY <1>2, <1>17, <1>18, <2>1, Zenon DEF BatchStart, EvictedDone, BatchDone, SentUnlock, table, flows
<1>19. ASSUME RowDone PROVE Found'
  BY <1>17, <1>19, Zenon DEF RowDone, UnlockRow, Goto, flows
<1>20. ASSUME NEW f \in Flow, SendToLocalThread(f) \/ AsideRecycle(f) PROVE Found'
  <2>1. pc'[Manager] \in {"sent", "idle", "aside"} /\ \A u \in Thread : u # Manager => pc'[u] = pc[u]
    BY <1>20, Zenon DEF SendToLocalThread, AsideRecycle, Goto
  <2>. QED
    BY <1>2, <1>17, <1>20, <2>1, Zenon DEF SendToLocalThread, AsideRecycle, table, flows
<1>21. ASSUME UnixStep PROVE Found'
  <2>1. /\ pc[Unix] \in {"want", "read"} /\ UNCHANGED <<head, key, walk, pkt>>
        /\ row' = row \/ row' = [row EXCEPT ![Unix] = None]
        /\ cur' = cur \/ cur' = [cur EXCEPT ![Unix] = None]
        /\ pc' = [pc EXCEPT ![Unix] = "read"] \/ pc' = [pc EXCEPT ![Unix] = "idle"]
    BY <1>21, Zenon DEF UnixStep, FlowByIdLock, FlowByIdDone, UnlockRow, Goto, table, flows
  <2>. QED
    BY <1>2, <1>17, <2>1
<1>22. ASSUME NEW f \in Flow, FlowByIdRow(f) PROVE Found'
  <2>1. PICK r \in Row : f \in head[r] /\ row' = [row EXCEPT ![Unix] = r]
    BY <1>22, Zenon DEF FlowByIdRow, LockRow
  <2>. QED
    BY <1>1, <1>22, <1>2, <2>1, MoverFound, Zenon DEF OnlyMoves, FlowByIdRow, Goto, flows, WalkInRow,
       WantedInRow
<1>23. ASSUME UNCHANGED <<head, key, pc, row, walk, cur, pkt>> PROVE Found'
  BY <1>23 DEF Found, WalkInRow, WantedInRow, PacketRow, PacketFlow, NonePassedBy
<1>24. ASSUME NEW r \in Row, RowStart(r) PROVE Found'
  <2>1. CASE /\ pc' = [pc EXCEPT ![Manager] = "row"] /\ row' = [row EXCEPT ![Manager] = r]
             /\ walk' = [walk EXCEPT ![Manager] = head[r]] /\ UNCHANGED <<head, key, cur, pkt>>
    BY <2>1, <1>1, MoverFound, Zenon DEF OnlyMoves, WalkInRow, WantedInRow
  <2>. QED
    BY <1>23, <1>24, <2>1, Zenon DEF RowStart, LockRow, Goto, flows
<1>25. ASSUME NEW f \in Flow, RowKeepFlow(f) \/ RowTimeoutFlow(f) PROVE Found'
  <2>1. /\ pc[Manager] = "row" /\ lock[f] = None /\ walk' = [walk EXCEPT ![Manager] = @ \ {f}]
        /\ head' = head \/ head' = [head EXCEPT ![row[Manager]] = @ \ {f}]
        /\ UNCHANGED <<key, pc, row, cur, pkt>>
    BY <1>25, Zenon DEF RowKeepFlow, RowTimeoutFlow, table, flows
  <2>2. WalkInRow(Manager)'
    BY <2>1 DEF WalkInRow, Found
  <2>. QED
    BY <1>1, <2>1, OwnRow, <2>2, MoverFound, Zenon DEF OnlyMoves, WantedInRow
<1>26. ASSUME NEW w \in Worker, FlowUpdateState(w) PROVE Found'
  BY <1>23, <1>26, Zenon DEF FlowUpdateState, flows
<1>27. ASSUME RecyclerExtract \/ \E f \in Flow : ClearEvicted(f) PROVE Found'
  BY <1>23, <1>27, Zenon DEF RecyclerExtract, ClearEvicted, table, flows
<1>28. ASSUME NEW r \in Row, TimePasses(r) PROVE Found'
  BY <1>23, <1>28, Zenon DEF TimePasses, flows
<1>29. CASE UNCHANGED vars
  BY <1>23, <1>29, Zenon DEF vars, table, flows
<1>. QED
  BY <1>3, <1>5, <1>6, <1>7, <1>9, <1>10, <1>11, <1>13, <1>14, <1>15, <1>16, <1>18, <1>19, <1>20, <1>21, <1>22,
     <1>24, <1>25, <1>26, <1>27, <1>28, <1>29, Zenon DEF Next, WorkerStep, LookupFlow, GetFlow, ManagerStep,
     RecyclerStep
=============================================================================
