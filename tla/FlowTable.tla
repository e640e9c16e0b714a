------------------------------ MODULE FlowTable ------------------------------
(***************************************************************************)
(* The flow hash and the life of a flow (flow-hash.c, flow-worker.c,       *)
(* flow-manager.c, flow-timeout.c): packet threads look flows up and make  *)
(* them, the flow manager times them out, the recycler gives them back,    *)
(* and the unix socket thread reads one.  A row lock (FBLOCK) protects the *)
(* lists of a row, a flow lock (FLOWLOCK) the contents of a flow.          *)
(*                                                                         *)
(* Lists are sets: a walk may meet the flows of a row in any order.  A     *)
(* walk works from the list it found when it took the row lock.  Whether a *)
(* flow has timed out is left open; only whether its row is due, not due   *)
(* yet, or marked empty is kept of next_ts.  A critical section that waits *)
(* for nothing is one step.  The spare queues and the pool are one set     *)
(* (FlowSparePool has the detail), so a thread may find its own empty at   *)
(* any time.                                                               *)
(***************************************************************************)
EXTENDS Naturals

CONSTANTS Flow,       \* the flow structures memcap allows
          Key,        \* 5-tuples
          TcpKey,     \* those of TCP sessions
          Row,        \* hash rows
          hash,       \* the row of each key
          Worker, Manager, Recycler, Unix,   \* threads
          None

Thread == Worker \cup {Manager, Recycler, Unix}

ASSUME ThreadAssumption ==
    /\ Manager \notin Worker /\ Recycler \notin Worker /\ Unix \notin Worker
    /\ Manager # Recycler /\ Manager # Unix /\ Recycler # Unix
    /\ None \notin Thread \cup Flow \cup Key \cup Row
ASSUME KeyAssumption == TcpKey \subseteq Key /\ hash \in [Key -> Row]
ASSUME StatusAssumption == "free" \notin Key /\ "ending" \notin Key

VARIABLES rowLock, lock,     \* holder of each row lock and flow lock
          head, evicted,     \* the two lists of each row
          nextTs,            \* next_ts of each row: "due", "later" or "never"
          fb, key, owner,    \* of each flow: fb, its tuple, thread_id[0]
          logged,            \* flow records written in this life of the flow
          work, inject,      \* each worker's work_queue and flow_queue
          spare,             \* flows ready for use
          todoRows, evl, aside,   \* flow manager: rows left of the batch, the
                                  \* evicted list it took, its aside_queue
          recycleQ, recList,      \* flow_recycle_q, what the recycler took of it
          pc, row, walk, cur,     \* of each thread: place, row it has locked, flows
                                  \* of it still to visit, flow in hand
          pkt, check              \* of each worker: tuple of its packet, timeout_check

table == <<rowLock, head, evicted, nextTs>>
flows == <<fb, key, owner, logged>>
fm == <<todoRows, evl, aside>>
rec == <<recycleQ, recList>>
vars == <<table, lock, flows, work, inject, spare, fm, rec, pc, row, walk, cur, pkt, check>>

Init ==
    /\ rowLock = [r \in Row |-> None] /\ lock = [f \in Flow |-> None]
    /\ head = [r \in Row |-> {}] /\ evicted = [r \in Row |-> {}]
    /\ nextTs = [r \in Row |-> "due"]
    /\ fb = [f \in Flow |-> None] /\ key = [f \in Flow |-> None]
    /\ owner = [f \in Flow |-> None] /\ logged = [f \in Flow |-> 0]
    /\ work = [w \in Worker |-> {}] /\ inject = [w \in Worker |-> {}]
    /\ spare = Flow
    /\ todoRows = {} /\ evl = {} /\ aside = {} /\ recycleQ = {} /\ recList = {}
    /\ pc = [t \in Thread |-> "idle"] /\ row = [t \in Thread |-> None]
    /\ walk = [t \in Thread |-> {}] /\ cur = [t \in Thread |-> None]
    /\ pkt = [w \in Worker |-> None] /\ check = [w \in Worker |-> FALSE]

-----------------------------------------------------------------------------
(* Steps shared by the threads. *)

Goto(t, l) == pc' = [pc EXCEPT ![t] = l]
LockRow(t, r) ==
    /\ rowLock[r] = None
    /\ rowLock' = [rowLock EXCEPT ![r] = t]
    /\ row' = [row EXCEPT ![t] = r]
UnlockRow(t) ==
    /\ rowLock' = [rowLock EXCEPT ![row[t]] = None]
    /\ row' = [row EXCEPT ![t] = None]

\* OutputFlowLog, then FlowClearMemory: the end of a life.
LogAndClear(f) ==
    /\ logged' = [logged EXCEPT ![f] = @ + 1]
    /\ key' = [key EXCEPT ![f] = None]
    /\ owner' = [owner EXCEPT ![f] = None]

-----------------------------------------------------------------------------
(* A worker: FlowGetFlowFromHash. *)

\* In emergency mode timeouts are checked whatever next_ts says.
LookupStart(w, k) ==
    /\ pc[w] = "idle"
    /\ LockRow(w, hash[k])
    /\ pkt' = [pkt EXCEPT ![w] = k]
    /\ \E emerg \in BOOLEAN :
          check' = [check EXCEPT ![w] = emerg \/ nextTs[hash[k]] = "due"]
    /\ walk' = [walk EXCEPT ![w] = head[hash[k]]]
    /\ Goto(w, IF head[hash[k]] = {} THEN "new" ELSE "walk")
    /\ UNCHANGED <<head, evicted, nextTs, lock, flows, work, inject, spare, fm, rec, cur>>

WalkOn(w, f) ==
    /\ walk' = [walk EXCEPT ![w] = @ \ {f}]
    /\ Goto(w, IF walk[w] = {f} THEN "new" ELSE "walk")

\* Not our flow and no timeout check, or not timed out: on to the next one.
LookupSkip(w, f) ==
    /\ pc[w] = "walk" /\ f \in walk[w] /\ key[f] # pkt[w]
    /\ check[w] => lock[f] = None
    /\ WalkOn(w, f)
    /\ UNCHANGED <<table, lock, flows, work, inject, spare, fm, rec, row, cur, pkt, check>>

FlowBelongsToUs(w, f) == key[f] \notin TcpKey \/ owner[f] = w

\* Mutant: takes TCP flows of other threads into its own work_queue.
MoveToWorkQueueAlways(w, f) ==
    /\ fb' = [fb EXCEPT ![f] = None]
    /\ work' = [work EXCEPT ![w] = @ \cup {f}]
    /\ UNCHANGED <<evicted, nextTs>>

\* Mutant: leaves next_ts alone when it fills the evicted list.
MoveToWorkQueueNoReset(w, f) ==
    IF FlowBelongsToUs(w, f)
    THEN /\ fb' = [fb EXCEPT ![f] = None]
         /\ work' = [work EXCEPT ![w] = @ \cup {f}]
         /\ UNCHANGED <<evicted, nextTs>>
    ELSE /\ evicted' = [evicted EXCEPT ![row[w]] = @ \cup {f}]
         /\ UNCHANGED <<fb, work, nextTs>>

\* Takes a flow off its row: to the work_queue, or, when it is a TCP flow of
\* another thread, to the evicted list for the flow manager.
MoveToWorkQueue(w, f) ==
    IF FlowBelongsToUs(w, f)
    THEN /\ fb' = [fb EXCEPT ![f] = None]
         /\ work' = [work EXCEPT ![w] = @ \cup {f}]
         /\ UNCHANGED <<evicted, nextTs>>
    ELSE /\ evicted' = [evicted EXCEPT ![row[w]] = @ \cup {f}]
         /\ nextTs' = [nextTs EXCEPT ![row[w]] = "due"]
         /\ UNCHANGED <<fb, work>>

LookupTimedOut(w, f) ==
    /\ pc[w] = "walk" /\ f \in walk[w] /\ check[w] /\ lock[f] = None
    /\ head' = [head EXCEPT ![row[w]] = @ \ {f}]
    /\ MoveToWorkQueue(w, f)
    /\ WalkOn(w, f)
    /\ UNCHANGED <<rowLock, lock, key, owner, logged, inject, spare, fm, rec, row, cur, pkt, check>>

\* The packet's flow: returned locked, with the row unlocked.
LookupFound(w, f) ==
    /\ pc[w] = "walk" /\ f \in walk[w] /\ key[f] = pkt[w] /\ lock[f] = None
    /\ lock' = [lock EXCEPT ![f] = w]
    /\ cur' = [cur EXCEPT ![w] = f]
    /\ walk' = [walk EXCEPT ![w] = {}]
    /\ UnlockRow(w)
    /\ Goto(w, "proc")
    /\ UNCHANGED <<head, evicted, nextTs, flows, work, inject, spare, fm, rec, pkt, check>>

\* The packet's flow, but TcpSessionPacketSsnReuse says the session is over.
LookupReuse(w, f) ==
    /\ pc[w] = "walk" /\ f \in walk[w] /\ key[f] = pkt[w] /\ key[f] \in TcpKey
    /\ lock[f] = None
    /\ lock' = [lock EXCEPT ![f] = w]
    /\ cur' = [cur EXCEPT ![w] = f]
    /\ walk' = [walk EXCEPT ![w] = {}]
    /\ Goto(w, "reuse")
    /\ UNCHANGED <<table, flows, work, inject, spare, fm, rec, row, pkt, check>>

\* FlowGetUsedFlow: the first flow of another row, both locks only tried.
UsedFlow(f) ==
    /\ lock[f] = None
    /\ \E r \in Row : f \in head[r] /\ rowLock[r] = None /\ nextTs[r] # "never"

\* FlowGetNew: a flow from the spare queue, or one in use (logged and cleared).
FlowGetNew(f) == f \in spare \/ UsedFlow(f)

\* What FlowInit and FlowUpdateState make of a new flow at the head of the row.
FlowInit(w, f, tid) ==
    /\ lock[f] = None
    /\ spare' = spare \ {f}
    /\ key' = [key EXCEPT ![f] = pkt[w]]
    /\ owner' = [owner EXCEPT ![f] = tid]
    /\ logged' = [logged EXCEPT ![f] = 0]
    /\ cur' = [cur EXCEPT ![w] = f]
    /\ UnlockRow(w)
    /\ Goto(w, "proc")

\* Mutant: FlowUpdateState does not reset next_ts.
LookupNewNoReset(w, f) ==
    /\ pc[w] = "new" /\ FlowGetNew(f)
    /\ FlowInit(w, f, w)
    /\ lock' = [lock EXCEPT ![f] = w]
    /\ head' = [r \in Row |-> IF r = row[w] THEN head[r] \cup {f} ELSE head[r] \ {f}]
    /\ fb' = [fb EXCEPT ![f] = row[w]]
    /\ UNCHANGED <<nextTs, evicted, work, inject, fm, rec, walk, pkt, check>>

LookupNew(w, f) ==
    /\ pc[w] = "new" /\ FlowGetNew(f)
    /\ FlowInit(w, f, w)
    /\ lock' = [lock EXCEPT ![f] = w]
    /\ head' = [r \in Row |-> IF r = row[w] THEN head[r] \cup {f} ELSE head[r] \ {f}]
    /\ nextTs' = [nextTs EXCEPT ![row[w]] = "due"]
    /\ fb' = [fb EXCEPT ![f] = row[w]]
    /\ UNCHANGED <<evicted, work, inject, fm, rec, walk, pkt, check>>

\* Mutant: forgets to evict the flow it replaces.
TcpReuseReplaceKeepsOld(w, f) ==
    /\ pc[w] = "reuse" /\ FlowGetNew(f)
    /\ FlowInit(w, f, owner[cur[w]])
    /\ lock' = [lock EXCEPT ![f] = w, ![cur[w]] = None]
    /\ head' = [r \in Row |-> IF r = row[w] THEN head[r] \cup {f} ELSE head[r] \ {f}]
    /\ nextTs' = [nextTs EXCEPT ![row[w]] = "due"]
    /\ fb' = [fb EXCEPT ![f] = row[w]]
    /\ UNCHANGED <<evicted, work, inject, fm, rec, walk, pkt, check>>

\* TcpReuseReplace and the eviction of the flow it replaces: the new flow takes
\* over the thread of the old one.
TcpReuseReplace(w, f) ==
    /\ pc[w] = "reuse" /\ FlowGetNew(f)
    /\ FlowInit(w, f, owner[cur[w]])
    /\ lock' = [lock EXCEPT ![f] = w, ![cur[w]] = None]
    /\ head' = [r \in Row |-> IF r = row[w] THEN (head[r] \cup {f}) \ {cur[w]}
                              ELSE head[r] \ {f}]
    /\ nextTs' = [nextTs EXCEPT ![row[w]] = "due"]
    /\ IF FlowBelongsToUs(w, cur[w])
       THEN /\ fb' = [fb EXCEPT ![f] = row[w], ![cur[w]] = None]
            /\ work' = [work EXCEPT ![w] = @ \cup {cur[w]}]
            /\ UNCHANGED evicted
       ELSE /\ fb' = [fb EXCEPT ![f] = row[w]]
            /\ evicted' = [evicted EXCEPT ![row[w]] = @ \cup {cur[w]}]
            /\ UNCHANGED work
    /\ UNCHANGED <<inject, fm, rec, walk, pkt, check>>

\* No flow to be had, or FlowCreateCheck wants none for this packet.
LookupNone(w) ==
    /\ pc[w] = "new"
    /\ UnlockRow(w)
    /\ Goto(w, "house")
    /\ UNCHANGED <<head, evicted, nextTs, lock, flows, work, inject, spare, fm, rec, walk, cur,
                   pkt, check>>

\* The same for a reused session: the old flow is evicted all the same.
ReuseNone(w) ==
    /\ pc[w] = "reuse"
    /\ lock' = [lock EXCEPT ![cur[w]] = None]
    /\ head' = [head EXCEPT ![row[w]] = @ \ {cur[w]}]
    /\ MoveToWorkQueue(w, cur[w])
    /\ cur' = [cur EXCEPT ![w] = None]
    /\ UnlockRow(w)
    /\ Goto(w, "house")
    /\ UNCHANGED <<key, owner, logged, inject, spare, fm, rec, walk, pkt, check>>

-----------------------------------------------------------------------------
(* A worker: the packet, and the housekeeping after it. *)

\* FlowUpdateState, any number of times while the packet is processed: it goes
\* through fb to the row, whose lock is not held.
FlowUpdateState(w) ==
    /\ pc[w] = "proc"
    /\ nextTs' = [nextTs EXCEPT ![fb[cur[w]]] = "due"]
    /\ UNCHANGED <<rowLock, head, evicted, lock, flows, work, inject, spare, fm, rec, pc, row,
                   walk, cur, pkt, check>>

PacketDone(w) ==
    /\ pc[w] = "proc"
    /\ lock' = [lock EXCEPT ![cur[w]] = None]
    /\ cur' = [cur EXCEPT ![w] = None]
    /\ Goto(w, "house")
    /\ UNCHANGED <<table, flows, work, inject, spare, fm, rec, row, walk, pkt, check>>

\* A packet without a flow, or the one a capture timeout makes up.
PacketNoFlow(w) ==
    /\ pc[w] = "idle"
    /\ Goto(w, "house")
    /\ UNCHANGED <<table, lock, flows, work, inject, spare, fm, rec, row, walk, cur, pkt, check>>

\* FlowWorkerProcessInjectedFlows.
ProcessInjectedFlows(w) ==
    /\ pc[w] = "house"
    /\ work' = [work EXCEPT ![w] = @ \cup inject[w]]
    /\ inject' = [inject EXCEPT ![w] = {}]
    /\ pkt' = [pkt EXCEPT ![w] = None]
    /\ check' = [check EXCEPT ![w] = FALSE]
    /\ Goto(w, IF work[w] \cup inject[w] = {} THEN "idle" ELSE "work")
    /\ UNCHANGED <<table, lock, flows, spare, fm, rec, row, walk, cur>>

\* Mutant: does not lock the flow.
CheckWorkQueueNoLock(w, f) ==
    /\ pc[w] = "work" /\ f \in work[w]
    /\ work' = [work EXCEPT ![w] = @ \ {f}]
    /\ LogAndClear(f)
    /\ spare' = spare \cup {f}
    /\ Goto(w, "idle")
    /\ UNCHANGED <<table, lock, fb, inject, fm, rec, row, walk, cur, pkt, check>>

\* CheckWorkQueue: finish one flow.  It goes on to the next one, or leaves the
\* rest for the next packet when max_work is reached.
CheckWorkQueue(w, f) ==
    /\ pc[w] = "work" /\ f \in work[w] /\ lock[f] = None
    /\ work' = [work EXCEPT ![w] = @ \ {f}]
    /\ LogAndClear(f)
    /\ spare' = spare \cup {f}
    /\ \/ Goto(w, "idle")
       \/ work[w] # {f} /\ UNCHANGED pc
    /\ UNCHANGED <<table, lock, fb, inject, fm, rec, row, walk, cur, pkt, check>>

-----------------------------------------------------------------------------
(* The flow manager: FlowTimeoutHash over one batch of rows. *)

BatchStart ==
    /\ pc[Manager] = "idle"
    /\ todoRows' = {r \in Row : nextTs[r] = "due"}
    /\ todoRows' # {}
    /\ Goto(Manager, "rows")
    /\ UNCHANGED <<table, lock, flows, work, inject, spare, evl, aside, rec, row, walk, cur,
                   pkt, check>>

\* next_ts is read again without the lock; then the lock is taken and the
\* evicted list transferred out of the bucket.
RowStart(r) ==
    /\ pc[Manager] = "rows" /\ r \in todoRows
    /\ todoRows' = todoRows \ {r}
    /\ IF nextTs[r] = "due"
       THEN /\ LockRow(Manager, r)
            /\ evl' = evicted[r]
            /\ evicted' = [evicted EXCEPT ![r] = {}]
            /\ walk' = [walk EXCEPT ![Manager] = head[r]]
            /\ Goto(Manager, "row")
       ELSE UNCHANGED <<rowLock, row, evl, evicted, walk, pc>>
    /\ UNCHANGED <<head, nextTs, lock, flows, work, inject, spare, aside, rec, cur, pkt, check>>

\* FlowManagerHashRowTimeout on one flow.  A timed out flow leaves the row with
\* its lock held.
RowKeepFlow(f) ==
    /\ pc[Manager] = "row" /\ f \in walk[Manager] /\ lock[f] = None
    /\ walk' = [walk EXCEPT ![Manager] = @ \ {f}]
    /\ UNCHANGED <<table, lock, flows, work, inject, spare, fm, rec, pc, row, cur, pkt, check>>

\* Mutant: does not wait for the flow's lock.
RowTimeoutFlowNoLock(f) ==
    /\ pc[Manager] = "row" /\ f \in walk[Manager]
    /\ walk' = [walk EXCEPT ![Manager] = @ \ {f}]
    /\ lock' = [lock EXCEPT ![f] = Manager]
    /\ head' = [head EXCEPT ![row[Manager]] = @ \ {f}]
    /\ fb' = [fb EXCEPT ![f] = None]
    /\ aside' = aside \cup {f}
    /\ UNCHANGED <<rowLock, evicted, nextTs, key, owner, logged, work, inject, spare, todoRows,
                   evl, rec, pc, row, cur, pkt, check>>

RowTimeoutFlow(f) ==
    /\ pc[Manager] = "row" /\ f \in walk[Manager] /\ lock[f] = None
    /\ walk' = [walk EXCEPT ![Manager] = @ \ {f}]
    /\ lock' = [lock EXCEPT ![f] = Manager]
    /\ head' = [head EXCEPT ![row[Manager]] = @ \ {f}]
    /\ fb' = [fb EXCEPT ![f] = None]
    /\ aside' = aside \cup {f}
    /\ UNCHANGED <<rowLock, evicted, nextTs, key, owner, logged, work, inject, spare, todoRows,
                   evl, rec, pc, row, cur, pkt, check>>

\* next_ts becomes the earliest timeout met, or "never" for an empty row.
RowDone ==
    /\ pc[Manager] = "row" /\ walk[Manager] = {}
    /\ IF head[row[Manager]] = {} /\ evicted[row[Manager]] = {}
       THEN nextTs' = [nextTs EXCEPT ![row[Manager]] = "never"]
       ELSE \E ts \in {"due", "later"} : nextTs' = [nextTs EXCEPT ![row[Manager]] = ts]
    /\ UnlockRow(Manager)
    /\ Goto(Manager, "evict")
    /\ UNCHANGED <<head, evicted, lock, flows, work, inject, spare, fm, rec, walk, cur, pkt, check>>

\* FlowManagerHashRowClearEvictedList, without the row lock.
ClearEvicted(f) ==
    /\ pc[Manager] = "evict" /\ f \in evl /\ lock[f] = None
    /\ lock' = [lock EXCEPT ![f] = Manager]
    /\ fb' = [fb EXCEPT ![f] = None]
    /\ evl' = evl \ {f}
    /\ aside' = aside \cup {f}
    /\ UNCHANGED <<table, key, owner, logged, work, inject, spare, todoRows, rec, pc, row, walk,
                   cur, pkt, check>>

EvictedDone ==
    /\ pc[Manager] = "evict" /\ evl = {}
    /\ Goto(Manager, "rows")
    /\ UNCHANGED <<table, lock, flows, work, inject, spare, fm, rec, row, walk, cur, pkt, check>>

BatchDone ==
    /\ pc[Manager] = "rows" /\ todoRows = {}
    /\ Goto(Manager, IF aside = {} THEN "idle" ELSE "aside")
    /\ UNCHANGED <<table, lock, flows, work, inject, spare, fm, rec, row, walk, cur, pkt, check>>

\* Mutant: misses the continue, so the flow is recycled as well.
SendToLocalThreadNoContinue(f) ==
    /\ pc[Manager] = "aside" /\ f \in aside /\ key[f] \in TcpKey
    /\ aside' = aside \ {f}
    /\ inject' = [inject EXCEPT ![owner[f]] = @ \cup {f}]
    /\ recycleQ' = recycleQ \cup {f}
    /\ cur' = [cur EXCEPT ![Manager] = f]
    /\ Goto(Manager, "sent")
    /\ UNCHANGED <<table, lock, flows, work, spare, todoRows, evl, recList, row, walk, pkt, check>>

\* ProcessAsideQueue: a TCP flow that needs reassembly goes to its own thread,
\* and is unlocked after that ...
SendToLocalThread(f) ==
    /\ pc[Manager] = "aside" /\ f \in aside /\ key[f] \in TcpKey
    /\ aside' = aside \ {f}
    /\ inject' = [inject EXCEPT ![owner[f]] = @ \cup {f}]
    /\ cur' = [cur EXCEPT ![Manager] = f]
    /\ Goto(Manager, "sent")
    /\ UNCHANGED <<table, lock, flows, work, spare, todoRows, evl, rec, row, walk, pkt, check>>

SentUnlock ==
    /\ pc[Manager] = "sent"
    /\ lock' = [lock EXCEPT ![cur[Manager]] = None]
    /\ cur' = [cur EXCEPT ![Manager] = None]
    /\ Goto(Manager, IF aside = {} THEN "idle" ELSE "aside")
    /\ UNCHANGED <<table, flows, work, inject, spare, fm, rec, row, walk, pkt, check>>

\* ... any other is unlocked and put in the recycle queue.
AsideRecycle(f) ==
    /\ pc[Manager] = "aside" /\ f \in aside
    /\ aside' = aside \ {f}
    /\ lock' = [lock EXCEPT ![f] = None]
    /\ recycleQ' = recycleQ \cup {f}
    /\ Goto(Manager, IF aside = {f} THEN "idle" ELSE "aside")
    /\ UNCHANGED <<table, flows, work, inject, spare, todoRows, evl, recList, row, walk, cur,
                   pkt, check>>

-----------------------------------------------------------------------------
(* The recycler and the unix socket thread. *)

RecyclerExtract ==
    /\ pc[Recycler] = "idle" /\ recList = {} /\ recycleQ # {}
    /\ recList' = recycleQ /\ recycleQ' = {}
    /\ UNCHANGED <<table, lock, flows, work, inject, spare, fm, pc, row, walk, cur, pkt, check>>

RecyclerFlow(f) ==
    /\ f \in recList /\ lock[f] = None
    /\ recList' = recList \ {f}
    /\ LogAndClear(f)
    /\ spare' = spare \cup {f}
    /\ UNCHANGED <<table, lock, fb, work, inject, fm, recycleQ, pc, row, walk, cur, pkt, check>>

\* FlowGetExistingFlowFromFlowId: waits for the flow with the row locked.
FlowByIdRow(f) ==
    /\ pc[Unix] = "idle"
    /\ \E r \in Row : f \in head[r] /\ LockRow(Unix, r)
    /\ cur' = [cur EXCEPT ![Unix] = f]
    /\ Goto(Unix, "want")
    /\ UNCHANGED <<head, evicted, nextTs, lock, flows, work, inject, spare, fm, rec, walk, pkt,
                   check>>

FlowByIdLock ==
    /\ pc[Unix] = "want" /\ lock[cur[Unix]] = None
    /\ lock' = [lock EXCEPT ![cur[Unix]] = Unix]
    /\ UnlockRow(Unix)
    /\ Goto(Unix, "read")
    /\ UNCHANGED <<head, evicted, nextTs, flows, work, inject, spare, fm, rec, walk, cur, pkt,
                   check>>

\* Mutant: leaves the flow locked.
FlowByIdDoneNoUnlock ==
    /\ pc[Unix] = "read"
    /\ cur' = [cur EXCEPT ![Unix] = None]
    /\ Goto(Unix, "idle")
    /\ UNCHANGED <<table, lock, flows, work, inject, spare, fm, rec, row, walk, pkt, check>>

FlowByIdDone ==
    /\ pc[Unix] = "read"
    /\ lock' = [lock EXCEPT ![cur[Unix]] = None]
    /\ cur' = [cur EXCEPT ![Unix] = None]
    /\ Goto(Unix, "idle")
    /\ UNCHANGED <<table, flows, work, inject, spare, fm, rec, row, walk, pkt, check>>

\* The clock reaches a row's next_ts.
TimePasses(r) ==
    /\ nextTs[r] = "later"
    /\ nextTs' = [nextTs EXCEPT ![r] = "due"]
    /\ UNCHANGED <<rowLock, head, evicted, lock, flows, work, inject, spare, fm, rec, pc, row,
                   walk, cur, pkt, check>>

-----------------------------------------------------------------------------
LookupFlow(w) ==
    \E f \in Flow : LookupSkip(w, f) \/ LookupTimedOut(w, f) \/ LookupFound(w, f)
                    \/ LookupReuse(w, f)
GetFlow(w) == \E f \in Flow : LookupNew(w, f) \/ TcpReuseReplace(w, f)

\* A worker with a packet in hand gets on with it.
WorkerStep(w) ==
    \/ LookupFlow(w) \/ GetFlow(w) \/ LookupNone(w) \/ ReuseNone(w)
    \/ PacketDone(w) \/ ProcessInjectedFlows(w)
    \/ \E f \in Flow : CheckWorkQueue(w, f)

ManagerStep ==
    \/ BatchStart \/ RowDone \/ EvictedDone \/ BatchDone \/ SentUnlock
    \/ \E r \in Row : RowStart(r)
    \/ \E f \in Flow : RowKeepFlow(f) \/ RowTimeoutFlow(f) \/ ClearEvicted(f)
                       \/ SendToLocalThread(f) \/ AsideRecycle(f)

RecyclerStep == RecyclerExtract \/ \E f \in Flow : RecyclerFlow(f)
UnixStep == FlowByIdLock \/ FlowByIdDone

Next ==
    \/ \E w \in Worker : \/ WorkerStep(w) \/ FlowUpdateState(w) \/ PacketNoFlow(w)
                         \/ \E k \in Key : LookupStart(w, k)
    \/ ManagerStep \/ RecyclerStep
    \/ UnixStep \/ \E f \in Flow : FlowByIdRow(f)
    \/ \E r \in Row : TimePasses(r)

Spec == Init /\ [][Next]_vars

\* Every thread keeps running and every queue is first in, first out.  A row lock
\* that is free again and again is obtained; an idle packet thread is woken by
\* the capture timeout.
FairSpec ==
    /\ Spec
    /\ \A w \in Worker :
          /\ WF_vars(WorkerStep(w)) /\ WF_vars(PacketNoFlow(w))
          /\ \A f \in Flow : SF_vars(CheckWorkQueue(w, f))
    /\ WF_vars(ManagerStep) /\ \A r \in Row : SF_vars(RowStart(r))
    /\ WF_vars(RecyclerExtract) /\ \A f \in Flow : WF_vars(RecyclerFlow(f))
    /\ WF_vars(UnixStep)

-----------------------------------------------------------------------------
\* A thread has a row locked, and a flow in hand, exactly where the code has.
TypeOK ==
    /\ rowLock \in [Row -> Thread \cup {None}] /\ lock \in [Flow -> Thread \cup {None}]
    /\ head \in [Row -> SUBSET Flow] /\ evicted \in [Row -> SUBSET Flow]
    /\ nextTs \in [Row -> {"due", "later", "never"}]
    /\ fb \in [Flow -> Row \cup {None}] /\ key \in [Flow -> Key \cup {None}]
    /\ owner \in [Flow -> Worker \cup {None}] /\ logged \in [Flow -> Nat]
    /\ work \in [Worker -> SUBSET Flow] /\ inject \in [Worker -> SUBSET Flow]
    /\ spare \subseteq Flow
    /\ todoRows \subseteq Row /\ evl \subseteq Flow /\ aside \subseteq Flow
    /\ recycleQ \subseteq Flow /\ recList \subseteq Flow
    /\ pc \in [Thread -> {"idle", "walk", "new", "reuse", "proc", "house", "work", "rows",
                          "row", "evict", "aside", "sent", "want", "read"}]
    /\ row \in [Thread -> Row \cup {None}] /\ walk \in [Thread -> SUBSET Flow]
    /\ cur \in [Thread -> Flow \cup {None}]
    /\ pkt \in [Worker -> Key \cup {None}] /\ check \in [Worker -> BOOLEAN]
    /\ \A t \in Thread :
          /\ row[t] # None <=> pc[t] \in {"walk", "new", "reuse", "row", "want"}
          /\ cur[t] # None <=> pc[t] \in {"proc", "reuse", "sent", "want", "read"}

\* The lists a flow is on.
Places(f) ==
    {<<"head", r>> : r \in {r \in Row : f \in head[r]}}
    \cup {<<"evicted", r>> : r \in {r \in Row : f \in evicted[r]}}
    \cup {<<"work", w>> : w \in {w \in Worker : f \in work[w]}}
    \cup {<<"inject", w>> : w \in {w \in Worker : f \in inject[w]}}
    \cup {<<"queue", q>> : q \in {q \in 1..5 :
                f \in <<spare, evl, aside, recycleQ, recList>>[q]}}

\* All of these lists are linked through the one next pointer of a flow: whatever
\* the threads do, a flow is on exactly one of them, neither lost nor listed twice, and
\* the threads have locks and flows in hand as TypeOK says.
OnOneList == TypeOK /\ \A f \in Flow : \E l \in Places(f) : Places(f) = {l}

\* A packet's flow stays put: until its worker unlocks it, nobody takes it off its
\* row, gives it another tuple or gets its lock.
PacketFlowInHash ==
    \A w \in Worker : pc[w] = "proc" =>
        /\ lock[cur[w]] = w
        /\ key[cur[w]] = pkt[w] /\ cur[w] \in head[hash[pkt[w]]]

\* FlowUpdateState, which follows fb without the row lock, reaches the flow's row.
FbNamesRow ==
    \A w \in Worker : pc[w] = "proc" => fb[cur[w]] = hash[pkt[w]]

\* Two packets of one session never end up with two flows.
OneFlowPerKey ==
    \A k \in Key, r \in Row : \A f, g \in head[r] : key[f] = k /\ key[g] = k => f = g

\* A row marked empty, which every walk skips until a packet resets it, is empty.
NeverMeansEmpty ==
    \A r \in Row : nextTs[r] = "never" => head[r] = {} /\ evicted[r] = {}

\* A spare flow is nobody's: unlocked, off the hash and cleared, so that the next
\* life starts from nothing.
SpareFlowsClean ==
    \A f \in spare : lock[f] = None /\ fb[f] = None /\ key[f] = None /\ owner[f] = None

\* A flow record is written when a life ends and only then, whichever way the flow
\* went: never for a flow still in use, never twice.
LoggedOnce ==
    \A f \in Flow : logged[f] <= 1 /\ (f \notin spare => logged[f] = 0)

\* Only the thread that owns a TCP session finishes it: its work_queue holds no
\* TCP flow of another thread.
FinishedByOwner ==
    \A w \in Worker : \A f \in work[w] \cup inject[w] : FlowBelongsToUs(w, f)

\* A walk goes from flow to flow with the row locked: what it has yet to visit is
\* still in the row.
WalkStaysInRow ==
    \A t \in Thread : walk[t] # {} =>
        row[t] # None /\ rowLock[row[t]] = t /\ walk[t] \subseteq head[row[t]]

\* The flow engine's promise, FlowLifecycle: a flow in a row serves its tuple, one
\* on its way back to the spare flows is ending.
stBar ==
    [f \in Flow |-> IF \E r \in Row : f \in head[r] THEN key[f]
                   ELSE IF f \in spare THEN "free" ELSE "ending"]
Lifecycle == INSTANCE FlowLifecycle WITH st <- stBar, Free <- "free", Ending <- "ending"

\* Lookup, eviction, timeout and recycling keep that promise: no tuple ever has
\* two flows, no ended flow comes back before it was reported.
KeepsLifecycle == Lifecycle!Spec

\* A flow taken off its row, by whichever thread, is reported and spare again in
\* the end.
EndedFlowsFinish == Lifecycle!FairSpec

\* A packet always gets through the flow engine, whatever locks it waits for.
PacketsGetThrough == \A w \in Worker : pc[w] # "idle" ~> pc[w] = "idle"

=============================================================================
