-------------------------- MODULE DetectReloadProof --------------------------
(* For any number of workers and contexts: no worker uses a freed thread       *)
(* context, and the rules of a thread context that exists are in memory.       *)
EXTENDS DetectReload, FiniteSetTheorems, TLAPS

Busy == {"packet", "pseudo", "detect"}

\* The main thread has made a context that no worker has seen,
Fresh == {"add", "move", "dereference", "init", "error"}
\* or the workers have it, or are about to.
Swapped == {"swap", "wait", "free", "drain"}

\* The variables the argument needs, with their ranges.
Ranges ==
    /\ wpc \in [Worker -> Busy \cup {"idle", "done", "closed"}]
    /\ ctx \in [Worker -> Ctx \cup {None}]
    /\ slot \in [Worker -> Ctx] /\ oldDet \in [Worker -> Ctx \cup {None}]
    /\ i \in Int /\ threadsDone \in Int
    /\ det \subseteq Worker \X Ctx /\ used \subseteq det
    /\ \A w \in Worker : ctx[w] # None <=> wpc[w] \in Busy
    /\ \A w \in Worker : wpc[w] = "closed" => main \in {"kill", "exit"}
    /\ main \in Swapped \cup {"init", "error"} => i \in 1 .. NWorkers + 1
    /\ main = "init" => i # NWorkers + 1

\* The main thread's contexts, and that none of them is on the way to be freed.
Master ==
    /\ loaded \subseteq Ctx /\ freeList \subseteq loaded /\ list \subseteq Ctx
    /\ main # "exit" => current \in loaded \ freeList
    /\ old # None => main \in {"load", "add", "move", "dereference"}
    /\ main \in {"load", "add", "move", "dereference"} => old \in loaded
    /\ main \in {"load", "add"} => old = current
    /\ main \in Fresh \cup Swapped => new \in loaded \ freeList
    /\ main = "add" => new # current
    /\ main \in {"move", "dereference"} => current = new /\ old # new

\* Who has which thread context.
SlotOwned == \A w \in Worker : wpc[w] # "closed" => <<w, slot[w]>> \in det
NewOwned ==
    \A w \in Worker : main = "swap" \/ (main = "init" /\ w < i) => <<w, new>> \in det
OldOwned ==
    \A w \in Worker :
       main \in {"swap", "wait"} \/ (main \in {"free", "drain"} /\ w >= i) =>
           <<w, oldDet[w]>> \in det
Extra(w, c) ==
    \/ c = new /\ ((main = "init" /\ w < i) \/ (main = "error" /\ w >= i) \/ main = "swap")
    \/ c = oldDet[w] /\ (main \in {"swap", "wait"} \/ (main \in {"free", "drain"} /\ w >= i))
Owned ==
    \A w \in Worker, c \in Ctx :
       <<w, c>> \in det => (c = slot[w] /\ wpc[w] # "closed") \/ Extra(w, c)

\* What a worker can see of the new context,
Unseen ==
    \A w \in Worker :
       main \in Fresh => slot[w] # new /\ ctx[w] # new /\ <<w, new>> \notin used
OldKept ==
    \A w \in Worker :
       /\ main = "init" /\ w < i => oldDet[w] = slot[w]
       /\ main \in Swapped => oldDet[w] \in Ctx /\ oldDet[w] # new
       /\ main = "swap" /\ w >= i =>
             slot[w] = oldDet[w] /\ ctx[w] # new /\ <<w, new>> \notin used
       /\ main = "swap" /\ w < i => slot[w] = new
       /\ main \in Swapped \ {"swap"} => slot[w] = new
\* and that a worker seen using it has left the old one.
Switched ==
    \A w \in Worker :
       main \in Swapped /\ <<w, new>> \in used => ctx[w] \in {None, new}
Counted ==
    /\ main = "wait" => threadsDone =< i - 1
    /\ main = "wait" /\ threadsDone = i - 1 => \A w \in 1 .. i - 1 : <<w, new>> \in used
    /\ main = "free" => \A w \in Worker : <<w, new>> \in used

\* ref_cnt counts the thread contexts and the reload's own reference.
Holders(c) == {w \in Worker : <<w, c>> \in det}
Counts ==
    \A c \in Ctx : refCnt[c] = Cardinality(Holders(c)) + (IF old = c THEN 1 ELSE 0)

IInv ==
    /\ Ranges /\ Master /\ SlotOwned /\ NewOwned /\ OldOwned /\ Owned
    /\ Unseen /\ OldKept /\ Switched /\ Counted
    /\ UsedContextsAlive /\ ThreadContextsLoaded
    /\ refCnt \in [Ctx -> Int] /\ Counts
-----------------------------------------------------------------------------
\* The workers that hold a thread context of c are finitely many; one more or one less
\* changes their number by one.
LEMMA HolderCount ==
    ASSUME NEW S \in SUBSET Worker, NEW w \in Worker
    PROVE  /\ Cardinality(S) \in Nat
           /\ w \notin S => Cardinality(S \cup {w}) = Cardinality(S) + 1
           /\ w \in S => Cardinality(S \ {w}) = Cardinality(S) - 1
           /\ S = {} <=> Cardinality(S) = 0
<1>1. IsFiniteSet(Worker)
  BY FS_Interval, NWorkersAssumption DEF Worker
<1>. QED
  BY <1>1, FS_Subset, FS_CardinalityType, FS_AddElement, FS_RemoveElement, FS_EmptySet, Zenon

\* A thread context is made or freed together with its reference.
LEMMA CountsAdd ==
    ASSUME Counts, refCnt \in [Ctx -> Int], NEW w \in Worker, NEW c \in Ctx,
           <<w, c>> \notin det, det' = det \cup {<<w, c>>}, AddRef(c, 1), UNCHANGED old
    PROVE  Counts' /\ refCnt' \in [Ctx -> Int]
<1>1. SUFFICES ASSUME NEW d \in Ctx
               PROVE refCnt'[d] = Cardinality(Holders(d)') + (IF old = d THEN 1 ELSE 0)
  BY DEF Counts, AddRef
<1>2. Holders(d) \in SUBSET Worker /\ (w \in Holders(d) <=> <<w, d>> \in det)
  BY Zenon DEF Holders
<1>3. CASE d = c
  <2>1. Holders(d)' = Holders(d) \cup {w}
    BY <1>3, Zenon DEF Holders
  <2>. QED
    BY <1>3, <1>2, <2>1, HolderCount DEF AddRef, Counts
<1>4. CASE d # c
  BY <1>4, Zenon DEF Holders, AddRef, Counts
<1>. QED
  BY <1>3, <1>4, Zenon

LEMMA CountsRemove ==
    ASSUME Counts, refCnt \in [Ctx -> Int], NEW w \in Worker, NEW c \in Ctx,
           <<w, c>> \in det, det' = det \ {<<w, c>>}, AddRef(c, -1), UNCHANGED old
    PROVE  Counts' /\ refCnt' \in [Ctx -> Int]
<1>1. SUFFICES ASSUME NEW d \in Ctx
               PROVE refCnt'[d] = Cardinality(Holders(d)') + (IF old = d THEN 1 ELSE 0)
  BY DEF Counts, AddRef
<1>2. Holders(d) \in SUBSET Worker /\ (w \in Holders(d) <=> <<w, d>> \in det)
  BY Zenon DEF Holders
<1>3. CASE d = c
  <2>1. Holders(d)' = Holders(d) \ {w}
    BY <1>3 DEF Holders
  <2>. QED
    BY <1>3, <1>2, <2>1, HolderCount DEF AddRef, Counts
<1>4. CASE d # c
  BY <1>4, Zenon DEF Holders, AddRef, Counts
<1>. QED
  BY <1>3, <1>4, Zenon

\* The reload takes a reference of its own, and gives it back.
LEMMA CountsOld ==
    ASSUME Counts, refCnt \in [Ctx -> Int], UNCHANGED det, NEW c \in Ctx,
           \/ old = None /\ old' = c /\ AddRef(c, 1)
           \/ old = c /\ old' = None /\ AddRef(c, -1)
    PROVE  Counts' /\ refCnt' \in [Ctx -> Int]
<1>1. SUFFICES ASSUME NEW d \in Ctx
               PROVE refCnt'[d] = Cardinality(Holders(d)) + (IF old' = d THEN 1 ELSE 0)
  BY DEF Counts, Holders, AddRef
<1>2. Cardinality(Holders(d)) \in Nat
  <2>1. Holders(d) \in SUBSET Worker /\ 1 \in Worker
    BY NWorkersAssumption DEF Holders, Worker
  <2>. QED
    BY <2>1, HolderCount, Zenon
<1>. QED
  BY <1>2, NoneAssumption DEF AddRef, Counts

\* Steps that leave the contexts and their counts alone.
LEMMA CountsKept ==
    ASSUME Counts, UNCHANGED <<det, refCnt, old>>
    PROVE  Counts'
  BY Zenon DEF Counts, Holders
-----------------------------------------------------------------------------
\* A worker reads its thread context, uses it, and leaves it.
LEMMA WorkerStep ==
    ASSUME IInv, NEW v \in Worker, WorkerNext(v)
    PROVE  IInv'
<1>. USE DEF IInv, Busy, Fresh, Swapped
<1>1. UNCHANGED <<slot, det, main, new, oldDet, i, threadsDone, loaded, current, list,
                  freeList, refCnt, old>>
  BY Zenon DEF WorkerNext, FlowWorkerStart, Detect, FlowWorkerHousekeeping, CheckWorkQueue, RunningDone,
     masterVars, reloadVars
<1>2. /\ Master' /\ NewOwned' /\ OldOwned' /\ ThreadContextsLoaded'
      /\ Counts' /\ refCnt' \in [Ctx -> Int]
  BY <1>1, CountsKept, Zenon DEF Master, NewOwned, OldOwned, ThreadContextsLoaded
<1>3. wpc[v] # "closed"
  BY Zenon DEF WorkerNext, FlowWorkerStart, Detect, FlowWorkerHousekeeping, CheckWorkQueue, RunningDone
<1>4. CASE FlowWorkerStart(v) \/ CheckWorkQueue(v)
  <2>1. /\ ctx' = [ctx EXCEPT ![v] = slot[v]] /\ UNCHANGED used
        /\ wpc' = [wpc EXCEPT ![v] = "packet"] \/ wpc' = [wpc EXCEPT ![v] = "pseudo"]
    BY <1>4, Zenon DEF FlowWorkerStart, CheckWorkQueue
  <2>2. Ranges'
    BY <1>1, <1>3, <2>1, NoneAssumption DEF Ranges
  <2>3. SlotOwned' /\ Owned' /\ Counted'
    BY <1>1, <1>3, <2>1 DEF Ranges, SlotOwned, Owned, Counted, Extra
  <2>4. Unseen' /\ OldKept'
    BY <1>1, <1>3, <2>1 DEF Ranges, Unseen, OldKept
  <2>5. Switched'
    BY <1>1, <2>1, NWorkersAssumption DEF Ranges, OldKept, Switched, Worker
  <2>6. UsedContextsAlive'
    BY <1>1, <1>3, <2>1, Zenon DEF Ranges, SlotOwned, UsedContextsAlive
  <2>. QED
    BY <1>1, <1>2, <2>2, <2>3, <2>4, <2>6, <2>5, Zenon
<1>5. CASE Detect(v)
  <2>1. /\ wpc' = [wpc EXCEPT ![v] = "detect"] /\ wpc[v] \in Busy /\ UNCHANGED ctx
        /\ used' = used \cup {<<v, ctx[v]>>} /\ ctx[v] \in Ctx /\ <<v, ctx[v]>> \in det
    BY <1>5, Zenon DEF Detect, Ranges, UsedContextsAlive
  <2>2. SlotOwned' /\ Owned' /\ Counted'
    BY <1>1, <1>3, <2>1 DEF Ranges, SlotOwned, Owned, Counted, Extra
  <2>3. Unseen' /\ OldKept' /\ Switched'
    BY <1>1, <1>3, <2>1, Zenon DEF Ranges, Unseen, OldKept, Switched
  <2>. QED
    BY <1>1, <1>2, <1>3, <2>1, <2>2, <2>3, Zenon DEF Ranges, UsedContextsAlive
<1>6. CASE FlowWorkerHousekeeping(v) \/ RunningDone(v)
  <2>1. /\ wpc' = [wpc EXCEPT ![v] = "idle"] \/ wpc' = [wpc EXCEPT ![v] = "done"]
        /\ ctx' = [ctx EXCEPT ![v] = None] /\ UNCHANGED used
    BY <1>6 DEF FlowWorkerHousekeeping, RunningDone, Ranges
  <2>2. Ranges'
    BY <1>1, <1>3, <2>1 DEF Ranges
  <2>3. SlotOwned' /\ Owned' /\ Counted'
    BY <1>1, <1>3, <2>1 DEF Ranges, SlotOwned, Owned, Counted, Extra
  <2>4. Unseen' /\ OldKept' /\ Switched'
    BY <1>1, <1>3, <2>1, NoneAssumption DEF Ranges, Master, Unseen, OldKept, Switched
  <2>5. UsedContextsAlive'
    BY <1>1, <2>1, Zenon DEF Ranges, UsedContextsAlive
  <2>. QED
    BY <1>1, <1>2, <2>2, <2>3, <2>4, <2>5, Zenon
<1>. QED
  BY <1>4, <1>5, <1>6, Zenon DEF WorkerNext

\* Requests, and the main thread's steps that touch no thread context.
LEMMA QuietStep ==
    ASSUME IInv,
           UNCHANGED <<wpc, ctx, slot, det, used, masterVars, refCnt, old>>,
           \/ UNCHANGED <<main, new, oldDet, i, threadsDone>>
           \/ /\ main \notin Fresh \cup Swapped \cup {"load", "exit"}
              /\ main' \notin Fresh \cup Swapped \cup {"load", "exit"}
              /\ main = "kill" => main' = "kill"
              /\ UNCHANGED <<new, oldDet, i, threadsDone>>
    PROVE  IInv'
<1>. USE DEF IInv, Busy, Fresh, Swapped, masterVars
<1>1. Ranges' /\ Master' /\ UsedContextsAlive' /\ ThreadContextsLoaded'
  BY DEF Ranges, Master, UsedContextsAlive, ThreadContextsLoaded
<1>2. SlotOwned' /\ NewOwned' /\ OldOwned' /\ Owned'
  BY DEF SlotOwned, NewOwned, OldOwned, Owned, Extra
<1>. QED
  BY CountsKept, <1>1, <1>2, Zenon DEF Unseen, OldKept, Switched, Counted

\* The reload up to its new context: DetectEngineReload before the threads.
LEMMA LoadStep ==
    ASSUME IInv,
           \/ GetCurrent \/ LoadSignatures \/ LoadFails \/ DetectEngineAddToMaster
           \/ DetectEngineMoveToFreeList \/ DeReferenceOld
    PROVE  IInv'
<1>. USE DEF IInv, Busy, Fresh, Swapped
<1>1. UNCHANGED <<wpc, ctx, slot, det, used, oldDet, threadsDone>>
  BY Zenon DEF GetCurrent, LoadSignatures, LoadFails, DetectEngineAddToMaster, DetectEngineMoveToFreeList,
     DeReferenceOld, workerVars, reloadVars
<1>2. /\ main \in {"config", "load", "add", "move", "dereference"}
      /\ main' \in {"load", "add", "move", "dereference", "init", "finish"}
      /\ main' = "init" => i' = 1
      /\ main' # "init" => i' = i
      /\ i' \in Int
  BY DEF GetCurrent, LoadSignatures, LoadFails, DetectEngineAddToMaster, DetectEngineMoveToFreeList,
     DeReferenceOld, reloadVars, Ranges
<1>3. Ranges'
  BY <1>1, <1>2, NWorkersAssumption DEF Ranges
<1>4. Owned'
  BY <1>1, <1>2, Zenon DEF Owned, Extra
<1>5. Master' /\ Unseen' /\ ThreadContextsLoaded'
  <2>1. CASE LoadSignatures
    <3>1. /\ new' \in Ctx \ loaded /\ loaded' = loaded \cup {new'} /\ main = "load" /\ main' = "add"
          /\ UNCHANGED <<current, list, freeList, old>>
      BY <2>1, Zenon DEF LoadSignatures, Master
    <3>2. \A w \in Worker : slot[w] # new' /\ ctx[w] # new' /\ <<w, new'>> \notin det
      BY <3>1, NoneAssumption DEF Ranges, SlotOwned, UsedContextsAlive, ThreadContextsLoaded
    <3>. QED
      BY <1>1, <3>1, <3>2, Zenon DEF Ranges, Master, Unseen, ThreadContextsLoaded
  <2>2. CASE ~LoadSignatures
    <3>1. /\ UNCHANGED <<loaded, new>>
          /\ \/ main = "config" /\ main' = "load" /\ old' = current /\ UNCHANGED <<current, freeList>>
             \/ main = "config" /\ main' = "finish" /\ UNCHANGED <<old, current, freeList>>
             \/ main = "load" /\ main' = "finish" /\ old' = None /\ UNCHANGED <<current, freeList>>
             \/ main = "add" /\ main' = "move" /\ current' = new /\ UNCHANGED <<old, freeList>>
             \/ /\ main = "move" /\ main' = "dereference" /\ freeList' = freeList \cup {old}
                /\ UNCHANGED <<old, current>>
             \/ main = "dereference" /\ main' = "init" /\ old' = None /\ UNCHANGED <<current, freeList>>
      BY <2>2, Zenon DEF GetCurrent, LoadFails, DetectEngineAddToMaster, DetectEngineMoveToFreeList,
         DeReferenceOld, masterVars, reloadVars
    <3>2. list' \subseteq Ctx
      BY <2>2, Zenon DEF GetCurrent, LoadFails, DetectEngineAddToMaster, DetectEngineMoveToFreeList,
         DeReferenceOld, masterVars, Master
    <3>. QED
      BY <1>1, <3>1, <3>2, Zenon DEF Master, Unseen, ThreadContextsLoaded
  <2>. QED
    BY <2>1, <2>2, Zenon
<1>6. OldKept' /\ NewOwned'
  BY <1>1, <1>2, NWorkersAssumption DEF OldKept, NewOwned, Worker
<1>7. Counts' /\ refCnt' \in [Ctx -> Int]
  <2>1. CASE LoadSignatures
    <3>1. new' \in Ctx \ loaded /\ refCnt' = [refCnt EXCEPT ![new'] = 0] /\ UNCHANGED old
      BY <2>1, Zenon DEF LoadSignatures, Master
    <3>2. Holders(new') = {} /\ old # new'
      BY <3>1, NoneAssumption DEF Ranges, Master, ThreadContextsLoaded, Holders
    <3>3. 1 \in Worker
      BY NWorkersAssumption DEF Worker
    <3>4. \A c \in Ctx : refCnt'[c] = IF c = new' THEN 0 ELSE refCnt[c]
      BY <3>1, Zenon
    <3>5. SUFFICES ASSUME NEW c \in Ctx
                   PROVE  refCnt'[c] = Cardinality(Holders(c)) + (IF old = c THEN 1 ELSE 0)
      BY <3>1, <1>1, Zenon DEF Counts, Holders
    <3>6. CASE c = new'
      BY <3>2, FS_EmptySet, <3>4, <3>6
    <3>. QED
      BY <3>4, <3>6, Zenon DEF Counts
  <2>2. CASE \/ GetCurrent /\ main' = "load"
             \/ LoadFails \/ DeReferenceOld
    BY <1>1, CountsOld, <2>2, Zenon DEF Master, GetCurrent, LoadFails, DeReferenceOld
  <2>3. CASE \/ GetCurrent /\ main' # "load"
             \/ DetectEngineAddToMaster \/ DetectEngineMoveToFreeList
    BY <1>1, <2>3, CountsKept, Zenon DEF GetCurrent, DetectEngineAddToMaster, DetectEngineMoveToFreeList,
       reloadVars
  <2>. QED
    BY <2>1, <2>2, <2>3, Zenon
<1>. QED
  BY <1>3, <1>1, <1>2, <1>4, <1>5, <1>6, <1>7, Zenon DEF UsedContextsAlive, SlotOwned, OldOwned, Switched,
     Counted

\* DetectEngineReloadThreads makes the new thread contexts, or gives up.
LEMMA InitStep ==
    ASSUME IInv, ThreadCtxInitForReload \/ ReloadThreadsError
    PROVE  IInv'
<1>. USE DEF IInv, Busy, Fresh, Swapped
<1>1. /\ UNCHANGED <<wpc, ctx, slot, used, loaded, current, list, freeList, old, new, threadsDone>>
      /\ main = "init" /\ i \in Worker /\ i \in Int
  BY NWorkersAssumption DEF ThreadCtxInitForReload, ReloadThreadsError, workerVars, masterVars, Ranges, Worker
<1>2. main' \in {"init", "error", "swap"} /\ det \subseteq det' /\ det' \subseteq det \cup {<<i, new>>}
  BY <1>1, Zenon DEF ThreadCtxInitForReload, ReloadThreadsError
<1>3. UsedContextsAlive' /\ SlotOwned' /\ ThreadContextsLoaded'
  BY <1>1, <1>2 DEF Master, UsedContextsAlive, SlotOwned, ThreadContextsLoaded
<1>4. Master' /\ Counted' /\ Unseen' /\ Switched' /\ UsedContextsAlive' /\ SlotOwned'
      /\ ThreadContextsLoaded'
  BY <1>1, <1>2, <1>3, Zenon DEF Master, Counted, Unseen, Switched
<1>5. CASE ReloadThreadsError
  <2>1. UNCHANGED <<det, refCnt, oldDet>> /\ main' = "error" /\ i' = 1
    BY <1>5, Zenon DEF ReloadThreadsError
  <2>2. Ranges' /\ Counts' /\ refCnt' \in [Ctx -> Int]
    BY <1>1, <2>1, CountsKept, NWorkersAssumption DEF Ranges
  <2>3. Owned'
    BY <2>1, NWorkersAssumption, <1>1 DEF Worker, Owned, Extra
  <2>. QED
    BY <1>4, <2>2, <1>1, <2>1, <2>3, Zenon DEF NewOwned, OldOwned, OldKept
<1>6. CASE ThreadCtxInitForReload
  <2>1. /\ oldDet' = [oldDet EXCEPT ![i] = slot[i]] /\ det' = det \cup {<<i, new>>} /\ AddRef(new, 1)
        /\ \/ i < NWorkers /\ i' = i + 1 /\ main' = "init"
           \/ i = NWorkers /\ i' = 1 /\ main' = "swap"
    BY <1>1, <1>6, NWorkersAssumption DEF ThreadCtxInitForReload, Worker
  <2>2. new \in Ctx /\ <<i, new>> \notin det
    BY <1>1 DEF Master, Owned, Extra, Unseen
  <2>3. Counts' /\ refCnt' \in [Ctx -> Int]
    BY <1>1, <2>1, <2>2, CountsAdd, Zenon
  <2>4. Ranges'
    <3>1. i' \in 1 .. NWorkers + 1 /\ i' \in Int /\ (main' = "init" => i' # NWorkers + 1)
      BY <1>1, <2>1, NWorkersAssumption DEF Worker
    <3>2. oldDet' \in [Worker -> Ctx \cup {None}] /\ det' \subseteq Worker \X Ctx /\ used' \subseteq det'
      BY <1>1, <2>1, <2>2 DEF Ranges
    <3>. QED
      BY <1>1, <1>2, <3>1, <3>2, Zenon DEF Ranges
  <2>5. \A w \in Worker : oldDet'[w] = (IF w = i THEN slot[w] ELSE oldDet[w])
    BY <2>1, Zenon DEF Ranges
  <2>6. NewOwned'
    BY <1>1, <2>1, NWorkersAssumption DEF NewOwned, Worker
  <2>7. OldKept'
    BY <1>1, <2>1, <2>5, NWorkersAssumption DEF Ranges, OldKept, Unseen, Worker
  <2>8. \A w \in Worker : main' = "swap" => oldDet'[w] = slot[w]
    <3>. SUFFICES ASSUME NEW w \in Worker, main' = "swap" PROVE oldDet'[w] = slot[w]
      BY Zenon
    <3>1. w = i \/ w < i
      BY <2>1, NWorkersAssumption DEF Worker
    <3>. QED
      BY <1>1, <2>5, <3>1, Zenon DEF OldKept
  <2>9. OldOwned'
    BY <1>1, <2>1, <2>8, Zenon DEF OldOwned, SlotOwned, Ranges
  <2>10. Owned'
    <3>1. SUFFICES ASSUME NEW w \in Worker, NEW c \in Ctx, <<w, c>> \in det'
                   PROVE  (c = slot[w] /\ wpc[w] # "closed")' \/ Extra(w, c)'
      BY Zenon DEF Owned
    <3>2. CASE <<w, c>> \in det
      BY <1>1, <2>1, <3>2, NWorkersAssumption DEF Owned, Extra, Worker
    <3>3. CASE w = i /\ c = new
      BY <1>1, <2>1, <3>3, NWorkersAssumption DEF Extra, Worker
    <3>. QED
      BY <2>1, <3>1, <3>2, <3>3, Zenon
  <2>. QED
    BY <1>4, <2>3, <2>4, <2>6, <2>7, <2>9, <2>10, Zenon
<1>. QED
  BY <1>5, <1>6, Zenon

\* It swaps the pointers, and starts to wait.
LEMMA SwapStep ==
    ASSUME IInv, ReplaceDetectCtx \/ InjectPackets
    PROVE  IInv'
<1>. USE DEF IInv, Busy, Fresh, Swapped
<1>1. /\ UNCHANGED <<wpc, ctx, det, used, loaded, current, list, freeList, refCnt, old, new, oldDet>>
      /\ main = "swap" /\ i \in Int /\ new \in Ctx
      /\ \A w \in Worker : wpc[w] # "closed"
  BY Zenon DEF ReplaceDetectCtx, InjectPackets, workerVars, masterVars, Ranges, Master
<1>2. CASE ReplaceDetectCtx
  <2>1. /\ i \in Worker /\ slot' = [slot EXCEPT ![i] = new] /\ i' = i + 1
        /\ UNCHANGED <<main, threadsDone>>
    BY <1>2, Zenon DEF ReplaceDetectCtx
  <2>2. \A w \in Worker : slot'[w] = (IF w = i THEN new ELSE slot[w])
    BY <2>1, Zenon DEF Ranges
  <2>3. Ranges'
    BY <1>1, <2>1, NWorkersAssumption DEF Ranges, Worker
  <2>4. Master' /\ NewOwned' /\ OldOwned' /\ Unseen' /\ Switched' /\ Counted'
    BY <1>1, <2>1, Zenon DEF Master, NewOwned, OldOwned, Unseen, Switched, Counted
  <2>5. SlotOwned'
    BY <1>1, <2>1, <2>2 DEF SlotOwned, NewOwned
  <2>6. slot[i] = oldDet[i]
    <3>1. i >= i
      BY <1>1
    <3>. QED
      BY <1>1, <2>1, <3>1, Zenon DEF OldKept
  <2>7. Owned'
    BY <1>1, <2>1, <2>2, <2>6, Zenon DEF Owned, Extra
  <2>8. OldKept'
    <3>1. SUFFICES ASSUME NEW w \in Worker
                   PROVE  /\ oldDet[w] \in Ctx /\ oldDet[w] # new
                          /\ w >= i + 1 =>
                                slot'[w] = oldDet[w] /\ ctx[w] # new /\ <<w, new>> \notin used
                          /\ w < i + 1 => slot'[w] = new
      BY <1>1, <2>1, Zenon DEF OldKept
    <3>2. w \in Int
      BY NWorkersAssumption DEF Worker
    <3>. QED
      BY <1>1, <2>1, <2>2, <3>2 DEF OldKept
  <2>. QED
    BY <1>1, CountsKept, <2>4, <2>5, <2>8, <2>7, <2>3, Zenon DEF UsedContextsAlive, ThreadContextsLoaded
<1>3. CASE InjectPackets
  <2>1. /\ i > NWorkers /\ UNCHANGED slot /\ main' = "wait" /\ i' = 1 /\ threadsDone' = 0
    BY <1>3, Zenon DEF InjectPackets
  <2>2. \A w \in Worker : w < i /\ w \in Int
    BY <1>1, <2>1, NWorkersAssumption DEF Worker
  <2>3. Ranges'
    BY <1>1, <2>1, NWorkersAssumption DEF Ranges
  <2>4. Master' /\ Counted'
    BY <1>1, <2>1 DEF Master, Counted
  <2>5. NewOwned' /\ OldOwned' /\ Unseen' /\ Switched'
    BY <1>1, <2>1, Zenon DEF NewOwned, OldOwned, Unseen, Switched
  <2>6. SlotOwned' /\ Owned'
    BY <1>1, <2>1, <2>2, Zenon DEF SlotOwned, Owned, Extra, OldKept
  <2>7. OldKept'
    BY <1>1, <2>1, <2>2, Zenon DEF OldKept
  <2>. QED
    BY <1>1, CountsKept, <2>5, <2>6, <2>7, <2>3, <2>4, Zenon DEF UsedContextsAlive, ThreadContextsLoaded
<1>. QED
  BY <1>2, <1>3, Zenon

\* It counts the workers that use their new context, round after round.
LEMMA WaitStep ==
    ASSUME IInv, WaitThread \/ WaitRound \/ WaitStopped
    PROVE  IInv'
<1>. USE DEF IInv, Busy, Fresh, Swapped
<1>1. /\ UNCHANGED <<wpc, ctx, slot, det, used, loaded, current, list, freeList, refCnt, old,
                      new, oldDet>>
      /\ main = "wait" /\ i \in Int /\ i \in 1 .. NWorkers + 1
  BY Zenon DEF WaitThread, WaitRound, WaitStopped, workerVars, masterVars, Ranges
<1>2. /\ main' \in {"wait", "free", "drain"} /\ i' \in Int /\ threadsDone' \in Int
      /\ i' \in 1 .. NWorkers + 1
      /\ main' # "wait" => i' = 1
  BY <1>1, NWorkersAssumption DEF WaitThread, WaitRound, WaitStopped, Ranges, Worker
<1>3. Counts' /\ refCnt' \in [Ctx -> Int] /\ UsedContextsAlive' /\ ThreadContextsLoaded'
  BY <1>1, CountsKept, Zenon DEF UsedContextsAlive, ThreadContextsLoaded
<1>4. Ranges'
  BY <1>1, <1>2, Zenon DEF Ranges
<1>5. Master'
  BY <1>1, <1>2, Zenon DEF Master
<1>6. SlotOwned' /\ NewOwned' /\ OldOwned' /\ Unseen' /\ Switched'
  BY <1>1, <1>2, Zenon DEF SlotOwned, NewOwned, OldOwned, Unseen, Switched
<1>7. OldKept'
  BY <1>1, <1>2, Zenon DEF OldKept
<1>8. Owned'
  BY NWorkersAssumption, <1>1, <1>2 DEF Worker, Extra, Owned
<1>9. Counted'
  <2>1. CASE WaitThread
    <3>1. /\ UNCHANGED main /\ i' = i + 1
          /\ \/ <<i, new>> \in used /\ threadsDone' = threadsDone + 1
             \/ threadsDone' = threadsDone
      BY <2>1, Zenon DEF WaitThread
    <3>. QED
      BY <1>1, <3>1 DEF Counted, Ranges
  <2>2. CASE WaitRound
    BY <1>1, <2>2, NWorkersAssumption DEF WaitRound, Counted, Ranges, Worker
  <2>3. CASE WaitStopped
    BY <2>3, Zenon DEF WaitStopped, Counted
  <2>. QED
    BY <2>1, <2>2, <2>3
<1>. QED
  BY <1>3, <1>4, <1>7, <1>9, <1>6, <1>8, <1>5, Zenon

\* The thread contexts of one side are freed, the unreferenced contexts pruned.
LEMMA FreeStep ==
    ASSUME IInv, FreeOldDetCtx \/ FreeNewDetCtx
    PROVE  IInv'
<1>. USE DEF IInv, Busy, Fresh, Swapped
<1>1. /\ UNCHANGED <<wpc, ctx, slot, loaded, current, list, freeList, old, new, oldDet, main,
                      threadsDone>>
      /\ main \in {"free", "drain", "error"} /\ i \in Worker /\ i' = i + 1
  BY Zenon DEF FreeOldDetCtx, FreeNewDetCtx, workerVars, masterVars
<1>2. i \in Int /\ new \in Ctx /\ \A w \in Worker : w \in Int /\ w =< NWorkers
  BY <1>1, NWorkersAssumption DEF Ranges, Master, Worker
<1>3. /\ UNCHANGED <<wpc, ctx, slot, loaded, current, list, freeList, old, new, oldDet, main,
                      threadsDone>>
      /\ main \in {"free", "drain", "error"} /\ i \in Worker /\ i \in Int /\ i' = i + 1
      /\ new \in Ctx /\ \A w \in Worker : w \in Int /\ w =< NWorkers
  BY <1>1, <1>2, Zenon
<1>4. PICK c \in Ctx :
          /\ det' = det \ {<<i, c>>} /\ used' = used \ {<<i, c>>}
          /\ main = "error" => c = new /\ FreeNewDetCtx
          /\ main # "error" => c = oldDet[i] /\ c # new /\ FreeOldDetCtx
  BY <1>3, Zenon DEF FreeOldDetCtx, FreeNewDetCtx, OldKept
<1>5. \A w \in Worker : <<w, ctx[w]>> # <<i, c>> /\ (wpc[w] # "closed" => <<w, slot[w]>> # <<i, c>>)
  BY <1>3, <1>4, NoneAssumption, Zenon DEF Unseen, Switched, Counted, OldKept, FreeOldDetCtx, Ranges
<1>6. Ranges'
  BY <1>3, <1>4, NWorkersAssumption DEF Ranges
<1>7. Master' /\ ThreadContextsLoaded' /\ NewOwned'
  BY <1>3, <1>4, Zenon DEF Master, ThreadContextsLoaded, NewOwned
<1>8. UsedContextsAlive' /\ SlotOwned'
  BY <1>3, <1>4, <1>5, Zenon DEF UsedContextsAlive, SlotOwned
<1>9. OldOwned'
  BY <1>3, <1>4 DEF OldOwned
<1>10. Unseen' /\ Switched' /\ OldKept'
  BY <1>3, <1>4, Zenon DEF Unseen, Switched, OldKept
<1>11. Counted'
  BY <1>3, <1>4, Zenon DEF Counted
<1>12. Owned'
  <2>1. \A w \in Worker, d \in Ctx : <<w, d>> # <<i, c>> /\ Extra(w, d) => Extra(w, d)'
    BY <1>3, <1>4 DEF Extra
  <2>. QED
    BY <1>3, <1>4, <2>1, Zenon DEF Owned
<1>13. Counts' /\ refCnt' \in [Ctx -> Int]
  <2>1. CASE <<i, c>> \in det
    BY <1>3, <1>4, <2>1, CountsRemove, Zenon DEF FreeOldDetCtx, FreeNewDetCtx
  <2>2. CASE <<i, c>> \notin det
    <3>1. main = "error"
      BY <1>3, <1>4, <2>2 DEF OldOwned
    <3>. QED
      BY <1>3, <1>4, <2>2, <3>1, CountsKept, Zenon DEF FreeNewDetCtx
  <2>. QED
    BY <2>1, <2>2, Zenon
<1>. QED
  BY <1>6, <1>8, <1>10, <1>11, <1>12, <1>13, <1>7, <1>9, Zenon

LEMMA PruneStep ==
    ASSUME IInv, DetectEnginePruneFreeList
    PROVE  IInv'
<1>. USE DEF IInv, Busy, Fresh, Swapped
<1>1. /\ UNCHANGED <<wpc, ctx, slot, det, used, current, list, refCnt, old>>
      /\ main \in {"free", "drain", "error"} /\ main' = "finish"
      /\ oldDet' = [w \in Worker |-> None] /\ i' = 0 /\ threadsDone' = 0
      /\ freeList' = freeList \ Unreferenced /\ loaded' = loaded \ Unreferenced
      /\ Unreferenced \subseteq freeList
      /\ i \in Int /\ \A w \in Worker : w \in Int /\ w < i
  BY NWorkersAssumption DEF DetectEnginePruneFreeList, workerVars, Ranges, Unreferenced, Worker
<1>2. ThreadContextsLoaded'
  <2>1. SUFFICES ASSUME NEW d \in det, d[2] \in Unreferenced
                 PROVE  FALSE
    BY <1>1, Zenon DEF ThreadContextsLoaded
  <2>2. d[1] \in Worker /\ d[2] \in Ctx /\ d = <<d[1], d[2]>> /\ refCnt[d[2]] = 0 /\ old = None
    <3>1. old = None
      BY <1>1, Zenon DEF Master
    <3>. QED
      BY <2>1, <3>1 DEF Ranges, Unreferenced
  <2>3. Holders(d[2]) \in SUBSET Worker /\ d[1] \in Holders(d[2])
    BY <2>2, Zenon DEF Holders
  <2>4. Cardinality(Holders(d[2])) # 0 /\ Cardinality(Holders(d[2])) \in Nat
    BY <2>2, <2>3, HolderCount, Zenon
  <2>. QED
    BY <2>2, <2>4, NoneAssumption DEF Counts
<1>3. Ranges'
  BY <1>1 DEF Ranges
<1>4. Owned'
  BY <1>1 DEF Extra, Owned
<1>. QED
  BY <1>1, CountsKept, <1>2, <1>3, <1>4, Zenon DEF UsedContextsAlive, Master, SlotOwned, NewOwned, OldOwned,
     Unseen, Switched, OldKept, Counted

\* The workers end, and the engine with them.
LEMMA DeinitStep ==
    ASSUME IInv, NEW v \in Worker, FlowWorkerThreadDeinit(v)
    PROVE  IInv'
<1>. USE DEF IInv, Busy, Fresh, Swapped
<1>1. /\ UNCHANGED <<ctx, slot, loaded, current, list, freeList, old, new, oldDet, main, i,
                      threadsDone>>
      /\ main = "kill" /\ \A w \in Worker : wpc[w] \in {"done", "closed"}
      /\ wpc[v] = "done" /\ wpc' = [wpc EXCEPT ![v] = "closed"]
      /\ det' = det \ {<<v, slot[v]>>} /\ used' = used \ {<<v, slot[v]>>}
      /\ AddRef(slot[v], -1) /\ slot[v] \in Ctx
  BY Zenon DEF FlowWorkerThreadDeinit, masterVars, reloadVars, Ranges
<1>2. SlotOwned' /\ Owned'
  BY <1>1 DEF Ranges, SlotOwned, Owned, Extra
<1>3. NewOwned' /\ OldOwned' /\ Unseen' /\ Switched' /\ OldKept' /\ Counted'
  BY <1>1, Zenon DEF NewOwned, OldOwned, Unseen, Switched, OldKept, Counted
<1>. QED
  BY <1>1, CountsRemove, <1>2, <1>3, Zenon DEF SlotOwned, Ranges, Master, UsedContextsAlive,
     ThreadContextsLoaded

LEMMA DestroyStep ==
    ASSUME IInv, GlobalsDestroy
    PROVE  IInv'
<1>. USE DEF IInv, Busy, Fresh, Swapped
<1>1. /\ UNCHANGED <<wpc, ctx, slot, det, used, old, new, oldDet, i, threadsDone>>
      /\ main = "kill" /\ main' = "exit" /\ \A w \in Worker : wpc[w] = "closed"
      /\ list' = {} /\ list \subseteq Ctx /\ freeList \subseteq Ctx /\ loaded \subseteq Ctx
      /\ old = None
  BY Zenon DEF GlobalsDestroy, workerVars, reloadVars, Master
<1>2. det = {}
  BY <1>1 DEF Ranges, Owned, Extra
<1>3. \A c \in Ctx : refCnt[c] = 0
  <2>1. \A c \in Ctx : Cardinality(Holders(c)) = 0 /\ old # c
    BY <1>1, <1>2, FS_EmptySet, NoneAssumption, Zenon DEF Holders
  <2>. QED
    BY <2>1 DEF Counts
<1>4. Ranges' /\ Master' /\ UsedContextsAlive' /\ ThreadContextsLoaded'
  BY <1>1, <1>2, <1>3, Zenon DEF Ranges, Master, UsedContextsAlive, ThreadContextsLoaded, GlobalsDestroy
<1>5. SlotOwned' /\ Owned' /\ NewOwned' /\ OldOwned' /\ Unseen' /\ Switched' /\ OldKept' /\ Counted'
  BY <1>1, <1>2, Zenon DEF SlotOwned, Owned, NewOwned, OldOwned, Unseen, Switched, OldKept, Counted
<1>. QED
  BY <1>1, <1>3, <1>4, <1>5, Zenon DEF Counts, Holders, GlobalsDestroy
-----------------------------------------------------------------------------
LEMMA InitInv == Init => IInv
<1>1. SUFFICES ASSUME Init PROVE IInv
  OBVIOUS
<1>2. PICK c \in Ctx :
         /\ slot = [w \in Worker |-> c] /\ det = Worker \X {c} /\ used = det
         /\ loaded = {c} /\ current = c /\ list = {c} /\ freeList = {}
         /\ refCnt = [d \in Ctx |-> IF d = c THEN NWorkers ELSE 0]
  BY <1>1, CtxAssumption, Zenon DEF Init
<1>3. /\ wpc = [w \in Worker |-> "idle"] /\ ctx = [w \in Worker |-> None]
      /\ main = "loop" /\ old = None /\ new = None /\ oldDet = [w \in Worker |-> None]
      /\ i = 0 /\ threadsDone = 0
  BY <1>1, Zenon DEF Init
<1>. USE DEF Busy, Fresh, Swapped
<1>4. Ranges /\ Master
  BY <1>2, <1>3 DEF Ranges, Master
<1>5. /\ SlotOwned /\ NewOwned /\ OldOwned /\ Owned /\ Unseen /\ OldKept /\ Switched /\ Counted
      /\ UsedContextsAlive /\ ThreadContextsLoaded
  BY <1>2, <1>3, Zenon DEF SlotOwned, NewOwned, OldOwned, Owned, Unseen, OldKept, Switched, Counted,
     UsedContextsAlive, ThreadContextsLoaded
<1>6. Counts
  <2>1. Cardinality(1 .. NWorkers) = NWorkers /\ Cardinality({}) = 0
    BY FS_Interval, FS_EmptySet, NWorkersAssumption
  <2>2. \A d \in Ctx : Cardinality(Holders(d)) = refCnt[d] /\ old # d
    BY <1>2, <1>3, <2>1, NoneAssumption, Zenon DEF Holders, Worker
  <2>. QED
    BY <1>2, NWorkersAssumption, <2>2 DEF Counts
<1>. QED
  BY <1>4, <1>5, <1>2, NWorkersAssumption, <1>6 DEF IInv

LEMMA NextInv == IInv /\ [Next]_vars => IInv'
<1>1. SUFFICES ASSUME IInv, [Next]_vars PROVE IInv'
  OBVIOUS
<1>2. CASE UNCHANGED vars
  BY <1>1, <1>2, QuietStep, Zenon DEF vars, workerVars, reloadVars
<1>3. CASE \E w \in Worker : WorkerNext(w)
  BY <1>1, <1>3, WorkerStep
<1>4. CASE UnixNext \/ SignalHandlerSigusr2 \/ EngineStop
  BY <1>4, <1>1, QuietStep, Zenon DEF UnixNext, UnixManagerReloadRules, UnixManagerReloadDone,
     SignalHandlerSigusr2, EngineStop, workerVars, reloadVars
<1>5. CASE MainNext
  <2>1. CASE \/ MainLoopSignal \/ DetectEngineReloadStart \/ MainLoopRequest
             \/ ReloadSetIdle \/ MainLoopStop \/ UnixSocketKillSocketThread
    <3>1. /\ UNCHANGED <<wpc, ctx, slot, det, used, masterVars, refCnt, old, new, oldDet, i,
                         threadsDone>>
          /\ main \in {"loop", "start", "finish", "killunix"}
          /\ main' \in {"start", "config", "loop", "killunix", "kill"}
      BY <2>1, Zenon DEF MainLoopSignal, DetectEngineReloadStart, MainLoopRequest, ReloadSetIdle, MainLoopStop,
         UnixSocketKillSocketThread, workerVars, reloadVars
    <3>. QED
      BY <1>1, <3>1, QuietStep DEF Fresh, Swapped
  <2>2. CASE \/ GetCurrent \/ LoadSignatures \/ LoadFails \/ DetectEngineAddToMaster
             \/ DetectEngineMoveToFreeList \/ DeReferenceOld
    BY <1>1, <2>2, LoadStep
  <2>3. CASE ThreadCtxInitForReload \/ ReloadThreadsError
    BY <1>1, <2>3, InitStep
  <2>4. CASE ReplaceDetectCtx \/ InjectPackets
    BY <1>1, <2>4, SwapStep
  <2>5. CASE WaitThread \/ WaitRound \/ WaitStopped
    BY <1>1, <2>5, WaitStep
  <2>6. CASE FreeOldDetCtx \/ FreeNewDetCtx
    BY <1>1, <2>6, FreeStep
  <2>7. CASE DetectEnginePruneFreeList
    BY <1>1, <2>7, PruneStep
  <2>8. CASE \E w \in Worker : FlowWorkerThreadDeinit(w)
    BY <1>1, <2>8, DeinitStep
  <2>9. CASE GlobalsDestroy
    BY <1>1, <2>9, DestroyStep
  <2>. QED
    BY <1>5, <2>1, <2>2, <2>3, <2>4, <2>5, <2>6, <2>7, <2>8, <2>9, Zenon DEF MainNext
<1>. QED
  BY <1>1, <1>2, <1>3, <1>4, <1>5 DEF Next

\* However many workers there are and however requests, packets, errors and a stop fall
\* between the steps of a reload, DetectEngineReloadThreads frees no thread context that
\* a worker uses.
THEOREM NoFreedContextUsed == Spec => []UsedContextsAlive
<1>1. IInv => UsedContextsAlive
  BY DEF IInv
<1>. QED
  BY <1>1, InitInv, NextInv, PTL DEF Spec

\* Nor does DetectEnginePruneFreeList free the rules of a thread context that exists:
\* ref_cnt is the number of thread contexts, and of references the reload has itself.
THEOREM RulesOutliveContexts == Spec => []ThreadContextsLoaded
<1>1. IInv => ThreadContextsLoaded
  BY DEF IInv
<1>. QED
  BY <1>1, InitInv, NextInv, PTL DEF Spec

-----------------------------------------------------------------------------
(* What is left in memory. *)

\* The reload ends with every signal it serves still pending.
Requests ==
    /\ sync \in {"IDLE", "RELOAD"} /\ sigusr2 \in 0 .. MaxSignals /\ stop \in BOOLEAN
    /\ main \in {"loop", "start", "config", "load", "add", "move", "dereference",
                 "init", "swap", "wait", "free", "drain", "error", "finish",
                 "killunix", "kill", "exit"}
    /\ signalled \in BOOLEAN /\ unix \in {"idle", "wait", "closed"}
    /\ main = "start" \/ signalled => sigusr2 > 0
    /\ signalled => main # "loop"

\* The other locals of the reload.
ReloadLocals ==
    /\ wake \in [Worker -> BOOLEAN]
    /\ current \in Ctx \cup {None} /\ old \in Ctx \cup {None} /\ new \in Ctx \cup {None}
    /\ i \in 0 .. NWorkers + 1 /\ threadsDone \in 0 .. NWorkers

\* Between two uses of the free list, what is on it is what a worker has.
Between == {"loop", "start", "config", "load", "finish", "killunix"}

\* Every context in memory is on a list, and the current one is alone on the master's.
Kept ==
    /\ loaded = list \cup freeList \cup (IF main = "add" THEN {new} ELSE {})
    /\ list = CASE main = "move" -> {old, current}
                [] main = "exit" -> {}
                [] OTHER -> {current}
    /\ main \in Between => \A c \in freeList : \E w \in Worker : slot[w] = c
    /\ main = "exit" => freeList = {} /\ det = {}

LEMMA RequestsInit == Init => Requests
<1>. SUFFICES ASSUME Init PROVE Requests
  OBVIOUS
<1>1. sigusr2 \in 0 .. MaxSignals
  BY SignalsAssumption DEF Init
<1>. QED
  BY <1>1, Zenon DEF Requests, Init

LEMMA RequestsStep == Requests /\ [Next]_vars => Requests'
<1>. SUFFICES ASSUME Requests, [Next]_vars PROVE Requests'
  OBVIOUS
<1>1. ASSUME UNCHANGED <<requestVars, signalled, unix>>,
             main' = main \/ main' \in {"load", "finish", "add", "move", "dereference", "init",
                                        "swap", "wait", "free", "drain", "error", "killunix",
                                        "kill", "exit"}
      PROVE  Requests'
  BY <1>1 DEF Requests, requestVars
<1>2. ASSUME NEW w \in Worker, WorkerNext(w) PROVE Requests'
  BY <1>1, <1>2, Zenon DEF WorkerNext, FlowWorkerStart, Detect, FlowWorkerHousekeeping, CheckWorkQueue,
     RunningDone
<1>3. ASSUME SignalHandlerSigusr2 PROVE Requests'
  BY <1>3, SignalsAssumption DEF SignalHandlerSigusr2, Requests
<1>4. ASSUME EngineStop \/ UnixNext PROVE Requests'
  <2>1. /\ UNCHANGED <<sigusr2, main, signalled>> /\ sync' \in {sync, "RELOAD"}
        /\ stop' \in {stop, TRUE} /\ unix' \in {unix, "idle", "wait"}
    BY <1>4, Zenon DEF EngineStop, UnixNext, UnixManagerReloadRules, UnixManagerReloadDone, requestVars
  <2>. QED
    BY <2>1, ZenonT(60) DEF Requests
<1>5. ASSUME \/ GetCurrent \/ LoadSignatures \/ LoadFails \/ DetectEngineAddToMaster
             \/ DetectEngineMoveToFreeList \/ DeReferenceOld
      PROVE  Requests'
  BY <1>1, <1>5, Zenon DEF GetCurrent, LoadSignatures, LoadFails, DetectEngineAddToMaster,
     DetectEngineMoveToFreeList, DeReferenceOld
<1>6. ASSUME \/ ThreadCtxInitForReload \/ ReloadThreadsError \/ ReplaceDetectCtx \/ InjectPackets
             \/ WaitThread \/ WaitRound \/ WaitStopped
      PROVE  Requests'
  BY <1>1, <1>6, Zenon DEF ThreadCtxInitForReload, ReloadThreadsError, ReplaceDetectCtx, InjectPackets,
     WaitThread, WaitRound, WaitStopped
<1>7. ASSUME \/ FreeOldDetCtx \/ FreeNewDetCtx \/ DetectEnginePruneFreeList \/ MainLoopStop
             \/ (\E w \in Worker : FlowWorkerThreadDeinit(w)) \/ GlobalsDestroy
      PROVE  Requests'
  BY <1>1, <1>7, Zenon DEF FreeOldDetCtx, FreeNewDetCtx, DetectEnginePruneFreeList, MainLoopStop,
     FlowWorkerThreadDeinit, GlobalsDestroy
<1>8. ASSUME MainLoopSignal \/ DetectEngineReloadStart \/ MainLoopRequest PROVE Requests'
  BY <1>8, Zenon DEF MainLoopSignal, DetectEngineReloadStart, MainLoopRequest, Requests, requestVars
<1>9. ASSUME ReloadSetIdle PROVE Requests'
  <2>1. sigusr2' \in 0 .. MaxSignals
    BY <1>9, SignalsAssumption DEF ReloadSetIdle, Requests
  <2>. QED
    BY <1>9, <2>1, Zenon DEF ReloadSetIdle, Requests
<1>10. ASSUME UnixSocketKillSocketThread PROVE Requests'
  BY <1>10, Zenon DEF UnixSocketKillSocketThread, Requests, requestVars
<1>11. ASSUME UNCHANGED vars PROVE Requests'
  BY <1>1, <1>11 DEF vars
<1>. QED
  BY <1>2, <1>3, <1>4, <1>5, <1>6, <1>7, <1>8, <1>9, <1>10, <1>11, Zenon DEF Next, MainNext

LEMMA ReloadLocalsStep == IInv /\ ReloadLocals /\ [Next]_vars => ReloadLocals'
<1>. SUFFICES ASSUME IInv, ReloadLocals, [Next]_vars PROVE ReloadLocals'
  OBVIOUS
<1>1. ASSUME UNCHANGED <<wake, current, reloadVars>> PROVE ReloadLocals'
  BY <1>1, Zenon DEF ReloadLocals, reloadVars
<1>2. ASSUME NEW w \in Worker, WorkerNext(w) PROVE ReloadLocals'
  BY <1>2, Zenon DEF WorkerNext, FlowWorkerStart, Detect, FlowWorkerHousekeeping, CheckWorkQueue, RunningDone,
     ReloadLocals, masterVars, reloadVars
<1>3. ASSUME \/ SignalHandlerSigusr2 \/ EngineStop \/ UnixNext
             \/ MainLoopSignal \/ DetectEngineReloadStart \/ MainLoopRequest \/ ReloadSetIdle
             \/ MainLoopStop \/ UnixSocketKillSocketThread \/ DetectEngineMoveToFreeList
             \/ (\E w \in Worker : FlowWorkerThreadDeinit(w))
      PROVE  ReloadLocals'
  <2>1. UNCHANGED <<wake, current, reloadVars>>
    BY <1>3, Zenon DEF SignalHandlerSigusr2, EngineStop, UnixNext, UnixManagerReloadRules,
       UnixManagerReloadDone, MainLoopSignal, DetectEngineReloadStart, MainLoopRequest, ReloadSetIdle,
       MainLoopStop, UnixSocketKillSocketThread, DetectEngineMoveToFreeList, FlowWorkerThreadDeinit, masterVars,
       workerVars
  <2>. QED
    BY <1>1, <2>1
<1>4. ASSUME \/ GetCurrent \/ LoadSignatures \/ LoadFails \/ DetectEngineAddToMaster
             \/ DeReferenceOld \/ GlobalsDestroy
      PROVE  ReloadLocals'
  <2>1. ASSUME LoadSignatures PROVE new' \in Ctx
    BY <2>1, Zenon DEF LoadSignatures, IInv, Master
  <2>2. /\ UNCHANGED <<wake, threadsDone>> /\ i' \in {i, 1}
        /\ old' \in {old, current, None} /\ current' \in {current, new, None}
        /\ new' = new \/ new' \in Ctx
    BY <2>1, <1>4, Zenon DEF GetCurrent, LoadFails, DetectEngineAddToMaster, DeReferenceOld, masterVars,
       workerVars, reloadVars, LoadSignatures, GlobalsDestroy
  <2>. QED
    BY <2>2, NWorkersAssumption DEF ReloadLocals
<1>5. ASSUME ThreadCtxInitForReload \/ ReloadThreadsError \/ ReplaceDetectCtx \/ WaitStopped
             \/ FreeOldDetCtx \/ FreeNewDetCtx
      PROVE  ReloadLocals'
  <2>1. /\ UNCHANGED <<wake, threadsDone, old, new, current>>
        /\ i' = 1 \/ (i' = i + 1 /\ (i \in Worker \/ i < NWorkers))
    BY <1>5, Zenon DEF ThreadCtxInitForReload, ReloadThreadsError, ReplaceDetectCtx, WaitStopped, FreeOldDetCtx,
       FreeNewDetCtx, masterVars, workerVars
  <2>. QED
    BY <2>1, NWorkersAssumption DEF ReloadLocals, Worker
<1>6. ASSUME InjectPackets PROVE ReloadLocals'
  BY <1>6, NWorkersAssumption DEF InjectPackets, ReloadLocals, masterVars
<1>7. ASSUME WaitThread PROVE ReloadLocals'
  <2>1. i \in 1 .. NWorkers /\ i' = i + 1 /\ threadsDone =< i - 1
    BY <1>7, Zenon DEF WaitThread, Worker, IInv, Counted
  <2>2. i' \in 0 .. NWorkers + 1 /\ threadsDone' \in 0 .. NWorkers
    BY <2>1, <1>7, NWorkersAssumption DEF ReloadLocals, WaitThread
  <2>. QED
    BY <1>7, <2>2, Zenon DEF WaitThread, ReloadLocals, masterVars
<1>8. ASSUME WaitRound PROVE ReloadLocals'
  BY <1>8, NWorkersAssumption DEF WaitRound, ReloadLocals, masterVars, workerVars
<1>9. ASSUME DetectEnginePruneFreeList PROVE ReloadLocals'
  BY <1>9, NWorkersAssumption DEF DetectEnginePruneFreeList, ReloadLocals, workerVars
<1>10. ASSUME UNCHANGED vars PROVE ReloadLocals'
  BY <1>1, <1>10, Zenon DEF vars, workerVars, masterVars
<1>. QED
  BY <1>2, <1>3, <1>4, <1>5, <1>6, <1>7, <1>8, <1>9, <1>10, Zenon DEF Next, MainNext

\* At the end of a reload, and when all workers are closed, a context that is still
\* referenced is the one a worker has.
LEMMA ReferencedIsHeld ==
    ASSUME IInv, \/ main \in {"free", "drain", "error"} /\ i > NWorkers
                 \/ main = "kill",
           NEW c \in Ctx, refCnt[c] # 0
    PROVE  \E w \in Worker : slot[w] = c /\ wpc[w] # "closed"
<1>1. PICK w \in Worker : <<w, c>> \in det
  BY NoneAssumption, FS_EmptySet DEF Holders, IInv, Counts, Master
<1>2. ~Extra(w, c)
  BY NWorkersAssumption DEF IInv, Ranges, Worker, Extra
<1>. QED
  BY <1>1, <1>2, Zenon DEF IInv, Owned

LEMMA KeptInit == Init => Kept
<1>. SUFFICES ASSUME Init PROVE Kept
  OBVIOUS
<1>. QED
  BY Zenon DEF Kept, Between, Init

\* The lists change in five steps; the others only go on.
LEMMA KeptSame ==
    ASSUME Kept, UNCHANGED <<slot, det, masterVars>>,
           \/ main' = main /\ new' = new /\ old' = old
           \/ main \notin {"add", "move", "exit"} /\ main' \notin {"add", "move", "exit"}
              /\ (main' \in Between => main \in Between)
    PROVE  Kept'
<1>1. CASE main' = main /\ new' = new /\ old' = old
  BY <1>1, Zenon DEF Kept, masterVars
<1>2. CASE main \notin {"add", "move", "exit"} /\ main' \notin {"add", "move", "exit"}
           /\ (main' \in Between => main \in Between)
  BY <1>2, Zenon DEF Kept, masterVars
<1>. QED
  BY <1>1, <1>2

LEMMA KeptStep == IInv /\ Kept /\ [Next]_vars => Kept'
<1>. SUFFICES ASSUME IInv, Kept, [Next]_vars PROVE Kept'
  OBVIOUS
<1>1. ASSUME NEW w \in Worker, WorkerNext(w) PROVE Kept'
  BY <1>1, KeptSame, Zenon DEF WorkerNext, FlowWorkerStart, Detect, FlowWorkerHousekeeping, CheckWorkQueue,
     RunningDone, reloadVars
<1>2. ASSUME SignalHandlerSigusr2 \/ EngineStop \/ UnixNext PROVE Kept'
  BY <1>2, KeptSame, Zenon DEF SignalHandlerSigusr2, EngineStop, UnixNext, UnixManagerReloadRules,
     UnixManagerReloadDone, reloadVars
<1>3. ASSUME MainLoopSignal \/ DetectEngineReloadStart \/ MainLoopRequest \/ GetCurrent \/ LoadFails
             \/ ReloadSetIdle \/ MainLoopStop \/ UnixSocketKillSocketThread
      PROVE  Kept'
  BY <1>3, KeptSame, Zenon DEF MainLoopSignal, DetectEngineReloadStart, MainLoopRequest, GetCurrent, LoadFails,
     ReloadSetIdle, MainLoopStop, UnixSocketKillSocketThread, Between
<1>4. ASSUME LoadSignatures PROVE Kept'
  BY <1>4, Zenon DEF LoadSignatures, Kept, Between
<1>5. ASSUME DetectEngineAddToMaster PROVE Kept'
  BY <1>5, Zenon DEF DetectEngineAddToMaster, reloadVars, IInv, Master, Kept, Between
<1>6. ASSUME DetectEngineMoveToFreeList PROVE Kept'
  BY <1>6, Zenon DEF DetectEngineMoveToFreeList, IInv, Master, Kept, Between
<1>7. ASSUME \/ DeReferenceOld \/ ThreadCtxInitForReload \/ ReloadThreadsError \/ ReplaceDetectCtx
             \/ InjectPackets \/ WaitThread \/ WaitRound \/ WaitStopped
             \/ FreeOldDetCtx \/ FreeNewDetCtx \/ \E w \in Worker : FlowWorkerThreadDeinit(w)
      PROVE  Kept'
  <2>1. /\ UNCHANGED masterVars
        /\ main \in Swapped \cup {"dereference", "init", "error", "kill"}
        /\ main' \in Swapped \cup {"init", "error", "kill"}
    BY <1>7, Zenon DEF DeReferenceOld, ThreadCtxInitForReload, ReloadThreadsError, ReplaceDetectCtx,
       InjectPackets, WaitThread, WaitRound, WaitStopped, FreeOldDetCtx, FreeNewDetCtx, FlowWorkerThreadDeinit,
       Swapped
  <2>. QED
    BY <2>1 DEF Kept, Between, Swapped, masterVars
<1>8. ASSUME DetectEnginePruneFreeList PROVE Kept'
  <2>1. loaded' = list' \cup freeList' /\ list' = {current'}
    BY <1>8, Zenon DEF Unreferenced, IInv, Master, Kept, DetectEnginePruneFreeList
  <2>. QED
    BY <1>8, ReferencedIsHeld, <2>1, Zenon DEF Kept, Unreferenced, IInv, Master, DetectEnginePruneFreeList
<1>9. ASSUME GlobalsDestroy PROVE Kept'
  <2>1. main = "kill" /\ main' = "exit" /\ list' = {} /\ det' = det /\ \A w \in Worker : wpc[w] = "closed"
    BY <1>9, Zenon DEF GlobalsDestroy
  <2>2. list = {current} /\ loaded = list \cup freeList /\ loaded \subseteq Ctx
    BY <2>1, Zenon DEF Kept, IInv, Master
  <2>3. freeList' = {} /\ loaded' = {}
    BY <1>9, <2>1, ReferencedIsHeld, <2>2, Zenon DEF GlobalsDestroy
  <2>. QED
    BY <2>1, <2>3 DEF Kept, Between, IInv, Ranges, Owned, Extra
<1>10. ASSUME UNCHANGED vars PROVE Kept'
  BY <1>10, KeptSame, Zenon DEF vars, reloadVars
<1>. QED
  BY <1>1, <1>2, <1>3, <1>4, <1>5, <1>6, <1>7, <1>8, <1>9, <1>10, Zenon DEF Next, MainNext

\* DetectEngineReload and its error paths, and the end of the engine: between two reloads
\* the memory holds the current context and what a worker still has, and at the end
\* nothing, however the reloads went; and ReloadSetIdle takes no signal twice.
THEOREM NothingIsLeft == Spec => []NothingLeft
<1>1. Init => ReloadLocals
  BY CtxAssumption, NWorkersAssumption DEF Init, ReloadLocals
<1>2. IInv /\ Requests /\ ReloadLocals /\ Kept => NothingLeft
  <2>. SUFFICES ASSUME IInv, Requests, ReloadLocals, Kept PROVE NothingLeft
    OBVIOUS
  <2>1. TypeOK
    BY Zenon DEF IInv, Ranges, Busy, Master, TypeOK, Requests, ReloadLocals
  <2>. QED
    BY <2>1 DEF NothingLeft, Kept, Between
<1>. QED
  BY <1>1, <1>2, InitInv, NextInv, RequestsInit, RequestsStep, ReloadLocalsStep, KeptInit, KeptStep, PTL DEF
     Spec
=============================================================================
