--------------------------- MODULE FlowSparePool ---------------------------
(***************************************************************************)
(* The master pool of recycled flows (flow-spare-pool.c) together with the *)
(* memuse accounting of FlowAlloc and FlowFree (flow-util.c), under the    *)
(* threads that use them: the workers (FlowGetNew, CheckWorkQueue), the    *)
(* recycler and instance 0 of the flow manager (FlowSparePoolUpdate).      *)
(*                                                                         *)
(* A block is modelled by the length of its queue: nothing in the pool     *)
(* depends on which flows a block holds.  Memory is counted in flows.      *)
(***************************************************************************)
EXTENDS Integers, Sequences, FiniteSets

CONSTANTS Worker,        \* packet threads
          Recycler,      \* the flow recycler thread
          Manager,       \* flow manager, instance 0
          BlockSize,     \* FLOW_SPARE_POOL_BLOCK_SIZE
          ShrinkDiv,     \* share of the surplus one update gives back (10)
          Prealloc,      \* flow_config.prealloc
          MemcapValues,  \* values flow_config.memcap is ever given
          MaxBlocks      \* bound of the model on the blocks made at startup

ASSUME SizesAssumption ==
    /\ BlockSize \in Nat \ {0} /\ ShrinkDiv \in Nat \ {0} /\ Prealloc \in Nat
    /\ MemcapValues \subseteq Nat
    /\ \E m \in MemcapValues : \A n \in MemcapValues : n <= m
    /\ MaxBlocks \in Nat
ASSUME ThreadsAssumption ==
    /\ IsFiniteSet(Worker)
    /\ Recycler \notin Worker /\ Manager \notin Worker /\ Recycler # Manager

VARIABLES pool,    \* flow_spare_pool: the lengths of its blocks, top first
          cnt,     \* flow_spare_pool_flow_cnt
          memuse,  \* flow_memuse
          memcap,  \* flow_config.memcap
          used,    \* flows handed out: in the hash or on their way back
          spare,   \* length of each worker's fls.spare_queue
          ret,     \* length of the ret_queue of a thread that gives flows back
          pc,      \* where each thread is
          toRemove, pend,                 \* FlowSparePoolUpdate, giving back: flows
                                          \* to go, flows of the block in hand
          blocks, block, flowCnt, built,  \* and growing: blocks to make, flows in
                                          \* the one under construction, blocks made
          capReq,  \* FlowSetMemcap: a value that passed its test, or NoReq
          phase    \* main thread: "init", "run" or "stop"

upd == <<toRemove, pend, blocks, block, flowCnt, built>>
vars == <<pool, cnt, memuse, memcap, used, spare, ret, pc, upd, capReq, phase>>

Returner == Worker \cup {Recycler}
Allocator == Worker \cup {Manager}
Thread == Worker \cup {Recycler, Manager}

\* The flows in the queues of lengths f, by queue and position, and how many they are.
Slots(f) == UNION {{<<x, i>> : i \in 1..f[x]} : x \in DOMAIN f}
Total(f) == Cardinality(Slots(f))
MinOf(a, b) == IF a <= b THEN a ELSE b
MaxOf(a, b) == IF a >= b THEN a ELSE b
MaxMemcap == CHOOSE m \in MemcapValues : \A n \in MemcapValues : n <= m

NoReq == -1

Init ==
    /\ pool = <<>> /\ cnt = 0 /\ memuse = 0 /\ memcap \in MemcapValues
    /\ used = 0
    /\ spare = [w \in Worker |-> 0]
    /\ ret = [t \in Returner |-> 0]
    /\ pc = [t \in Thread |-> "idle"]
    /\ toRemove = 0 /\ pend = 0
    /\ blocks = 0 /\ block = 0 /\ flowCnt = 0 /\ built = <<>>
    /\ capReq = NoReq
    /\ phase = "init"

-----------------------------------------------------------------------------
(* Startup and shutdown, single threaded. *)

\* One turn of the loop: a block with as many flows as memcap lets it have.
FlowSparePoolInit ==
    /\ phase = "init"
    /\ IF cnt < Prealloc
       THEN LET n == MinOf(BlockSize, MaxOf(memcap - memuse, 0)) IN
            /\ Len(pool) < MaxBlocks
            /\ pool' = <<n>> \o pool
            /\ cnt' = cnt + n
            /\ memuse' = memuse + n
            /\ UNCHANGED phase
       ELSE phase' = "run" /\ UNCHANGED <<pool, cnt, memuse>>
    /\ UNCHANGED <<memcap, used, spare, ret, pc, upd, capReq>>

\* Every thread has given back what it had: the engine stops.
Shutdown ==
    /\ phase = "run" /\ used = 0
    /\ \A t \in Thread : pc[t] = "idle"
    /\ phase' = "stop"
    /\ UNCHANGED <<pool, cnt, memuse, memcap, used, spare, ret, pc, upd, capReq>>

\* FlowWorkerThreadDeinit frees the worker's own spare queue.
FlowWorkerThreadDeinit(w) ==
    /\ phase = "stop" /\ spare[w] > 0
    /\ memuse' = memuse - spare[w]
    /\ spare' = [spare EXCEPT ![w] = 0]
    /\ UNCHANGED <<pool, cnt, memcap, used, ret, pc, upd, capReq, phase>>

\* One turn of the loop over the blocks, after the workers are gone.
FlowSparePoolDestroy ==
    /\ phase = "stop" /\ pool # <<>>
    /\ \A w \in Worker : spare[w] = 0
    /\ memuse' = memuse - Head(pool)
    /\ cnt' = cnt - Head(pool)
    /\ pool' = Tail(pool)
    /\ UNCHANGED <<memcap, used, spare, ret, pc, upd, capReq, phase>>

\* Unix socket mode runs the engine again for the next capture file.
Restart ==
    /\ phase = "stop" /\ pool = <<>>
    /\ \A w \in Worker : spare[w] = 0
    /\ phase' = "init"
    /\ UNCHANGED <<pool, cnt, memuse, memcap, used, spare, ret, pc, upd, capReq>>

-----------------------------------------------------------------------------
(* The operations on the pool, each one critical section of                *)
(* flow_spare_pool_m.                                                      *)

\* Mutant: a block put behind the top one loses the blocks after it.
InsertedLosesRest(n) ==
    IF pool = <<>> THEN <<n>>
    ELSE LET top == Head(pool)
             asTop == <<n>> \o pool
         IN IF n = BlockSize
            THEN IF top < BlockSize THEN <<top, n>> ELSE asTop
            ELSE IF n + top <= BlockSize THEN <<n + top>> \o Tail(pool)
                 ELSE IF n < top THEN asTop ELSE <<top, n>>

\* FlowSparePoolReturnFlows: where a block of n flows goes.
Inserted(n) ==
    IF pool = <<>> THEN <<n>>
    ELSE LET top == Head(pool)
             asTop == <<n>> \o pool
             second == <<top, n>> \o Tail(pool)
         IN IF n = BlockSize
            THEN IF top < BlockSize THEN second ELSE asTop
            ELSE IF n + top <= BlockSize THEN <<n + top>> \o Tail(pool)
                 ELSE IF n < top THEN asTop ELSE second

\* FlowSpareGetFromPool: the position of the block handed out.
TakenBlock == IF Head(pool) >= BlockSize \/ Len(pool) = 1 THEN 1 ELSE 2

\* The blocks of the list but the i-th.
Without(s, i) == SubSeq(s, 1, i - 1) \o SubSeq(s, i + 1, Len(s))

FlowSparePoolReturnFlows(t) ==
    /\ pool' = Inserted(ret[t])
    /\ cnt' = cnt + ret[t]
    /\ ret' = [ret EXCEPT ![t] = 0]

-----------------------------------------------------------------------------
(* Workers: FlowGetNew. *)

GetFromSpareQueue(w) ==
    /\ phase = "run" /\ pc[w] = "idle" /\ spare[w] > 0
    /\ spare' = [spare EXCEPT ![w] = @ - 1]
    /\ used' = used + 1
    /\ UNCHANGED <<pool, cnt, memuse, memcap, ret, pc, upd, capReq, phase>>

FlowSpareSync(w) ==
    /\ phase = "run" /\ pc[w] = "idle" /\ spare[w] = 0
    /\ IF pool = <<>> \/ cnt = 0
       THEN /\ pc' = [pc EXCEPT ![w] = "nospare"]
            /\ UNCHANGED <<pool, cnt, spare, used>>
       ELSE LET n == pool[TakenBlock] IN
            /\ pool' = Without(pool, TakenBlock)
            /\ cnt' = cnt - n
            /\ IF n = 0
               THEN pc' = [pc EXCEPT ![w] = "nospare"] /\ UNCHANGED <<spare, used>>
               ELSE /\ spare' = [spare EXCEPT ![w] = n - 1]
                    /\ used' = used + 1
                    /\ UNCHANGED pc
    /\ UNCHANGED <<memuse, memcap, ret, upd, capReq, phase>>

\* In an emergency a worker whose last look at the pool was in vain does not look again
\* within the second: at any moment here, time and emergencies are not part of the model.
FlowSpareSyncNotYet(w) ==
    /\ phase = "run" /\ pc[w] = "idle" /\ spare[w] = 0
    /\ pc' = [pc EXCEPT ![w] = "nospare"]
    /\ UNCHANGED <<pool, cnt, memuse, memcap, used, spare, ret, upd, capReq, phase>>

\* Mutant: compares before adding the size.
FlowCheckMemcapOffByOne == memuse <= memcap

\* FlowAlloc's test of memuse, and its addition to it, are separate steps.
FlowCheckMemcap == memuse + 1 <= memcap

\* FlowGetNew makes the test before FlowAlloc makes it again.  The first only refuses, and
\* what it refuses ends as a refusal of the second does, with no flow from the pool.
WorkerAllocCheck(w) ==
    /\ pc[w] = "nospare"
    /\ pc' = [pc EXCEPT ![w] = IF FlowCheckMemcap THEN "checked" ELSE "idle"]
    /\ UNCHANGED <<pool, cnt, memuse, memcap, used, spare, ret, upd, capReq, phase>>

FlowAllocAdd(t) ==
    /\ t \in Allocator /\ pc[t] = "checked"
    /\ memuse' = memuse + 1
    /\ pc' = [pc EXCEPT ![t] = "calloc"]
    /\ UNCHANGED <<pool, cnt, memcap, used, spare, ret, upd, capReq, phase>>

\* Mutant: does not take the size back when SCCalloc fails.
WorkerAllocDoneNoSub(w) ==
    /\ pc[w] = "calloc"
    /\ used' = used + 1 \/ UNCHANGED used
    /\ pc' = [pc EXCEPT ![w] = "idle"]
    /\ UNCHANGED <<pool, cnt, memuse, memcap, spare, ret, upd, capReq, phase>>

WorkerAllocDone(w) ==
    /\ pc[w] = "calloc"
    /\ \/ used' = used + 1 /\ UNCHANGED memuse
       \/ memuse' = memuse - 1 /\ UNCHANGED used     \* SCCalloc failed
    /\ pc' = [pc EXCEPT ![w] = "idle"]
    /\ UNCHANGED <<pool, cnt, memcap, spare, ret, upd, capReq, phase>>

-----------------------------------------------------------------------------
(* The way back: CheckWorkQueue in a worker, FlowRecycler in the recycler. *)

KeepsFlow(t) == t \in Worker /\ spare[t] < 2 * BlockSize

\* Mutant: keeps adding to a ret_queue that is full.
RecycleFlowNoFlush(t) ==
    /\ phase = "run" /\ pc[t] \in {"idle", "work"} /\ used > 0
    /\ used' = used - 1
    /\ ret' = [ret EXCEPT ![t] = @ + 1]
    /\ pc' = [pc EXCEPT ![t] = "work"]
    /\ UNCHANGED <<pool, cnt, memuse, memcap, spare, upd, capReq, phase>>

RecycleFlow(t) ==
    /\ phase = "run" /\ pc[t] \in {"idle", "work"} /\ used > 0
    /\ ret[t] < BlockSize
    /\ used' = used - 1
    /\ IF KeepsFlow(t)
       THEN spare' = [spare EXCEPT ![t] = @ + 1] /\ UNCHANGED ret
       ELSE ret' = [ret EXCEPT ![t] = @ + 1] /\ UNCHANGED spare
    /\ pc' = [pc EXCEPT ![t] = "work"]
    /\ UNCHANGED <<pool, cnt, memuse, memcap, upd, capReq, phase>>

\* A full ret_queue goes back at once, what is left of it at the end.
ReturnFlows(t) ==
    /\ pc[t] = "work" /\ ret[t] > 0
    /\ FlowSparePoolReturnFlows(t)
    /\ pc' = [pc EXCEPT ![t] = IF ret[t] = BlockSize THEN "work" ELSE "idle"]
    /\ UNCHANGED <<memuse, memcap, used, spare, upd, capReq, phase>>

EndOfWork(t) ==
    /\ pc[t] = "work" /\ ret[t] = 0
    /\ pc' = [pc EXCEPT ![t] = "idle"]
    /\ UNCHANGED <<pool, cnt, memuse, memcap, used, spare, ret, upd, capReq, phase>>

-----------------------------------------------------------------------------
(* The flow manager: FlowSparePoolUpdate with the pool size it read before. *)

SparePerc(size) == (size * 100) \div MaxOf(Prealloc, 1)

FlowSparePoolUpdate ==
    /\ phase = "run" /\ pc[Manager] = "idle"
    /\ SparePerc(cnt) < 90 \/ SparePerc(cnt) > 110
    /\ LET todo == Prealloc - cnt IN
       \/ /\ todo < 0
          /\ pc' = [pc EXCEPT ![Manager] = "shrink"]
          /\ toRemove' = (-todo) \div ShrinkDiv
          /\ UNCHANGED blocks
       \/ /\ todo > 0
          /\ pc' = [pc EXCEPT ![Manager] = "grow"]
          /\ blocks' = (todo \div BlockSize) + 1
          /\ UNCHANGED toRemove
    /\ UNCHANGED <<pend, block, flowCnt, built, pool, cnt, memuse, memcap, used, spare, ret, capReq, phase>>

\* Unlinks the top block; with an empty pool the loop just turns again.
ShrinkTakeBlock ==
    /\ pc[Manager] = "shrink" /\ toRemove >= BlockSize /\ pool # <<>>
    /\ pool' = Tail(pool)
    /\ cnt' = cnt - Head(pool)
    /\ toRemove' = toRemove - Head(pool)
    /\ pend' = Head(pool)
    /\ pc' = [pc EXCEPT ![Manager] = "free"]
    /\ UNCHANGED <<blocks, block, flowCnt, built, memuse, memcap, used, spare, ret, capReq, phase>>

ShrinkFreeFlow ==
    /\ pc[Manager] = "free"
    /\ IF pend > 0
       THEN /\ memuse' = memuse - 1
            /\ pend' = pend - 1
            /\ UNCHANGED pc
       ELSE pc' = [pc EXCEPT ![Manager] = "shrink"] /\ UNCHANGED <<memuse, pend>>
    /\ UNCHANGED <<toRemove, blocks, block, flowCnt, built, pool, cnt, memcap, used, spare, ret, capReq, phase>>

ShrinkDone ==
    /\ pc[Manager] = "shrink" /\ toRemove < BlockSize
    /\ pc' = [pc EXCEPT ![Manager] = "idle"]
    /\ toRemove' = 0
    /\ UNCHANGED <<pend, blocks, block, flowCnt, built, pool, cnt, memuse, memcap, used, spare, ret, capReq, phase>>

\* The block under construction is linked; blocks left to make after it.
LinkBlock(left) ==
    /\ built' = IF block = 0 THEN built ELSE <<block>> \o built
    /\ flowCnt' = flowCnt + block
    /\ block' = 0
    /\ blocks' = left

\* FlowSparePoolUpdateBlock: ask for the next flow of the block under
\* construction.  When memcap refuses, this block is the last one.
GrowAllocCheck ==
    /\ pc[Manager] = "grow" /\ blocks > 0 /\ block < BlockSize
    /\ IF FlowCheckMemcap
       THEN /\ pc' = [pc EXCEPT ![Manager] = "checked"]
            /\ UNCHANGED <<blocks, block, flowCnt, built>>
       ELSE LinkBlock(0) /\ UNCHANGED pc
    /\ UNCHANGED <<toRemove, pend, pool, cnt, memuse, memcap, used, spare, ret, capReq, phase>>

\* A failing SCCalloc ends the update as a full memcap does.
GrowAllocDone ==
    /\ pc[Manager] = "calloc"
    /\ \/ /\ block' = block + 1
          /\ UNCHANGED <<memuse, blocks, flowCnt, built>>
       \/ memuse' = memuse - 1 /\ LinkBlock(0)
    /\ pc' = [pc EXCEPT ![Manager] = "grow"]
    /\ UNCHANGED <<toRemove, pend, pool, cnt, memcap, used, spare, ret, capReq, phase>>

GrowNextBlock ==
    /\ pc[Manager] = "grow" /\ blocks > 0 /\ block = BlockSize
    /\ LinkBlock(blocks - 1)
    /\ UNCHANGED <<toRemove, pend, pool, cnt, memuse, memcap, used, spare, ret, pc,
                   capReq, phase>>

\* The new blocks go in behind the top one, last made first.
GrowInsert ==
    /\ pc[Manager] = "grow" /\ blocks = 0
    /\ pool' = IF pool = <<>> THEN built ELSE <<Head(pool)>> \o built \o Tail(pool)
    /\ cnt' = cnt + flowCnt
    /\ pc' = [pc EXCEPT ![Manager] = "idle"]
    /\ flowCnt' = 0 /\ built' = <<>>
    /\ UNCHANGED <<toRemove, pend, blocks, block, memuse, memcap, used, spare, ret,
                   capReq, phase>>

-----------------------------------------------------------------------------
(* FlowSetMemcap, run by the unix socket thread: it tests, then sets. *)

FlowSetMemcapCheck ==
    /\ phase = "run" /\ capReq = NoReq
    /\ \E size \in MemcapValues : memuse < size /\ capReq' = size
    /\ UNCHANGED <<pool, cnt, memuse, memcap, used, spare, ret, pc, upd, phase>>

FlowSetMemcapSet ==
    /\ capReq # NoReq
    /\ memcap' = capReq /\ capReq' = NoReq
    /\ UNCHANGED <<pool, cnt, memuse, used, spare, ret, pc, upd, phase>>

ManagerStep ==
    \/ FlowSparePoolUpdate \/ ShrinkTakeBlock \/ ShrinkFreeFlow \/ ShrinkDone
    \/ GrowAllocCheck \/ FlowAllocAdd(Manager) \/ GrowAllocDone
    \/ GrowNextBlock \/ GrowInsert

Next ==
    \/ FlowSparePoolInit \/ Shutdown \/ FlowSparePoolDestroy \/ Restart
    \/ ManagerStep
    \/ FlowSetMemcapCheck \/ FlowSetMemcapSet
    \/ \E w \in Worker :
          \/ GetFromSpareQueue(w) \/ FlowSpareSync(w) \/ FlowSpareSyncNotYet(w)
          \/ WorkerAllocCheck(w) \/ FlowAllocAdd(w) \/ WorkerAllocDone(w) \/ FlowWorkerThreadDeinit(w)
    \/ \E t \in Returner : RecycleFlow(t) \/ ReturnFlows(t) \/ EndOfWork(t)

Spec == Init /\ [][Next]_vars

-----------------------------------------------------------------------------
BlockLen == 0..BlockSize

\* The unsigned locals of FlowSparePoolUpdate never wrap: no block is longer
\* than BlockSize, so to_remove, tested against it, stays a natural number.
TypeOK ==
    /\ pool \in Seq(BlockLen) /\ cnt \in Int /\ memuse \in Int /\ used \in Nat
    /\ memcap \in MemcapValues /\ capReq \in MemcapValues \cup {NoReq}
    /\ spare \in [Worker -> Nat] /\ ret \in [Returner -> BlockLen]
    /\ pc \in [Thread -> {"idle", "nospare", "checked", "calloc", "work",
                         "shrink", "free", "grow"}]
    /\ toRemove \in Nat /\ pend \in BlockLen
    /\ blocks \in Nat /\ block \in BlockLen /\ flowCnt \in Nat
    /\ built \in Seq(BlockLen)
    /\ phase \in {"init", "run", "stop"}

\* Validate (flow-spare-pool.c): the counter the flow manager reads without
\* walking the pool is the number of flows in it, and no block is empty.
PoolValid ==
    /\ cnt = Total(pool)
    /\ \A i \in DOMAIN pool : pool[i] >= 1

\* Every flow charged to flow_memuse is in the pool, in a worker's spare queue,
\* on its way back, handed out or in the hands of FlowSparePoolUpdate: no path
\* loses a flow or returns one twice, so FlowShutdown finds memuse at 0.
MemuseAccountsForFlows ==
    memuse = Total(pool) + Total(spare) + Total(ret) + used + pend + block
             + Total(built) + Cardinality({t \in Allocator : pc[t] = "calloc"})

\* FlowAlloc tests memuse and adds to it in two steps, so threads can pass
\* memcap together: by less than the number of threads that allocate.
MemcapOvershootBounded ==
    memuse <= MaxMemcap + Cardinality(Allocator) - 1
=============================================================================
