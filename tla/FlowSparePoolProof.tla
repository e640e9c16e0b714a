------------------------- MODULE FlowSparePoolProof -------------------------
(* Proofs about FlowSparePool, for every number of workers and block size. *)
EXTENDS FlowSparePool, FiniteSetTheorems, FunctionTheorems, SequenceTheorems, TLAPS

\* The threads between FlowAlloc's test of memuse and its addition to it.
Checked == {t \in Allocator : pc[t] = "checked"}

\* What makes the bound inductive: a thread past the test counts as if it had
\* already added its flow, and nobody allocates outside the run phase.
OvershootInv ==
    /\ memuse + Cardinality(Checked) <= MaxMemcap + Cardinality(Allocator) - 1
    /\ phase # "run" => \A t \in Thread : pc[t] = "idle"

\* The types, with what keeps the block under construction from overflowing:
\* FlowSparePoolUpdateBlock asks for a flow only while there is room for it.
TypeInv ==
    /\ TypeOK
    /\ pc[Manager] \in {"checked", "calloc"} => block < BlockSize

\* The largest configured memcap is one of the configured values.
LEMMA MaxMemcapBounds == MaxMemcap \in Nat /\ \A n \in MemcapValues : n <= MaxMemcap
BY SizesAssumption, Zenon DEF MaxMemcap

\* Sequences of block lengths stay so under the list surgery of the pool.
LEMMA SeqFacts ==
    ASSUME NEW S, NEW s \in Seq(S)
    PROVE  /\ \A n \in S : <<n>> \o s \in Seq(S)
           /\ s # <<>> => Head(s) \in S /\ Tail(s) \in Seq(S) /\ Len(s) \in Nat \ {0}
           /\ \A t \in Seq(S) : s \o t \in Seq(S)
           /\ \A i \in 1..Len(s) : s[i] \in S /\ Without(s, i) \in Seq(S)
<1>1. \A n \in S : <<n>> \in Seq(S)
  OBVIOUS
<1>2. \A t, u \in Seq(S) : t \o u \in Seq(S)
  OBVIOUS
<1>3. s # <<>> => Head(s) \in S /\ Tail(s) \in Seq(S) /\ Len(s) \in Nat \ {0}
  OBVIOUS
<1>4. \A i \in 1..Len(s) : SubSeq(s, 1, i - 1) \in Seq(S) /\ SubSeq(s, i + 1, Len(s)) \in Seq(S)
  BY SubSeqProperties
<1>5. \A i \in 1..Len(s) : s[i] \in S
  OBVIOUS
<1> QED
  BY <1>1, <1>2, <1>3, <1>4, <1>5 DEF Without

LEMMA ConsSeq ==
    ASSUME NEW S, NEW n \in S, NEW s \in Seq(S) PROVE <<n>> \o s \in Seq(S)
OBVIOUS

\* Integer division, as FlowSparePoolUpdate uses it.
LEMMA DivNat == ASSUME NEW a \in Nat, NEW b \in Nat \ {0} PROVE a \div b \in Nat
OBVIOUS

\* Every step keeps the types: in particular to_remove never goes below 0.
LEMMA TypeStep == TypeInv /\ [Next]_vars => TypeInv'
<1> SUFFICES ASSUME TypeInv, [Next]_vars PROVE TypeInv'
    OBVIOUS
<1> USE DEF upd, TypeInv
<1>a. BlockSize \in Nat \ {0} /\ ShrinkDiv \in Nat \ {0} /\ Prealloc \in Nat
      /\ cnt \in Int /\ memuse \in Int /\ memcap \in Nat
  BY SizesAssumption DEF TypeOK
<1>b. pool \in Seq(BlockLen) /\ built \in Seq(BlockLen) /\ block \in BlockLen
  BY DEF TypeOK
<1>c. \A n \in BlockLen : n \in Nat /\ n <= BlockSize
  BY <1>a DEF BlockLen
<1>d. /\ Manager \in Thread /\ Worker \subseteq Thread /\ Returner \subseteq Thread
      /\ Manager \notin Worker /\ Manager \notin Returner
  BY ThreadsAssumption DEF Thread, Returner
<1>e. pool # <<>> => Head(pool) \in BlockLen /\ Tail(pool) \in Seq(BlockLen) /\ Head(pool) \in Nat
  BY <1>b, <1>c, SeqFacts
<1>1. CASE FlowSparePoolInit
  <2> DEFINE n == MinOf(BlockSize, MaxOf(memcap - memuse, 0))
  <2>1. n \in BlockLen /\ n \in Nat
    BY <1>a DEF MinOf, MaxOf, BlockLen
  <2>2. <<n>> \o pool \in Seq(BlockLen)
    BY <1>b, <2>1, SeqFacts
  <2>3. cnt + n \in Int /\ memuse + n \in Int
    BY <1>a, <2>1
  <2> HIDE DEF n
  <2>4. /\ pool' \in Seq(BlockLen) /\ cnt' \in Int /\ memuse' \in Int
        /\ phase' \in {"init", "run", "stop"}
    BY <1>1, <1>a, <1>b, <2>2, <2>3, Zenon DEF FlowSparePoolInit, TypeOK, n
  <2> QED
    BY <1>1, <2>4 DEF FlowSparePoolInit, TypeOK
<1>2. CASE Shutdown
  BY <1>2 DEF Shutdown, TypeOK
<1>3. CASE FlowSparePoolDestroy
  BY <1>3, <1>e DEF FlowSparePoolDestroy, TypeOK
<1>4. CASE Restart
  BY <1>4 DEF Restart, TypeOK
<1>5. CASE FlowSparePoolUpdate
  <2>1. CASE Prealloc - cnt < 0
    <3> DEFINE r == (-(Prealloc - cnt)) \div ShrinkDiv
    <3>1. -(Prealloc - cnt) \in Nat
      BY <1>a, <2>1
    <3>2. r \in Nat
      BY <1>a, <3>1, DivNat
    <3>3. toRemove' = r /\ UNCHANGED blocks /\ pc' = [pc EXCEPT ![Manager] = "shrink"]
      BY <1>5, <1>a, <2>1 DEF FlowSparePoolUpdate
    <3> HIDE DEF r
    <3> QED
      BY <1>5, <1>d, <3>2, <3>3 DEF FlowSparePoolUpdate, TypeOK
  <2>2. CASE Prealloc - cnt >= 0
    <3> DEFINE b == (Prealloc - cnt) \div BlockSize
    <3>1. Prealloc - cnt \in Nat
      BY <1>a, <2>2
    <3>2. b \in Nat
      BY <1>a, <3>1, DivNat
    <3>3. blocks' = b + 1 /\ UNCHANGED toRemove /\ pc' = [pc EXCEPT ![Manager] = "grow"]
      BY <1>5, <1>a, <2>2 DEF FlowSparePoolUpdate
    <3> HIDE DEF b
    <3> QED
      BY <1>5, <1>d, <3>2, <3>3 DEF FlowSparePoolUpdate, TypeOK
  <2> QED
    BY <1>a, <2>1, <2>2
<1>6. CASE ShrinkTakeBlock
  <2> DEFINE h == Head(pool)
  <2>a. h \in Nat /\ h <= BlockSize
    BY <1>6, <1>c, <1>e DEF ShrinkTakeBlock
  <2>b. /\ toRemove \in Nat /\ toRemove >= BlockSize
        /\ toRemove' = toRemove - h /\ cnt' = cnt - h
    BY <1>6 DEF ShrinkTakeBlock, TypeOK
  <2> HIDE DEF h
  <2>1. toRemove' \in Nat /\ cnt' \in Int
    BY <1>a, <2>a, <2>b
  <2> QED
    BY <1>6, <1>d, <1>e, <2>1 DEF ShrinkTakeBlock, TypeOK
<1>7. CASE ShrinkFreeFlow
  <2>1. pend' \in BlockLen /\ memuse' \in Int
    BY <1>7, <1>a DEF ShrinkFreeFlow, TypeOK, BlockLen
  <2> QED
    BY <1>7, <1>d, <2>1 DEF ShrinkFreeFlow, TypeOK
<1>8. CASE ShrinkDone
  BY <1>8, <1>d DEF ShrinkDone, TypeOK
<1>f. \A left \in Nat : LinkBlock(left) =>
        /\ built' \in Seq(BlockLen) /\ flowCnt' \in Nat /\ block' \in BlockLen
        /\ blocks' \in Nat
  <2>1. <<block>> \o built \in Seq(BlockLen)
    BY <1>b, ConsSeq
  <2>2. flowCnt + block \in Nat
    BY <1>b, <1>c DEF TypeOK
  <2>3. 0 \in BlockLen
    BY <1>a DEF BlockLen
  <2> QED
    BY <1>b, <2>1, <2>2, <2>3 DEF LinkBlock
<1>9. CASE GrowAllocCheck
  BY <1>9, <1>d, <1>f DEF GrowAllocCheck, TypeOK
<1>10. CASE GrowAllocDone
  <2>1. CASE block' = block + 1 /\ UNCHANGED <<memuse, blocks, flowCnt, built>>
    <3>1. block \in Nat /\ block < BlockSize
      BY <1>10, <1>b, <1>c DEF GrowAllocDone
    <3>2. block + 1 \in BlockLen
      BY <1>a, <3>1 DEF BlockLen
    <3> QED
      BY <1>10, <1>d, <2>1, <3>2 DEF GrowAllocDone, TypeOK
  <2>2. CASE memuse' = memuse - 1 /\ LinkBlock(0)
    BY <1>10, <1>a, <1>d, <1>f, <2>2 DEF GrowAllocDone, TypeOK
  <2> QED
    BY <1>10, <2>1, <2>2 DEF GrowAllocDone
<1>11. CASE GrowNextBlock
  <2>1. blocks - 1 \in Nat
    BY <1>11 DEF GrowNextBlock, TypeOK
  <2> QED
    BY <1>11, <1>f, <2>1 DEF GrowNextBlock, TypeOK
<1>12. CASE GrowInsert
  <2>1. pool' \in Seq(BlockLen)
    <3>1. pool # <<>> => <<Head(pool)>> \in Seq(BlockLen)
      BY <1>e
    <3>2. pool # <<>> => <<Head(pool)>> \o built \in Seq(BlockLen)
      BY <1>b, <3>1, SeqFacts
    <3>3. pool # <<>> => <<Head(pool)>> \o built \o Tail(pool) \in Seq(BlockLen)
      BY <1>e, <3>2, SeqFacts
    <3> QED
      BY <1>12, <1>b, <3>3 DEF GrowInsert
  <2>2. cnt' \in Int /\ built' \in Seq(BlockLen) /\ flowCnt' \in Nat
    BY <1>12 DEF GrowInsert, TypeOK
  <2> QED
    BY <1>12, <1>d, <2>1, <2>2 DEF GrowInsert, TypeOK
<1>13. CASE FlowSetMemcapCheck
  BY <1>13 DEF FlowSetMemcapCheck, TypeOK
<1>14. CASE FlowSetMemcapSet
  BY <1>14 DEF FlowSetMemcapSet, TypeOK
<1>15. ASSUME NEW t \in Allocator, FlowAllocAdd(t) PROVE TypeInv'
  BY <1>15, <1>d DEF FlowAllocAdd, Allocator, TypeOK
<1>16. ASSUME NEW w \in Worker, GetFromSpareQueue(w) PROVE TypeInv'
  BY <1>16 DEF GetFromSpareQueue, TypeOK
<1>17. ASSUME NEW w \in Worker, FlowSpareSync(w) PROVE TypeInv'
  <2>1. CASE pool = <<>> \/ cnt = 0
    BY <1>17, <1>d, <2>1 DEF FlowSpareSync, TypeOK
  <2>2. CASE ~(pool = <<>> \/ cnt = 0)
    <3>1. TakenBlock \in 1..Len(pool)
      <4>1. Len(pool) \in Nat \ {0}
        BY <1>b, <2>2, SeqFacts
      <4>2. CASE Head(pool) >= BlockSize \/ Len(pool) = 1
        BY <4>1, <4>2 DEF TakenBlock
      <4>3. CASE ~(Head(pool) >= BlockSize \/ Len(pool) = 1)
        <5>1. TakenBlock = 2
          BY <4>3 DEF TakenBlock
        <5>2. Len(pool) # 1
          BY <4>3
        <5>3. \A l \in Nat \ {0} : l # 1 => 2 \in 1..l
          OBVIOUS
        <5> QED
          BY <4>1, <5>1, <5>2, <5>3, Zenon
      <4> QED
        BY <4>2, <4>3
    <3>2. pool[TakenBlock] \in BlockLen /\ Without(pool, TakenBlock) \in Seq(BlockLen)
      BY <1>b, <3>1, SeqFacts
    <3> DEFINE n == pool[TakenBlock]
    <3>3. n \in Nat
      BY <1>c, <3>2
    <3>4. /\ pool' = Without(pool, TakenBlock) /\ cnt' = cnt - n
          /\ \/ n = 0 /\ pc' = [pc EXCEPT ![w] = "nospare"] /\ UNCHANGED <<spare, used>>
             \/ n # 0 /\ spare' = [spare EXCEPT ![w] = n - 1] /\ used' = used + 1
                /\ UNCHANGED pc
      BY <1>17, <2>2 DEF FlowSpareSync
    <3> HIDE DEF n
    <3>a. n # 0 => n - 1 \in Nat
      BY <3>3
    <3>5. cnt' \in Int /\ used' \in Nat
      BY <1>a, <3>3, <3>4 DEF TypeOK
    <3>6. spare' \in [Worker -> Nat]
      BY <3>a, <3>4 DEF TypeOK
    <3> QED
      BY <1>17, <1>d, <3>2, <3>4, <3>5, <3>6, Zenon DEF FlowSpareSync, TypeOK
  <2> QED
    BY <2>1, <2>2
<1>18. ASSUME NEW w \in Worker, WorkerAllocCheck(w) PROVE TypeInv'
  BY <1>18, <1>d DEF WorkerAllocCheck, TypeOK
<1>19. ASSUME NEW w \in Worker, WorkerAllocDone(w) PROVE TypeInv'
  BY <1>19, <1>d DEF WorkerAllocDone, TypeOK
<1>20. ASSUME NEW w \in Worker, FlowWorkerThreadDeinit(w) PROVE TypeInv'
  BY <1>20 DEF FlowWorkerThreadDeinit, TypeOK
<1>21. ASSUME NEW t \in Returner, RecycleFlow(t) PROVE TypeInv'
  <2>1. ret[t] < BlockSize => ret[t] + 1 \in BlockLen
    BY <1>a, <1>c DEF TypeOK, BlockLen
  <2>a. used' \in Nat /\ ret[t] < BlockSize
    BY <1>21 DEF RecycleFlow, TypeOK
  <2>b. pc' \in [Thread -> {"idle", "nospare", "checked", "calloc", "work",
                           "shrink", "free", "grow"}] /\ pc'[Manager] = pc[Manager]
    BY <1>21, <1>d DEF RecycleFlow, TypeOK
  <2>2. CASE KeepsFlow(t)
    <3>1. t \in Worker /\ spare[t] + 1 \in Nat
      BY <2>2 DEF KeepsFlow, TypeOK
    <3>2. spare' \in [Worker -> Nat] /\ UNCHANGED ret
      BY <1>21, <2>2, <3>1, Zenon DEF RecycleFlow, TypeOK
    <3> QED
      BY <1>21, <2>a, <2>b, <3>2 DEF RecycleFlow, TypeOK
  <2>3. CASE ~KeepsFlow(t)
    <3>1. ret' \in [Returner -> BlockLen] /\ UNCHANGED spare
      BY <1>21, <2>1, <2>3, <2>a DEF RecycleFlow, TypeOK
    <3> QED
      BY <1>21, <2>a, <2>b, <3>1 DEF RecycleFlow, TypeOK
  <2> QED
    BY <2>2, <2>3
<1>22. ASSUME NEW t \in Returner, ReturnFlows(t) PROVE TypeInv'
  <2>1. ret[t] \in BlockLen /\ ret[t] \in Nat
    BY <1>c DEF TypeOK
  <2>2. Inserted(ret[t]) \in Seq(BlockLen)
    <3>1. CASE pool = <<>>
      BY <2>1, <3>1 DEF Inserted
    <3>2. CASE pool # <<>>
      <4>1. <<ret[t]>> \o pool \in Seq(BlockLen)
        BY <1>b, <2>1, SeqFacts
      <4>2. <<Head(pool), ret[t]>> \o Tail(pool) \in Seq(BlockLen)
        <5>1. <<Head(pool), ret[t]>> \in Seq(BlockLen)
          BY <1>e, <2>1, <3>2
        <5> QED
          BY <1>e, <3>2, <5>1, SeqFacts
      <4>3. ret[t] + Head(pool) <= BlockSize =>
              <<ret[t] + Head(pool)>> \o Tail(pool) \in Seq(BlockLen)
        <5>1. ret[t] + Head(pool) <= BlockSize => ret[t] + Head(pool) \in BlockLen
          BY <1>a, <1>e, <2>1, <3>2 DEF BlockLen
        <5> QED
          BY <1>e, <3>2, <5>1, SeqFacts
      <4> QED
        BY <3>2, <4>1, <4>2, <4>3 DEF Inserted
    <3> QED
      BY <3>1, <3>2
  <2>3. 0 \in BlockLen
    BY <1>a DEF BlockLen
  <2> QED
    BY <1>22, <1>a, <1>d, <2>1, <2>2, <2>3
       DEF ReturnFlows, FlowSparePoolReturnFlows, TypeOK
<1>23. ASSUME NEW t \in Returner, EndOfWork(t) PROVE TypeInv'
  BY <1>23, <1>d DEF EndOfWork, TypeOK
<1>24. ASSUME NEW w \in Worker, FlowSpareSyncNotYet(w) PROVE TypeInv'
  BY <1>24, <1>d DEF FlowSpareSyncNotYet, TypeOK
<1>25. CASE UNCHANGED vars
  BY <1>25 DEF vars, TypeOK
<1> QED
  BY <1>1, <1>2, <1>3, <1>4, <1>5, <1>6, <1>7, <1>8, <1>9, <1>10, <1>11, <1>12,
     <1>13, <1>14, <1>15, <1>16, <1>17, <1>18, <1>19, <1>20, <1>21, <1>22, <1>23,
     <1>24, <1>25 DEF Next, ManagerStep, Allocator

\* The engine starts with the types right.
LEMMA TypeInit == Init => TypeInv
BY SizesAssumption DEF Init, TypeInv, TypeOK, BlockLen, Thread

\* The spare pool keeps its types, and with them the unsigned counters of
\* FlowSparePoolUpdate never wrap, whatever the workers do between its steps.
THEOREM TypeCorrect == Spec => []TypeOK
<1>1. TypeInv => TypeOK
  BY DEF TypeInv
<1> QED
  BY <1>1, TypeInit, TypeStep, PTL DEF Spec

\* What one step does to memuse and to the threads past the test: nothing that
\* matters, one more thread passes the test, one of them adds its flow, or the
\* startup loop, alone, fills a block.
LEMMA StepKinds ==
    TypeInv /\ OvershootInv /\ [Next]_vars =>
        \/ Checked' = Checked /\ memuse' <= memuse
        \/ memuse' = memuse /\ memuse + 1 <= MaxMemcap
        \/ \E t \in Checked : Checked' = Checked \ {t} /\ memuse' = memuse + 1
        \/ Checked' = {} /\ memuse' <= MaxMemcap
<1> SUFFICES ASSUME TypeInv, OvershootInv, [Next]_vars
             PROVE  \/ Checked' = Checked /\ memuse' <= memuse
                    \/ memuse' = memuse /\ memuse + 1 <= MaxMemcap
                    \/ \E t \in Checked : Checked' = Checked \ {t} /\ memuse' = memuse + 1
                    \/ Checked' = {} /\ memuse' <= MaxMemcap
    OBVIOUS
<1> DEFINE Goal == \/ Checked' = Checked /\ memuse' <= memuse
                   \/ memuse' = memuse /\ memuse + 1 <= MaxMemcap
                   \/ \E t \in Checked : Checked' = Checked \ {t} /\ memuse' = memuse + 1
                   \/ Checked' = {} /\ memuse' <= MaxMemcap
<1>a. memuse \in Int /\ memcap \in Nat /\ memcap <= MaxMemcap /\ MaxMemcap \in Nat
  BY MaxMemcapBounds, SizesAssumption DEF TypeInv, TypeOK
<1>b. pc = [t \in Thread |-> pc[t]] /\ Allocator \subseteq Thread /\ Returner \subseteq Thread
      /\ Manager \in Allocator /\ Worker \subseteq Allocator
  <2>1. pc = [t \in Thread |-> pc[t]]
    BY DEF TypeInv, TypeOK
  <2> QED
    BY <2>1 DEF Allocator, Thread, Returner
<1>c. ASSUME UNCHANGED pc PROVE Checked' = Checked
  BY <1>c DEF Checked
<1>d. ASSUME NEW t \in Thread, NEW l, pc' = [pc EXCEPT ![t] = l], pc[t] # "checked",
             l # "checked"
      PROVE  Checked' = Checked
  BY <1>b, <1>d DEF Checked
<1>1. CASE FlowSparePoolInit
  <2>1. \A t \in Thread : pc[t] = "idle"
    BY <1>1 DEF FlowSparePoolInit, OvershootInv
  <2>2. Checked = {} /\ Checked' = {}
    BY <1>1, <1>b, <2>1 DEF FlowSparePoolInit, Checked
  <2>3. CASE cnt < Prealloc
    <3> DEFINE n == MinOf(BlockSize, MaxOf(memcap - memuse, 0))
    <3>1. n <= memcap - memuse \/ n = 0
      BY <1>a, SizesAssumption DEF MinOf, MaxOf
    <3>2. n \in Nat
      BY <1>a, SizesAssumption DEF MinOf, MaxOf
    <3>3. memuse' = memuse + n
      BY <1>1, <2>3 DEF FlowSparePoolInit
    <3> HIDE DEF n
    <3>4. memuse' <= MaxMemcap \/ memuse' = memuse
      BY <1>a, <3>1, <3>2, <3>3
    <3> QED
      BY <1>a, <2>2, <3>4
  <2>4. CASE ~(cnt < Prealloc)
    <3>1. memuse' = memuse
      BY <1>1, <2>4 DEF FlowSparePoolInit
    <3> QED
      BY <1>a, <2>2, <3>1
  <2> QED
    BY <2>3, <2>4
<1>2. CASE Shutdown \/ Restart \/ FlowSetMemcapCheck \/ FlowSetMemcapSet \/ GrowNextBlock
           \/ UNCHANGED vars
  <2>1. UNCHANGED pc /\ memuse' = memuse
    BY <1>2 DEF Shutdown, Restart, FlowSetMemcapCheck, FlowSetMemcapSet, GrowNextBlock, vars
  <2> QED
    BY <1>a, <1>c, <2>1
<1>3. CASE FlowSparePoolDestroy
  <2>1. Head(pool) \in Nat
    <3>1. pool \in Seq(BlockLen)
      BY DEF TypeInv, TypeOK
    <3>2. pool # <<>>
      BY <1>3 DEF FlowSparePoolDestroy
    <3>3. Head(pool) \in BlockLen
      BY <3>1, <3>2, SeqFacts
    <3> QED
      BY <3>3, SizesAssumption DEF BlockLen
  <2>2. UNCHANGED pc /\ memuse' = memuse - Head(pool)
    BY <1>3 DEF FlowSparePoolDestroy
  <2>3. memuse' <= memuse
    BY <1>a, <2>1, <2>2
  <2> QED
    BY <1>c, <2>2, <2>3
<1>4. CASE FlowSparePoolUpdate \/ ShrinkTakeBlock \/ ShrinkDone \/ GrowInsert
  <2>1. memuse' = memuse /\ pc[Manager] # "checked"
    BY <1>4 DEF FlowSparePoolUpdate, ShrinkTakeBlock, ShrinkDone, GrowInsert
  <2>2. \E l \in {"shrink", "grow", "free", "idle"} : pc' = [pc EXCEPT ![Manager] = l]
    BY <1>4 DEF FlowSparePoolUpdate, ShrinkTakeBlock, ShrinkDone, GrowInsert
  <2>3. Checked' = Checked
    BY <1>b, <1>d, <2>1, <2>2
  <2> QED
    BY <1>a, <2>1, <2>3
<1>5. CASE ShrinkFreeFlow
  <2>1. memuse' = memuse \/ memuse' = memuse - 1
    BY <1>5 DEF ShrinkFreeFlow
  <2>2. UNCHANGED pc \/ pc' = [pc EXCEPT ![Manager] = "shrink"]
    BY <1>5 DEF ShrinkFreeFlow
  <2>3. pc[Manager] # "checked"
    BY <1>5 DEF ShrinkFreeFlow
  <2>4. Checked' = Checked
    BY <1>b, <1>c, <1>d, <2>2, <2>3
  <2> QED
    BY <1>a, <2>1, <2>4
<1>6. CASE GrowAllocCheck
  <2>1. CASE FlowCheckMemcap
    <3>1. memuse' = memuse /\ memuse + 1 <= memcap
      BY <1>6, <2>1 DEF GrowAllocCheck, FlowCheckMemcap
    <3> QED
      BY <1>a, <3>1
  <2>2. CASE ~FlowCheckMemcap
    <3>1. memuse' = memuse /\ UNCHANGED pc
      BY <1>6, <2>2 DEF GrowAllocCheck
    <3> QED
      BY <1>a, <1>c, <3>1
  <2> QED
    BY <2>1, <2>2
<1>7. CASE GrowAllocDone
  <2>1. memuse' = memuse \/ memuse' = memuse - 1
    BY <1>7 DEF GrowAllocDone
  <2>2. pc[Manager] = "calloc" /\ pc' = [pc EXCEPT ![Manager] = "grow"]
    BY <1>7 DEF GrowAllocDone
  <2>3. Checked' = Checked
    BY <1>b, <1>d, <2>2
  <2> QED
    BY <1>a, <2>1, <2>3
<1>8. ASSUME NEW t \in Allocator, FlowAllocAdd(t) PROVE Goal
  <2>1. t \in Checked /\ memuse' = memuse + 1 /\ pc' = [pc EXCEPT ![t] = "calloc"]
    BY <1>8 DEF FlowAllocAdd, Checked
  <2>2. Checked' = Checked \ {t}
    BY <1>b, <2>1 DEF Checked
  <2> QED
    BY <2>1, <2>2
<1>9. ASSUME NEW w \in Worker, GetFromSpareQueue(w) PROVE Goal
  <2>1. memuse' = memuse /\ UNCHANGED pc
    BY <1>9 DEF GetFromSpareQueue
  <2> QED
    BY <1>a, <1>c, <2>1
<1>10. ASSUME NEW w \in Worker, FlowSpareSync(w) PROVE Goal
  <2>1. memuse' = memuse /\ pc[w] = "idle"
    BY <1>10 DEF FlowSpareSync
  <2>2. UNCHANGED pc \/ pc' = [pc EXCEPT ![w] = "nospare"]
    BY <1>10 DEF FlowSpareSync
  <2>3. Checked' = Checked
    BY <1>b, <1>c, <1>d, <2>1, <2>2
  <2> QED
    BY <1>a, <2>1, <2>3
<1>11. ASSUME NEW w \in Worker, WorkerAllocCheck(w) PROVE Goal
  <2>1. memuse' = memuse /\ pc[w] = "nospare"
    BY <1>11 DEF WorkerAllocCheck
  <2>2. CASE FlowCheckMemcap
    BY <1>a, <2>1, <2>2 DEF FlowCheckMemcap
  <2>3. CASE ~FlowCheckMemcap
    <3>1. pc' = [pc EXCEPT ![w] = "idle"]
      BY <1>11, <2>3 DEF WorkerAllocCheck
    <3>2. Checked' = Checked
      BY <1>b, <1>d, <2>1, <3>1
    <3> QED
      BY <1>a, <2>1, <3>2
  <2> QED
    BY <2>2, <2>3
<1>12. ASSUME NEW w \in Worker, WorkerAllocDone(w) PROVE Goal
  <2>1. memuse' = memuse \/ memuse' = memuse - 1
    BY <1>12 DEF WorkerAllocDone
  <2>2. pc[w] = "calloc" /\ pc' = [pc EXCEPT ![w] = "idle"]
    BY <1>12 DEF WorkerAllocDone
  <2>3. Checked' = Checked
    BY <1>b, <1>d, <2>2
  <2> QED
    BY <1>a, <2>1, <2>3
<1>13. ASSUME NEW w \in Worker, FlowWorkerThreadDeinit(w) PROVE Goal
  <2>1. UNCHANGED pc /\ memuse' = memuse - spare[w] /\ spare[w] \in Nat
    BY <1>13 DEF FlowWorkerThreadDeinit, TypeInv, TypeOK
  <2>2. memuse' <= memuse
    BY <1>a, <2>1
  <2> QED
    BY <1>c, <2>1, <2>2
<1>14. ASSUME NEW t \in Returner, RecycleFlow(t) \/ ReturnFlows(t) \/ EndOfWork(t) PROVE Goal
  <2>1. memuse' = memuse /\ pc[t] # "checked"
    BY <1>14 DEF RecycleFlow, ReturnFlows, EndOfWork
  <2>2. \E l \in {"work", "idle"} : pc' = [pc EXCEPT ![t] = l]
    BY <1>14 DEF RecycleFlow, ReturnFlows, EndOfWork
  <2>3. Checked' = Checked
    BY <1>b, <1>d, <2>1, <2>2
  <2> QED
    BY <1>a, <2>1, <2>3
<1>15. ASSUME NEW w \in Worker, FlowSpareSyncNotYet(w) PROVE Goal
  <2>1. memuse' = memuse /\ pc[w] = "idle" /\ pc' = [pc EXCEPT ![w] = "nospare"]
    BY <1>15 DEF FlowSpareSyncNotYet
  <2>2. Checked' = Checked
    BY <1>b, <1>d, <2>1
  <2> QED
    BY <1>a, <2>1, <2>2
<1> QED
  BY <1>1, <1>2, <1>3, <1>4, <1>5, <1>6, <1>7, <1>8, <1>9, <1>10, <1>11, <1>12, <1>13,
     <1>14, <1>15 DEF Next, ManagerStep, Allocator

\* Outside the run phase every thread is parked: nobody allocates there.
LEMMA ParkedStep ==
    TypeInv /\ OvershootInv /\ [Next]_vars
        => (phase' # "run" => \A t \in Thread : pc'[t] = "idle")
<1> SUFFICES ASSUME TypeInv, OvershootInv, [Next]_vars, phase' # "run"
             PROVE  \A t \in Thread : pc'[t] = "idle"
    OBVIOUS
<1>a. phase # "run" => \A t \in Thread : pc[t] = "idle"
  BY DEF OvershootInv
<1>b. Manager \in Thread /\ Worker \subseteq Thread /\ Returner \subseteq Thread
  BY DEF Thread, Returner
<1>1. CASE Shutdown
  BY <1>1 DEF Shutdown
<1>2. CASE ~Shutdown
  <2>1. phase # "run"
    <3>1. CASE FlowSparePoolInit \/ FlowSparePoolDestroy \/ Restart
      BY <3>1 DEF FlowSparePoolInit, FlowSparePoolDestroy, Restart
    <3>2. CASE ManagerStep
      BY <3>2 DEF ManagerStep, FlowSparePoolUpdate, ShrinkTakeBlock, ShrinkFreeFlow, ShrinkDone,
                  GrowAllocCheck, FlowAllocAdd, GrowAllocDone, GrowNextBlock, GrowInsert
    <3>3. CASE FlowSetMemcapCheck \/ FlowSetMemcapSet \/ UNCHANGED vars
      BY <3>3 DEF FlowSetMemcapCheck, FlowSetMemcapSet, vars
    <3>4. CASE \E w \in Worker :
                  \/ GetFromSpareQueue(w) \/ FlowSpareSync(w) \/ FlowSpareSyncNotYet(w)
                  \/ WorkerAllocCheck(w) \/ FlowAllocAdd(w) \/ WorkerAllocDone(w) \/ FlowWorkerThreadDeinit(w)
      BY <3>4 DEF GetFromSpareQueue, FlowSpareSync, FlowSpareSyncNotYet, WorkerAllocCheck, FlowAllocAdd,
                  WorkerAllocDone, FlowWorkerThreadDeinit
    <3>5. CASE \E t \in Returner : RecycleFlow(t) \/ ReturnFlows(t) \/ EndOfWork(t)
      BY <3>5 DEF RecycleFlow, ReturnFlows, EndOfWork
    <3> QED
      BY <1>2, <3>1, <3>2, <3>3, <3>4, <3>5 DEF Next
  <2>2. \A t \in Thread : pc[t] = "idle"
    BY <1>a, <2>1
  <2>3. pc' = pc
    <3>1. CASE FlowSparePoolInit \/ FlowSparePoolDestroy \/ Restart
      BY <3>1 DEF FlowSparePoolInit, FlowSparePoolDestroy, Restart
    <3>2. ~ManagerStep
      BY <1>b, <2>1, <2>2
         DEF ManagerStep, FlowSparePoolUpdate, ShrinkTakeBlock, ShrinkFreeFlow, ShrinkDone,
             GrowAllocCheck, FlowAllocAdd, GrowAllocDone, GrowNextBlock, GrowInsert
    <3>3. CASE FlowSetMemcapCheck \/ FlowSetMemcapSet \/ UNCHANGED vars
      BY <3>3 DEF FlowSetMemcapCheck, FlowSetMemcapSet, vars
    <3>4. CASE \E w \in Worker :
                  \/ GetFromSpareQueue(w) \/ FlowSpareSync(w) \/ FlowSpareSyncNotYet(w)
                  \/ WorkerAllocCheck(w) \/ FlowAllocAdd(w) \/ WorkerAllocDone(w) \/ FlowWorkerThreadDeinit(w)
      BY <1>b, <2>1, <2>2, <3>4
         DEF GetFromSpareQueue, FlowSpareSync, FlowSpareSyncNotYet, WorkerAllocCheck, FlowAllocAdd,
             WorkerAllocDone, FlowWorkerThreadDeinit
    <3>5. ~ \E t \in Returner : RecycleFlow(t) \/ ReturnFlows(t) \/ EndOfWork(t)
      BY <1>b, <2>1, <2>2 DEF RecycleFlow, ReturnFlows, EndOfWork
    <3> QED
      BY <1>2, <3>1, <3>2, <3>3, <3>4, <3>5 DEF Next
  <2> QED
    BY <2>2, <2>3
<1> QED
  BY <1>1, <1>2

\* The threads past the test are some of the finitely many that allocate.
LEMMA CheckedFacts ==
    /\ IsFiniteSet(Allocator) /\ Cardinality(Allocator) \in Nat \ {0}
    /\ IsFiniteSet(Checked) /\ Cardinality(Checked) \in Nat
    /\ Cardinality(Checked) <= Cardinality(Allocator)
<1>1. IsFiniteSet(Allocator)
  BY ThreadsAssumption, FS_AddElement DEF Allocator
<1>2. Cardinality(Allocator) \in Nat
  BY <1>1, FS_CardinalityType
<1>3. Cardinality(Allocator) # 0
  BY <1>1, FS_EmptySet DEF Allocator
<1>4. Checked \subseteq Allocator
  BY DEF Checked
<1> QED
  BY <1>1, <1>2, <1>3, <1>4, FS_Subset, FS_CardinalityType

\* Every step keeps the bound with the threads past the test counted in.
LEMMA OvershootStep == TypeInv /\ OvershootInv /\ [Next]_vars => OvershootInv'
<1> SUFFICES ASSUME TypeInv, OvershootInv, [Next]_vars PROVE OvershootInv'
    OBVIOUS
<1> DEFINE a == Cardinality(Allocator)
           c == Cardinality(Checked)
<1>a. a \in Nat \ {0} /\ c \in Nat /\ c' \in Nat /\ c' <= a /\ IsFiniteSet(Checked)
  <2>1. c' \in Nat /\ c' <= a
    <3>1. Checked' \subseteq Allocator
      BY DEF Checked
    <3> QED
      BY <3>1, CheckedFacts, FS_Subset, FS_CardinalityType
  <2> QED
    BY <2>1, CheckedFacts
<1>b. memuse \in Int /\ memuse' \in Int /\ MaxMemcap \in Nat /\ memuse + c <= MaxMemcap + a - 1
  BY MaxMemcapBounds, TypeStep DEF TypeInv, TypeOK, OvershootInv
<1>1. memuse' + c' <= MaxMemcap + a - 1
  <2>1. CASE Checked' = Checked /\ memuse' <= memuse
    <3>1. c' = c
      BY <2>1
    <3> QED
      BY <1>a, <1>b, <2>1, <3>1
  <2>2. CASE memuse' = memuse /\ memuse + 1 <= MaxMemcap
    <3> QED
      BY <1>a, <1>b, <2>2
  <2>3. CASE \E t \in Checked : Checked' = Checked \ {t} /\ memuse' = memuse + 1
    <3>1. c' = c - 1
      BY <1>a, <2>3, FS_RemoveElement
    <3> QED
      BY <1>a, <1>b, <2>3, <3>1
  <2>4. CASE Checked' = {} /\ memuse' <= MaxMemcap
    <3>1. c' = 0
      BY <2>4, FS_EmptySet
    <3> QED
      BY <1>a, <1>b, <2>4, <3>1
  <2> QED
    BY StepKinds, <2>1, <2>2, <2>3, <2>4
<1> QED
  BY <1>1, ParkedStep DEF OvershootInv

\* flow_memuse never exceeds the largest memcap by as many flows as there are
\* threads that allocate: what FlowAlloc's unsynchronised test and add cost.
THEOREM OvershootBounded == Spec => []MemcapOvershootBounded
<1>1. Init => TypeInv /\ OvershootInv
  <2>1. Init => TypeInv
    BY TypeInit
  <2>2. Init => Checked = {} /\ memuse = 0
    BY DEF Init, Checked, Allocator, Thread
  <2>3. Init => memuse + Cardinality(Checked) <= MaxMemcap + Cardinality(Allocator) - 1
    BY <2>2, FS_EmptySet, CheckedFacts, MaxMemcapBounds
  <2> QED
    BY <2>1, <2>3 DEF OvershootInv, Init
<1>2. TypeInv /\ OvershootInv /\ [Next]_vars => (TypeInv /\ OvershootInv)'
  BY TypeStep, OvershootStep
<1>3. TypeInv /\ OvershootInv => MemcapOvershootBounded
  BY CheckedFacts, MaxMemcapBounds
     DEF TypeInv, TypeOK, OvershootInv, MemcapOvershootBounded
<1> QED
  BY <1>1, <1>2, <1>3, PTL DEF Spec

-----------------------------------------------------------------------------
(* The flows in the queues, counted. *)

\* A flow of the queues is one position of one of them.
LEMMA InSlots ==
    ASSUME NEW f, NEW e
    PROVE  e \in Slots(f) <=> \E x \in DOMAIN f : \E i \in 1..f[x] : e = <<x, i>>
<1>1. ASSUME e \in Slots(f) PROVE \E x \in DOMAIN f : \E i \in 1..f[x] : e = <<x, i>>
  BY <1>1 DEF Slots
<1>2. ASSUME NEW x \in DOMAIN f, NEW i \in 1..f[x], e = <<x, i>> PROVE e \in Slots(f)
  BY <1>2 DEF Slots
<1>. QED
  BY <1>1, <1>2

\* Empty queues have no flows.
LEMMA EmptyTotal ==
    ASSUME NEW f, \A x \in DOMAIN f : f[x] = 0
    PROVE  IsFiniteSet(Slots(f)) /\ Total(f) = 0
<1>1. Slots(f) = {}
  BY InSlots
<1>. QED
  BY <1>1, FS_EmptySet DEF Total

\* A queue of n flows has n of them.
Queue(x, n) == {<<x, i>> : i \in 1..n}

LEMMA QueueSize ==
    ASSUME NEW x, NEW n \in Nat
    PROVE  IsFiniteSet(Queue(x, n)) /\ Cardinality(Queue(x, n)) = n
<1>. DEFINE F == [i \in 1..n |-> <<x, i>>]
<1>1. F \in [1..n -> Queue(x, n)]
  BY DEF Queue
<1>2. \A a, b \in 1..n : F[a] = F[b] => a = b
  OBVIOUS
<1>3. \A e \in Queue(x, n) : \E a \in 1..n : F[a] = e
  BY DEF Queue
<1>4. F \in Bijection(1..n, Queue(x, n))
  BY <1>1, <1>2, <1>3, Zenon DEF Bijection, Injection, Surjection, IsInjective
<1>5. IsFiniteSet(1..n) /\ Cardinality(1..n) = n
  BY FS_Interval
<1>6. ExistsBijection(1..n, Queue(x, n))
  BY <1>4 DEF ExistsBijection
<1>. QED
  BY <1>5, <1>6, FS_Bijection

\* Changing one queue changes the total by as much.
LEMMA TotalExcept ==
    ASSUME NEW D, NEW f \in [D -> Nat], NEW x \in D, NEW n \in Nat, IsFiniteSet(Slots(f))
    PROVE  /\ IsFiniteSet(Slots([f EXCEPT ![x] = n]))
           /\ Total([f EXCEPT ![x] = n]) = Total(f) - f[x] + n
<1>. DEFINE g == [f EXCEPT ![x] = n]
            R == {e \in Slots(f) : e \notin Queue(x, f[x])}
<1>1. f[x] \in Nat /\ IsFiniteSet(R) /\ Cardinality(R) \in Nat
  BY FS_Subset, FS_CardinalityType
<1>2. Slots(f) = R \cup Queue(x, f[x]) /\ R \cap Queue(x, f[x]) = {}
  BY InSlots DEF Queue
<1>3. Slots(g) = R \cup Queue(x, n) /\ R \cap Queue(x, n) = {}
  <2>1. DOMAIN f = D /\ DOMAIN g = D /\ g[x] = n /\ \A y \in D : y # x => g[y] = f[y]
    OBVIOUS
  <2>2. \A e : e \in R <=> \E y \in D : y # x /\ \E i \in 1..f[y] : e = <<y, i>>
    BY <2>1, InSlots DEF Queue
  <2>3. \A e : e \in Slots(g) <=> \E y \in D : \E i \in 1..g[y] : e = <<y, i>>
    BY <2>1, InSlots, Zenon
  <2>4. \A e : e \in Queue(x, n) <=> \E i \in 1..n : e = <<x, i>>
    BY DEF Queue
  <2>. HIDE DEF R, g
  <2>5. Slots(g) = R \cup Queue(x, n)
    BY <2>1, <2>2, <2>3, <2>4
  <2>6. R \cap Queue(x, n) = {}
    BY <2>2, <2>4
  <2>. QED
    BY <2>5, <2>6
<1>. HIDE DEF R, g
<1>4. Cardinality(Slots(f)) = Cardinality(R) + f[x]
  <2>1. /\ IsFiniteSet(Queue(x, f[x])) /\ Cardinality(Queue(x, f[x])) = f[x]
        /\ Cardinality(R \cap Queue(x, f[x])) = 0
    BY <1>1, <1>2, QueueSize, FS_EmptySet
  <2>2. Cardinality(R \cup Queue(x, f[x])) =
          Cardinality(R) + Cardinality(Queue(x, f[x])) - Cardinality(R \cap Queue(x, f[x]))
    BY <1>1, <2>1, FS_Union, Zenon
  <2>. QED
    BY <1>1, <1>2, <2>1, <2>2
<1>5. IsFiniteSet(Slots(g)) /\ Cardinality(Slots(g)) = Cardinality(R) + n
  <2>1. /\ IsFiniteSet(Queue(x, n)) /\ Cardinality(Queue(x, n)) = n
        /\ Cardinality(R \cap Queue(x, n)) = 0
    BY <1>3, QueueSize, FS_EmptySet, Zenon
  <2>2. /\ IsFiniteSet(R \cup Queue(x, n))
        /\ Cardinality(R \cup Queue(x, n)) =
             Cardinality(R) + Cardinality(Queue(x, n)) - Cardinality(R \cap Queue(x, n))
    BY <1>1, <2>1, FS_Union, Zenon
  <2>. QED
    BY <1>1, <1>3, <2>1, <2>2
<1>. QED
  BY <1>1, <1>4, <1>5 DEF Total, g

\* The same, for the blocks of the pool.
LEMMA InBlocks ==
    ASSUME NEW s \in Seq(Nat), NEW n \in Nat, n = Len(s), NEW e
    PROVE  e \in Slots(s) <=> \E x \in 1..n : \E i \in 1..s[x] : e = <<x, i>>
<1>1. ASSUME e \in Slots(s) PROVE \E x \in 1..n : \E i \in 1..s[x] : e = <<x, i>>
  <2>1. \E x \in DOMAIN s : \E i \in 1..s[x] : e = <<x, i>>
    BY <1>1, InSlots
  <2>2. PICK x \in DOMAIN s : \E i \in 1..s[x] : e = <<x, i>>
    BY <2>1
  <2>. QED
    BY <2>2
<1>2. ASSUME NEW x \in 1..n, \E i \in 1..s[x] : e = <<x, i>> PROVE e \in Slots(s)
  <2>1. x \in DOMAIN s
    OBVIOUS
  <2>. QED
    BY <1>2, <2>1, InSlots, Zenon
<1>. QED
  BY <1>1, <1>2

\* Two lists of queues, one after the other, have the flows of both.
LEMMA TotalConcat ==
    ASSUME NEW s \in Seq(Nat), NEW t \in Seq(Nat)
    PROVE  /\ IsFiniteSet(Slots(s \o t)) <=> IsFiniteSet(Slots(s)) /\ IsFiniteSet(Slots(t))
           /\ IsFiniteSet(Slots(s \o t)) => Total(s \o t) = Total(s) + Total(t)
<1>. DEFINE T == {e \in Slots(s \o t) : e[1] > Len(s)}
            F == [e \in Slots(t) |-> <<e[1] + Len(s), e[2]>>]
<1>1. Slots(s \o t) = Slots(s) \cup T /\ Slots(s) \cap T = {}
  <2>1. Len(s) \in Nat
    OBVIOUS
  <2>2. \A e : e \in Slots(s) <=> \E x \in 1..Len(s) : \E i \in 1..s[x] : e = <<x, i>>
    BY <2>1, InBlocks, Zenon
  <2>3. \A e : e \in Slots(s \o t) <=>
           \E x \in 1..(Len(s) + Len(t)) : \E i \in 1..(s \o t)[x] : e = <<x, i>>
    <3>. DEFINE n == Len(s) + Len(t)
    <3>1. s \o t \in Seq(Nat) /\ n \in Nat /\ n = Len(s \o t)
      OBVIOUS
    <3>. HIDE DEF n
    <3>2. \A e : e \in Slots(s \o t) <=> \E x \in 1..n : \E i \in 1..(s \o t)[x] : e = <<x, i>>
      BY <3>1, InBlocks, Zenon
    <3>. QED
      BY <3>2 DEF n
  <2>4. \A x \in 1..Len(s) : (s \o t)[x] = s[x]
    OBVIOUS
  <2>. QED
    BY <2>2, <2>3, <2>4
<1>2. F \in Bijection(Slots(t), T)
  <2>1. Len(t) \in Nat
    OBVIOUS
  <2>2. \A e : e \in Slots(t) <=> \E x \in 1..Len(t) : \E i \in 1..t[x] : e = <<x, i>>
    BY <2>1, InBlocks, Zenon
  <2>3. \A e : e \in T <=>
           \E x \in (Len(s) + 1)..(Len(s) + Len(t)) : \E i \in 1..t[x - Len(s)] : e = <<x, i>>
    <3>1. \A e : e \in Slots(s \o t) <=>
           \E x \in 1..(Len(s) + Len(t)) : \E i \in 1..(s \o t)[x] : e = <<x, i>>
      <4>. DEFINE n == Len(s) + Len(t)
      <4>1. s \o t \in Seq(Nat) /\ n \in Nat /\ n = Len(s \o t)
        OBVIOUS
      <4>. HIDE DEF n
      <4>2. \A e : e \in Slots(s \o t) <=> \E x \in 1..n : \E i \in 1..(s \o t)[x] : e = <<x, i>>
        BY <4>1, InBlocks, Zenon
      <4>. QED
        BY <4>2 DEF n
    <3>2. \A x \in (Len(s) + 1)..(Len(s) + Len(t)) : (s \o t)[x] = t[x - Len(s)]
      OBVIOUS
    <3>. QED
      BY <3>1, <3>2
  <2>4. F \in [Slots(t) -> T]
    <3>. SUFFICES ASSUME NEW e \in Slots(t) PROVE <<e[1] + Len(s), e[2]>> \in T
      OBVIOUS
    <3>1a. PICK x \in 1..Len(t) : \E i \in 1..t[x] : e = <<x, i>>
      BY <2>2
    <3>1. PICK i \in 1..t[x] : e = <<x, i>>
      BY <3>1a
    <3>2. x + Len(s) \in (Len(s) + 1)..(Len(s) + Len(t)) /\ (x + Len(s)) - Len(s) = x
      OBVIOUS
    <3>. HIDE DEF T
    <3>. QED
      BY <2>3, <3>1, <3>2, Zenon
  <2>5. \A a, b \in Slots(t) : F[a] = F[b] => a = b
    <3>. SUFFICES ASSUME NEW a \in Slots(t), NEW b \in Slots(t), F[a] = F[b] PROVE a = b
      OBVIOUS
    <3>1a. PICK x \in 1..Len(t) : \E i \in 1..t[x] : a = <<x, i>>
      BY <2>2
    <3>1. PICK i \in 1..t[x] : a = <<x, i>>
      BY <3>1a
    <3>2a. PICK y \in 1..Len(t) : \E j \in 1..t[y] : b = <<y, j>>
      BY <2>2
    <3>2. PICK j \in 1..t[y] : b = <<y, j>>
      BY <3>2a
    <3>3. F[a] = <<x + Len(s), i>> /\ F[b] = <<y + Len(s), j>>
      BY <3>1, <3>2
    <3>4. x + Len(s) = y + Len(s) /\ i = j
      BY <3>3, Zenon
    <3>. QED
      BY <3>1, <3>2, <3>4
  <2>6. \A e \in T : \E a \in Slots(t) : F[a] = e
    <3>. SUFFICES ASSUME NEW e \in T PROVE \E a \in Slots(t) : F[a] = e
      OBVIOUS
    <3>1. PICK x \in (Len(s) + 1)..(Len(s) + Len(t)) : \E i \in 1..t[x - Len(s)] : e = <<x, i>>
      BY <2>3
    <3>2. PICK i \in 1..t[x - Len(s)] : e = <<x, i>>
      BY <3>1
    <3>3. <<x - Len(s), i>> \in Slots(t) /\ F[<<x - Len(s), i>>] = e
      <4>1. x - Len(s) \in 1..Len(t)
        OBVIOUS
      <4>2. <<x - Len(s), i>> \in Slots(t)
        BY <2>2, <4>1, Zenon
      <4>. QED
        BY <4>2, <3>2
    <3>. QED
      BY <3>3, Zenon
  <2>. QED
    BY <2>4, <2>5, <2>6, Zenon DEF Bijection, Injection, Surjection, IsInjective
<1>3. ExistsBijection(Slots(t), T) /\ ExistsBijection(T, Slots(t))
  BY <1>2, Fun_ExistsBijSymmetric, Zenon DEF ExistsBijection
<1>. HIDE DEF T, F
<1>4. ASSUME IsFiniteSet(Slots(s)), IsFiniteSet(Slots(t))
      PROVE  IsFiniteSet(Slots(s \o t)) /\ Total(s \o t) = Total(s) + Total(t)
  <2>1. IsFiniteSet(T) /\ Cardinality(T) = Cardinality(Slots(t))
    BY <1>3, <1>4, FS_Bijection
  <2>2. Cardinality(Slots(s) \cap T) = 0 /\ Cardinality(Slots(s)) \in Nat /\ Cardinality(Slots(t)) \in Nat
    BY <1>1, <1>4, FS_EmptySet, FS_CardinalityType, Zenon
  <2>3. /\ IsFiniteSet(Slots(s) \cup T)
        /\ Cardinality(Slots(s) \cup T) =
             Cardinality(Slots(s)) + Cardinality(T) - Cardinality(Slots(s) \cap T)
    BY <1>4, <2>1, FS_Union, Zenon
  <2>. QED
    BY <1>1, <2>1, <2>2, <2>3 DEF Total
<1>5. ASSUME IsFiniteSet(Slots(s \o t)) PROVE IsFiniteSet(Slots(s)) /\ IsFiniteSet(Slots(t))
  <2>1. Slots(s) \subseteq Slots(s \o t) /\ T \subseteq Slots(s \o t)
    BY <1>1
  <2>. QED
    BY <1>3, <1>5, <2>1, FS_Subset, FS_Bijection, Zenon
<1>. QED
  BY <1>4, <1>5

\* One block, and a block put in front of others.
LEMMA ConsTotal ==
    ASSUME NEW n \in Nat, NEW s \in Seq(Nat)
    PROVE  /\ IsFiniteSet(Slots(<<n>>)) /\ Total(<<n>>) = n
           /\ IsFiniteSet(Slots(<<n>> \o s)) <=> IsFiniteSet(Slots(s))
           /\ IsFiniteSet(Slots(s)) => Total(<<n>> \o s) = n + Total(s)
<1>1. <<n>> \in Seq(Nat) /\ 1 = Len(<<n>>) /\ <<n>>[1] = n /\ 1 \in Nat
  OBVIOUS
<1>2. \A e : e \in Slots(<<n>>) <=> \E x \in 1..1 : \E i \in 1..<<n>>[x] : e = <<x, i>>
  BY <1>1, InBlocks, Zenon
<1>3. \A e : e \in Slots(<<n>>) <=> \E i \in 1..n : e = <<1, i>>
  BY <1>1, <1>2
<1>4. Slots(<<n>>) = Queue(1, n)
  BY <1>3, Zenon DEF Queue
<1>5. IsFiniteSet(Slots(<<n>>)) /\ Total(<<n>>) = n
  BY <1>4, QueueSize DEF Total
<1>. QED
  BY <1>1, <1>5, TotalConcat, Zenon

\* Taking the first block off.
LEMMA TailTotal ==
    ASSUME NEW s \in Seq(Nat), s # <<>>, IsFiniteSet(Slots(s))
    PROVE  /\ Head(s) \in Nat /\ Tail(s) \in Seq(Nat)
           /\ IsFiniteSet(Slots(Tail(s))) /\ Total(s) = Head(s) + Total(Tail(s))
<1>1. Head(s) \in Nat /\ Tail(s) \in Seq(Nat) /\ s = <<Head(s)>> \o Tail(s)
  OBVIOUS
<1>. QED
  BY <1>1, ConsTotal, Zenon

\* Taking out the block FlowSpareGetFromPool hands over.
LEMMA RemoveTotal ==
    ASSUME NEW s \in Seq(Nat), NEW k \in 1..Len(s), IsFiniteSet(Slots(s))
    PROVE  /\ IsFiniteSet(Slots(Without(s, k))) /\ Total(Without(s, k)) = Total(s) - s[k]
           /\ s[k] \in Nat
<1>. DEFINE a == SubSeq(s, 1, k - 1)
            b == SubSeq(s, k, Len(s))
            c == SubSeq(s, k + 1, Len(s))
<1>1. s[k] \in Nat /\ Len(s) \in Nat /\ k \in Nat /\ (k - 1) + 1 = k
  OBVIOUS
<1>2. a \in Seq(Nat) /\ b \in Seq(Nat) /\ c \in Seq(Nat)
  BY <1>1, SubSeqProperties
<1>3. s = a \o b
  <2>1. 1 \in 1..(Len(s) + 1) /\ k - 1 \in (1 - 1)..Len(s) /\ Len(s) \in (k - 1)..Len(s)
    BY <1>1
  <2>2. SubSeq(s, 1, k - 1) \o SubSeq(s, (k - 1) + 1, Len(s)) = SubSeq(s, 1, Len(s))
    BY <2>1, ConcatAdjacentSubSeq, Zenon
  <2>. QED
    BY <1>1, <2>2, SubSeqFull, Zenon
<1>4. b = <<s[k]>> \o c
  <2>1. Len(s) \in k..Len(s)
    BY <1>1
  <2>. QED
    BY <2>1, SubSeqRecursiveFirst, Zenon
<1>5. Without(s, k) = a \o c
  BY DEF Without
<1>. HIDE DEF a, b, c
<1>6. /\ IsFiniteSet(Slots(a)) /\ IsFiniteSet(Slots(b)) /\ IsFiniteSet(Slots(c))
      /\ Total(s) = Total(a) + Total(b)
  BY <1>1, <1>2, <1>3, <1>4, TotalConcat, ConsTotal, Zenon
<1>7. Total(b) = s[k] + Total(c)
  BY <1>1, <1>2, <1>4, <1>6, ConsTotal
<1>8. IsFiniteSet(Slots(a \o c)) /\ Total(a \o c) = Total(a) + Total(c)
  BY <1>2, <1>6, TotalConcat
<1>9. Total(a) \in Nat /\ Total(c) \in Nat
  BY <1>6, FS_CardinalityType DEF Total
<1>10. Total(Without(s, k)) = Total(s) - s[k]
  BY <1>1, <1>5, <1>6, <1>7, <1>8, <1>9
<1>. QED
  BY <1>1, <1>5, <1>8, <1>10

-----------------------------------------------------------------------------
(* Every flow is accounted for. *)

\* What is empty when, so that nothing is left over at the end of a run: a thread that
\* works on no ret_queue has none, and FlowSparePoolUpdate holds flows only while it runs.
QuietInv ==
    /\ phase # "run" => used = 0 /\ \A t \in Thread : pc[t] = "idle"
    /\ phase = "init" => \A w \in Worker : spare[w] = 0
    /\ \A t \in Returner : pc[t] # "work" => ret[t] = 0
    /\ pc[Manager] # "free" => pend = 0
    /\ pc[Manager] \notin {"grow", "checked", "calloc"} => block = 0 /\ built = <<>>
    /\ pc[Manager] = "grow" /\ blocks = 0 => block = 0
    /\ pc[Manager] \in {"checked", "calloc"} => blocks > 0

\* FlowSparePoolUpdate and the threads leave nothing behind when they stop.
LEMMA QuietStep == TypeInv /\ QuietInv /\ [Next]_vars => QuietInv'
<1>. SUFFICES ASSUME TypeInv, QuietInv, [Next]_vars PROVE QuietInv'
  OBVIOUS
<1>a. /\ Manager \in Thread /\ Worker \subseteq Thread /\ Returner \subseteq Thread
      /\ Manager \notin Worker /\ Manager \notin Returner
      /\ BlockSize \in Nat \ {0} /\ Prealloc \in Nat
  BY ThreadsAssumption, SizesAssumption DEF Thread, Returner
<1>b. /\ pc = [t \in Thread |-> pc[t]] /\ ret = [t \in Returner |-> ret[t]]
      /\ spare = [w \in Worker |-> spare[w]] /\ cnt \in Int /\ block \in Nat /\ used \in Nat
      /\ blocks \in Nat /\ \A t \in Returner : ret[t] \in Nat
  BY SizesAssumption DEF TypeInv, TypeOK, BlockLen
<1>1. CASE FlowSparePoolInit
  BY <1>1, Zenon DEF FlowSparePoolInit, QuietInv, upd
<1>2. CASE Shutdown
  BY <1>2, <1>a, Zenon DEF Shutdown, QuietInv, upd
<1>3. CASE FlowSparePoolDestroy
  BY <1>3, Zenon DEF FlowSparePoolDestroy, QuietInv, upd
<1>4. CASE Restart
  BY <1>4, Zenon DEF Restart, QuietInv, upd
<1>5. CASE FlowSparePoolUpdate
  <2>1. pc[Manager] = "idle" /\ UNCHANGED <<pend, block, built, used, spare, ret, phase>> /\ phase = "run"
    BY <1>5 DEF FlowSparePoolUpdate
  <2>2. CASE pc' = [pc EXCEPT ![Manager] = "shrink"]
    BY <1>a, <1>b, <2>1, <2>2, Zenon DEF QuietInv
  <2>3. CASE pc' = [pc EXCEPT ![Manager] = "grow"]
    BY <1>a, <1>b, <2>1, <2>3, Zenon DEF QuietInv
  <2>. QED
    BY <1>5, <2>2, <2>3, Zenon DEF FlowSparePoolUpdate
<1>6. CASE ShrinkTakeBlock \/ ShrinkFreeFlow \/ ShrinkDone
  <2>1. /\ UNCHANGED <<block, built, used, spare, ret, phase, blocks>>
        /\ pc[Manager] \in {"shrink", "free"} /\ \A t \in Thread \ {Manager} : pc'[t] = pc[t]
        /\ pc'[Manager] \in {"shrink", "free", "idle"} /\ (pc'[Manager] # "free" => pend' = 0)
    <3>1. pend \in Nat
      BY SizesAssumption DEF TypeInv, TypeOK, BlockLen
    <3>. QED
      BY <1>6, <1>a, <1>b, <3>1 DEF ShrinkTakeBlock, ShrinkFreeFlow, ShrinkDone, QuietInv
  <2>. QED
    BY <1>a, <1>b, <2>1, Zenon DEF QuietInv
<1>7. CASE GrowAllocCheck \/ GrowAllocDone \/ FlowAllocAdd(Manager) \/ GrowNextBlock \/ GrowInsert
  <2>1. /\ UNCHANGED <<pend, used, spare, ret, phase>>
        /\ pc[Manager] \in {"grow", "checked", "calloc"} /\ \A t \in Thread \ {Manager} : pc'[t] = pc[t]
        /\ pc'[Manager] \in {"grow", "checked", "calloc", "idle"}
    BY <1>7, <1>a, <1>b, Zenon DEF GrowAllocCheck, GrowAllocDone, FlowAllocAdd, GrowNextBlock, GrowInsert, upd
  <2>2. CASE GrowAllocCheck \/ GrowNextBlock
    <3>1. (blocks' = 0 => block' = 0) /\ (pc'[Manager] = "checked" => blocks' > 0)
          /\ pc'[Manager] \in {"grow", "checked"}
      BY <1>a, <1>b, <2>2 DEF GrowAllocCheck, GrowNextBlock, LinkBlock
    <3>. QED
      BY <1>a, <2>1, <3>1, Zenon DEF QuietInv
  <2>3. CASE GrowAllocDone
    <3>1. (blocks' = 0 => block' = 0) /\ pc'[Manager] = "grow"
      BY <1>a, <1>b, <2>3 DEF GrowAllocDone, LinkBlock, QuietInv
    <3>. QED
      BY <1>a, <2>1, <3>1, Zenon DEF QuietInv
  <2>4. CASE FlowAllocAdd(Manager)
    <3>1. UNCHANGED <<block, blocks>> /\ pc'[Manager] = "calloc" /\ pc[Manager] = "checked"
      BY <1>a, <1>b, <2>4 DEF FlowAllocAdd, upd
    <3>. QED
      BY <1>a, <2>1, <3>1, Zenon DEF QuietInv
  <2>5. CASE GrowInsert
    <3>1. block = 0 /\ UNCHANGED <<block, blocks>> /\ pc'[Manager] = "idle" /\ built' = <<>>
      BY <1>a, <1>b, <2>5, Zenon DEF GrowInsert, QuietInv
    <3>. QED
      BY <1>a, <2>1, <3>1, Zenon DEF QuietInv
  <2>. QED
    BY <1>7, <2>2, <2>3, <2>4, <2>5
<1>8. CASE FlowSetMemcapCheck \/ FlowSetMemcapSet \/ UNCHANGED vars
  BY <1>8, Zenon DEF FlowSetMemcapCheck, FlowSetMemcapSet, QuietInv, vars, upd
<1>9. ASSUME NEW w \in Worker,
             GetFromSpareQueue(w) \/ FlowSpareSync(w) \/ FlowSpareSyncNotYet(w) \/ WorkerAllocCheck(w)
             \/ FlowAllocAdd(w) \/ WorkerAllocDone(w)
      PROVE  QuietInv'
  <2>1. /\ UNCHANGED <<ret, upd, phase>> /\ phase = "run"
        /\ pc[w] # "work" /\ \A t \in Thread \ {w} : pc'[t] = pc[t]
    BY <1>9, <1>a, <1>b, Zenon DEF GetFromSpareQueue, FlowSpareSync, FlowSpareSyncNotYet, WorkerAllocCheck, FlowAllocAdd,
       WorkerAllocDone, QuietInv
  <2>. QED
    BY <1>a, <2>1, Zenon DEF QuietInv, upd
<1>10. ASSUME NEW w \in Worker, FlowWorkerThreadDeinit(w) PROVE QuietInv'
  BY <1>10, <1>b, Zenon DEF FlowWorkerThreadDeinit, QuietInv, upd
<1>11. ASSUME NEW t \in Returner, RecycleFlow(t) \/ ReturnFlows(t) \/ EndOfWork(t) PROVE QuietInv'
  <2>1. /\ UNCHANGED <<upd, phase>> /\ phase = "run" /\ \A u \in Thread \ {t} : pc'[u] = pc[u]
        /\ \A u \in Returner \ {t} : ret'[u] = ret[u]
        /\ pc'[t] # "work" => ret'[t] = 0
    BY <1>11, <1>a, <1>b, Zenon DEF RecycleFlow, ReturnFlows, EndOfWork, FlowSparePoolReturnFlows, QuietInv
  <2>. QED
    BY <1>a, <2>1, Zenon DEF QuietInv, upd
<1>. QED
  BY <1>1, <1>2, <1>3, <1>4, <1>5, <1>6, <1>7, <1>8, <1>9, <1>10, <1>11 DEF Next, ManagerStep

\* The threads that have charged a flow to memuse and wait for SCCalloc.
Callocs == {t \in Allocator : pc[t] = "calloc"}

\* What makes the accounts inductive: the counter of the pool and the one of the blocks
\* under construction agree with the blocks, and every list has finitely many flows.
AccountInv ==
    /\ IsFiniteSet(Slots(pool)) /\ IsFiniteSet(Slots(built))
    /\ IsFiniteSet(Slots(spare)) /\ IsFiniteSet(Slots(ret))
    /\ cnt = Total(pool) /\ flowCnt = Total(built)
    /\ MemuseAccountsForFlows

\* Totals are natural numbers.
LEMMA TotalNat == ASSUME NEW f, IsFiniteSet(Slots(f)) PROVE Total(f) \in Nat
  BY FS_CardinalityType DEF Total

\* FlowSparePoolReturnFlows adds the flows of the block it is given.
LEMMA InsertedTotal ==
    ASSUME pool \in Seq(Nat), IsFiniteSet(Slots(pool)), NEW n \in Nat
    PROVE  IsFiniteSet(Slots(Inserted(n))) /\ Total(Inserted(n)) = Total(pool) + n
<1>1. CASE pool = <<>>
  <2>1. Slots(pool) = {}
    BY <1>1 DEF Slots
  <2>2. Total(pool) = 0
    BY <2>1, FS_EmptySet DEF Total
  <2>3. Inserted(n) = <<n>>
    BY <1>1 DEF Inserted
  <2>4. IsFiniteSet(Slots(<<n>>)) /\ Total(<<n>>) = n
    BY ConsTotal
  <2>. QED
    BY <2>2, <2>3, <2>4
<1>2. CASE pool # <<>>
  <2>. DEFINE h == Head(pool)
              s == Tail(pool)
  <2>1. /\ h \in Nat /\ s \in Seq(Nat) /\ IsFiniteSet(Slots(s)) /\ Total(pool) = h + Total(s)
        /\ Total(s) \in Nat
    BY <1>2, TailTotal, TotalNat
  <2>2. IsFiniteSet(Slots(<<n>> \o pool)) /\ Total(<<n>> \o pool) = n + Total(pool)
    BY ConsTotal
  <2>3. IsFiniteSet(Slots(<<h, n>> \o s)) /\ Total(<<h, n>> \o s) = h + n + Total(s)
    <3>1. <<h, n>> = <<h>> \o <<n>> /\ <<n>> \in Seq(Nat) /\ <<h, n>> \in Seq(Nat)
      BY <2>1
    <3>. HIDE DEF h, s
    <3>2. IsFiniteSet(Slots(<<h, n>>)) /\ Total(<<h, n>>) = h + n
      <4>1. IsFiniteSet(Slots(<<n>>)) /\ Total(<<n>>) = n
        BY <3>1, ConsTotal, Zenon
      <4>2. IsFiniteSet(Slots(<<h>> \o <<n>>)) /\ Total(<<h>> \o <<n>>) = h + Total(<<n>>)
        BY <2>1, <3>1, <4>1, ConsTotal, Zenon
      <4>. QED
        BY <3>1, <4>1, <4>2, Zenon
    <3>3. IsFiniteSet(Slots(<<h, n>> \o s)) /\ Total(<<h, n>> \o s) = Total(<<h, n>>) + Total(s)
      BY <2>1, <3>1, <3>2, TotalConcat, Zenon
    <3>. QED
      BY <3>2, <3>3
  <2>4. IsFiniteSet(Slots(<<n + h>> \o s)) /\ Total(<<n + h>> \o s) = n + h + Total(s)
    <3>1. n + h \in Nat
      BY <2>1
    <3>. QED
      BY <2>1, <3>1, ConsTotal, Zenon
  <2>. DEFINE A == <<n>> \o pool
              B == <<h, n>> \o s
              C == <<n + h>> \o s
  <2>5. Inserted(n) = IF n = BlockSize THEN IF h < BlockSize THEN B ELSE A
                      ELSE IF n + h <= BlockSize THEN C ELSE IF n < h THEN A ELSE B
    BY <1>2 DEF Inserted
  <2>. HIDE DEF A, B, C
  <2>6. Inserted(n) = A \/ Inserted(n) = B \/ Inserted(n) = C
    BY <2>5
  <2>7. /\ IsFiniteSet(Slots(A)) /\ Total(A) = n + Total(pool)
        /\ IsFiniteSet(Slots(B)) /\ Total(B) = h + n + Total(s)
        /\ IsFiniteSet(Slots(C)) /\ Total(C) = n + h + Total(s)
    BY <2>2, <2>3, <2>4 DEF A, B, C
  <2>. HIDE DEF h, s
  <2>. QED
    BY <2>1, <2>6, <2>7
<1>. QED
  BY <1>1, <1>2

\* The threads that wait for SCCalloc come and go one by one.
LEMMA CallocStep ==
    ASSUME TypeInv, NEW t \in Thread, NEW l, pc' = [pc EXCEPT ![t] = l]
    PROVE  /\ Cardinality(Callocs) \in Nat
           /\ pc[t] # "calloc" /\ l # "calloc" => Callocs' = Callocs
           /\ t \in Allocator /\ pc[t] # "calloc" /\ l = "calloc"
                => Cardinality(Callocs') = Cardinality(Callocs) + 1
           /\ t \in Allocator /\ pc[t] = "calloc" /\ l # "calloc"
                => Cardinality(Callocs') = Cardinality(Callocs) - 1
<1>1. \A u \in Allocator : u \in Thread /\ (pc'[u] = IF u = t THEN l ELSE pc[u])
  BY DEF TypeInv, TypeOK, Allocator, Thread
<1>2. IsFiniteSet(Callocs)
  <2>1. Callocs \subseteq Allocator
    BY DEF Callocs
  <2>. QED
    BY <2>1, CheckedFacts, FS_Subset
<1>3. pc[t] # "calloc" /\ l # "calloc" => Callocs' = Callocs
  BY <1>1 DEF Callocs
<1>4. t \in Allocator /\ pc[t] # "calloc" /\ l = "calloc" => Callocs' = Callocs \cup {t} /\ t \notin Callocs
  BY <1>1 DEF Callocs
<1>5. t \in Allocator /\ pc[t] = "calloc" /\ l # "calloc" => Callocs' = Callocs \ {t} /\ t \in Callocs
  BY <1>1 DEF Callocs
<1>. QED
  BY <1>2, <1>3, <1>4, <1>5, FS_AddElement, FS_RemoveElement, FS_CardinalityType

\* The figures of the accounts are numbers, and memuse is their sum.
LEMMA AccountFacts ==
    ASSUME TypeInv, AccountInv
    PROVE  /\ Total(pool) \in Nat /\ Total(built) \in Nat /\ Total(spare) \in Nat /\ Total(ret) \in Nat
           /\ Cardinality(Callocs) \in Nat
           /\ used \in Nat /\ pend \in Nat /\ block \in Nat /\ cnt = Total(pool) /\ flowCnt = Total(built)
           /\ memuse = Total(pool) + Total(spare) + Total(ret) + used + pend + block
                       + Total(built) + Cardinality(Callocs)
           /\ pool \in Seq(Nat) /\ built \in Seq(Nat)
           /\ spare \in [Worker -> Nat] /\ ret \in [Returner -> Nat]
           /\ Manager \in Thread /\ Worker \subseteq Thread /\ Returner \subseteq Thread
           /\ Manager \in Allocator /\ Worker \subseteq Allocator
<1>1. \A n \in BlockLen : n \in Nat
  BY SizesAssumption DEF BlockLen
<1>2. pool \in Seq(Nat) /\ built \in Seq(Nat) /\ ret \in [Returner -> Nat]
  BY <1>1 DEF TypeInv, TypeOK
<1>3. used \in Nat /\ pend \in Nat /\ block \in Nat /\ spare \in [Worker -> Nat]
  BY <1>1 DEF TypeInv, TypeOK
<1>4. Total(pool) \in Nat /\ Total(built) \in Nat /\ Total(spare) \in Nat /\ Total(ret) \in Nat
  BY TotalNat DEF AccountInv
<1>5. Cardinality(Callocs) \in Nat
  <2>1. Callocs \subseteq Allocator
    BY DEF Callocs
  <2>. QED
    BY <2>1, CheckedFacts, FS_Subset, FS_CardinalityType
<1>6. /\ Manager \in Thread /\ Worker \subseteq Thread /\ Returner \subseteq Thread
      /\ Manager \in Allocator /\ Worker \subseteq Allocator
  BY DEF Thread, Returner, Allocator
<1>. QED
  BY <1>2, <1>3, <1>4, <1>5, <1>6, Zenon DEF AccountInv, MemuseAccountsForFlows, Callocs

\* What the accounts sum up.
Charged == Total(pool) + Total(spare) + Total(ret) + used + pend + block
           + Total(built) + Cardinality(Callocs)

\* Its parts are numbers, and so is the sum.
LEMMA Numbers ==
    ASSUME TypeInv, AccountInv
    PROVE  /\ Total(pool) \in Nat /\ Total(spare) \in Nat /\ Total(ret) \in Nat /\ used \in Nat
           /\ pend \in Nat /\ block \in Nat /\ Total(built) \in Nat /\ Cardinality(Callocs) \in Nat
           /\ memuse = Charged /\ Charged \in Nat /\ cnt = Total(pool) /\ flowCnt = Total(built)
<1>1. /\ Total(pool) \in Nat /\ Total(spare) \in Nat /\ Total(ret) \in Nat /\ used \in Nat
      /\ pend \in Nat /\ block \in Nat /\ Total(built) \in Nat /\ Cardinality(Callocs) \in Nat
  BY AccountFacts
<1>2. memuse = Charged /\ cnt = Total(pool) /\ flowCnt = Total(built)
  BY AccountFacts DEF Charged
<1>3. Charged \in Nat
  BY <1>1 DEF Charged
<1>. QED
  BY <1>1, <1>2, <1>3

\* The accounts agree again when the figures have changed alike on both sides.
LEMMA AccountChange ==
    ASSUME IsFiniteSet(Slots(pool')), IsFiniteSet(Slots(built')),
           IsFiniteSet(Slots(spare')), IsFiniteSet(Slots(ret')),
           cnt' = Total(pool'), flowCnt' = Total(built'), memuse' = Charged'
    PROVE  AccountInv'
  BY Zenon DEF AccountInv, MemuseAccountsForFlows, Callocs, Total, Charged

\* In particular when flows moved between the lists, or memuse was charged for the rest:
\* each list changed by a number of its own, memuse by their sum.
LEMMA AccountMove ==
    ASSUME TypeInv, AccountInv,
           IsFiniteSet(Slots(pool')), IsFiniteSet(Slots(built')),
           IsFiniteSet(Slots(spare')), IsFiniteSet(Slots(ret')),
           NEW p \in Int, NEW s \in Int, NEW r \in Int, NEW u \in Int, NEW b \in Int, NEW c \in Int,
           Total(pool') = Total(pool) + p, Total(spare') = Total(spare) + s,
           Total(ret') = Total(ret) + r, used' + pend' + block' = used + pend + block + u,
           Total(built') = Total(built) + b, Cardinality(Callocs') = Cardinality(Callocs) + c,
           used' \in Nat, pend' \in Nat, block' \in Nat,
           cnt' = cnt + p, flowCnt' = flowCnt + b, memuse' = memuse + (p + s + r + u + b + c)
    PROVE  AccountInv'
<1>1. Charged' = (Total(pool) + p) + (Total(spare) + s) + (Total(ret) + r)
                 + (used + pend + block + u) + (Total(built) + b) + (Cardinality(Callocs) + c)
  <2>1. Charged' = (Total(pool) + p) + (Total(spare) + s) + (Total(ret) + r) + used' + pend' + block'
                   + (Total(built) + b) + (Cardinality(Callocs) + c)
    BY Zenon DEF Charged, Callocs, Total
  <2>. QED
    BY <2>1, Numbers
<1>2. Charged' = Charged + (p + s + r + u + b + c)
  BY <1>1, Numbers DEF Charged
<1>3. memuse' = Charged' /\ cnt' = Total(pool') /\ flowCnt' = Total(built')
  BY <1>2, Numbers, Zenon
<1>. QED
  BY <1>3, AccountChange, Zenon

\* FlowSpareGetFromPool hands out a block the pool has.
LEMMA TakenIn == ASSUME NEW S, pool \in Seq(S), pool # <<>> PROVE TakenBlock \in 1..Len(pool)
<1>1. Len(pool) \in Nat \ {0}
  OBVIOUS
<1>2. TakenBlock = 1 \/ (TakenBlock = 2 /\ Len(pool) # 1)
  BY DEF TakenBlock
<1>3. ASSUME NEW n \in Nat \ {0} PROVE 1 \in 1..n /\ (n # 1 => 2 \in 1..n)
  OBVIOUS
<1>. QED
  BY <1>1, <1>2, <1>3, Zenon

\* The figures, ...
LEMMA AccountNats ==
    ASSUME TypeInv, AccountInv
    PROVE  /\ Total(pool) \in Nat /\ Total(spare) \in Nat /\ Total(ret) \in Nat /\ used \in Nat
           /\ pend \in Nat /\ block \in Nat /\ Total(built) \in Nat /\ Cardinality(Callocs) \in Nat
           /\ memuse \in Nat /\ cnt \in Nat /\ flowCnt \in Nat
BY Numbers

\* ... what they are of, ...
LEMMA AccountTypes ==
    ASSUME TypeInv, AccountInv
    PROVE  /\ pool \in Seq(Nat) /\ IsFiniteSet(Slots(pool)) /\ built \in Seq(Nat) /\ IsFiniteSet(Slots(built))
           /\ spare \in [Worker -> Nat] /\ IsFiniteSet(Slots(spare))
           /\ ret \in [Returner -> Nat] /\ IsFiniteSet(Slots(ret))
           /\ Manager \in Thread /\ Worker \subseteq Thread /\ Returner \subseteq Thread
           /\ Manager \in Allocator /\ Worker \subseteq Allocator
BY AccountFacts, Zenon DEF AccountInv

\* ... and how a step leaves them, ...
LEMMA SamePool ==
    ASSUME TypeInv, QuietInv, AccountInv, UNCHANGED pool
    PROVE  Total(pool') = Total(pool) + 0 /\ IsFiniteSet(Slots(pool'))
BY AccountNats, AccountTypes

LEMMA SameSpare ==
    ASSUME TypeInv, QuietInv, AccountInv, UNCHANGED spare
    PROVE  Total(spare') = Total(spare) + 0 /\ IsFiniteSet(Slots(spare'))
BY AccountNats, AccountTypes

LEMMA SameRet ==
    ASSUME TypeInv, QuietInv, AccountInv, UNCHANGED ret
    PROVE  Total(ret') = Total(ret) + 0 /\ IsFiniteSet(Slots(ret'))
BY AccountNats, AccountTypes

LEMMA SameBuilt ==
    ASSUME TypeInv, QuietInv, AccountInv, UNCHANGED built
    PROVE  Total(built') = Total(built) + 0 /\ IsFiniteSet(Slots(built'))
BY AccountNats, AccountTypes

LEMMA SameCallocs ==
    ASSUME TypeInv, QuietInv, AccountInv, UNCHANGED pc
    PROVE  Cardinality(Callocs') = Cardinality(Callocs) + 0
BY AccountNats DEF Callocs

LEMMA QuietCallocs ==
    ASSUME TypeInv, QuietInv, AccountInv, NEW t \in Thread, NEW l, pc' = [pc EXCEPT ![t] = l], pc[t] # "calloc", l # "calloc"
    PROVE  Cardinality(Callocs') = Cardinality(Callocs) + 0
<1>1. Callocs' = Callocs
  BY CallocStep, Zenon
<1>. QED
  BY AccountNats, <1>1

LEMMA SmallInts == 0 \in Int /\ 1 \in Int /\ -1 \in Int
OBVIOUS

LEMMA SameUse ==
    ASSUME TypeInv, QuietInv, AccountInv, UNCHANGED <<used, pend, block>>
    PROVE  used' + pend' + block' = used + pend + block + 0 /\ used' \in Nat /\ pend' \in Nat /\ block' \in Nat
BY AccountNats

LEMMA AccountShutdown ==
    ASSUME TypeInv, QuietInv, AccountInv, Shutdown \/ Restart \/ FlowSetMemcapCheck \/ FlowSetMemcapSet \/ UNCHANGED vars
    PROVE  AccountInv'
<1>1. UNCHANGED <<pool, cnt, memuse, used, spare, ret, pc, pend, block, flowCnt, built>>
  BY Zenon DEF Shutdown, Restart, FlowSetMemcapCheck, FlowSetMemcapSet, vars, upd
<1>2. cnt' = cnt + 0 /\ flowCnt' = flowCnt + 0 /\ memuse' = memuse + (0 + 0 + 0 + 0 + 0 + 0)
  BY AccountNats, <1>1
<1>. QED
  BY SmallInts, SamePool, SameSpare, SameRet, SameUse, SameBuilt, SameCallocs, <1>1, <1>2, AccountMove

LEMMA AccountFlowSparePoolUpdate ==
    ASSUME TypeInv, QuietInv, AccountInv, FlowSparePoolUpdate \/ ShrinkDone
    PROVE  AccountInv'
<1>1. /\ UNCHANGED <<pool, spare, ret, used, pend, block, flowCnt, built, cnt, memuse>>
      /\ pc[Manager] # "calloc" /\ \E l : l # "calloc" /\ pc' = [pc EXCEPT ![Manager] = l]
  BY Zenon DEF FlowSparePoolUpdate, ShrinkDone
<1>2. Cardinality(Callocs') = Cardinality(Callocs) + 0
  BY AccountTypes, QuietCallocs, <1>1, Zenon
<1>3. cnt' = cnt + 0 /\ flowCnt' = flowCnt + 0 /\ memuse' = memuse + (0 + 0 + 0 + 0 + 0 + 0)
  BY AccountNats, <1>1
<1>. QED
  BY SmallInts, SamePool, SameSpare, SameRet, SameUse, SameBuilt, <1>1, <1>2, <1>3, AccountMove

\* ... or changes them: a block taken from the pool, ...
LEMMA TailPool ==
    ASSUME TypeInv, QuietInv, AccountInv, pool # <<>>, pool' = Tail(pool)
    PROVE  /\ Head(pool) \in Nat /\ -Head(pool) \in Int /\ IsFiniteSet(Slots(pool'))
           /\ Total(pool') = Total(pool) + (-Head(pool))
<1>1. /\ Head(pool) \in Nat /\ IsFiniteSet(Slots(Tail(pool)))
      /\ Total(pool) = Head(pool) + Total(Tail(pool))
  BY AccountTypes, TailTotal
<1>2. Total(Tail(pool)) \in Nat
  BY <1>1, TotalNat
<1>3. Total(pool') = Total(Tail(pool)) /\ IsFiniteSet(Slots(pool'))
  BY <1>1
<1>. DEFINE h == Head(pool)
<1>4. h \in Nat /\ Total(pool) = h + Total(Tail(pool))
  BY <1>1
<1>. HIDE DEF h
<1>5. -h \in Int /\ Total(pool') = Total(pool) + (-h)
  BY <1>2, <1>3, <1>4
<1>. QED
  BY <1>3, <1>4, <1>5 DEF h

LEMMA AccountShrinkTakeBlock ==
    ASSUME TypeInv, QuietInv, AccountInv, ShrinkTakeBlock
    PROVE  AccountInv'
<1>1. /\ UNCHANGED <<spare, ret, used, block, flowCnt, built, memuse>> /\ pool # <<>>
      /\ pool' = Tail(pool) /\ cnt' = cnt - Head(pool) /\ pend' = Head(pool)
      /\ pc[Manager] = "shrink" /\ pc' = [pc EXCEPT ![Manager] = "free"]
  BY DEF ShrinkTakeBlock
<1>2. Cardinality(Callocs') = Cardinality(Callocs) + 0
  BY AccountTypes, QuietCallocs, <1>1, Zenon
<1>. DEFINE h == Head(pool)
<1>3. h \in Nat /\ -h \in Int /\ IsFiniteSet(Slots(pool')) /\ Total(pool') = Total(pool) + (-h)
  BY TailPool, <1>1
<1>4. pend = 0 /\ pend' = h /\ cnt' = cnt - h
  BY <1>1 DEF QuietInv
<1>. HIDE DEF h
<1>5. /\ cnt' = cnt + (-h) /\ flowCnt' = flowCnt + 0 /\ memuse' = memuse + ((-h) + 0 + 0 + h + 0 + 0)
      /\ used' + pend' + block' = used + pend + block + h /\ used' \in Nat /\ pend' \in Nat /\ block' \in Nat
      /\ h \in Int
  <2>1. used \in Nat /\ pend \in Nat /\ block \in Nat /\ memuse \in Nat /\ cnt \in Nat /\ flowCnt \in Nat
    BY AccountNats, Zenon
  <2>. QED
    BY <1>1, <1>3, <1>4, <2>1
<1>. QED
  BY SmallInts, SameSpare, SameRet, SameBuilt, <1>1, <1>2, <1>3, <1>5, AccountMove

LEMMA AccountFlowSparePoolDestroy ==
    ASSUME TypeInv, QuietInv, AccountInv, FlowSparePoolDestroy
    PROVE  AccountInv'
<1>. DEFINE h == Head(pool)
<1>1. /\ UNCHANGED <<spare, ret, used, pend, block, flowCnt, built, pc>> /\ pool # <<>>
      /\ pool' = Tail(pool) /\ cnt' = cnt - h /\ memuse' = memuse - h
  BY DEF FlowSparePoolDestroy, upd
<1>2. h \in Nat /\ -h \in Int /\ IsFiniteSet(Slots(pool')) /\ Total(pool') = Total(pool) + (-h)
  BY TailPool, <1>1
<1>. HIDE DEF h
<1>3. cnt' = cnt + (-h) /\ flowCnt' = flowCnt + 0 /\ memuse' = memuse + ((-h) + 0 + 0 + 0 + 0 + 0)
  <2>1. memuse \in Nat /\ cnt \in Nat /\ flowCnt \in Nat
    BY AccountNats, Zenon
  <2>. QED
    BY <1>1, <1>2, <2>1
<1>. QED
  BY SmallInts, SameSpare, SameRet, SameUse, SameBuilt, SameCallocs, <1>1, <1>2, <1>3, AccountMove

LEMMA AccountFlowSparePoolInit ==
    ASSUME TypeInv, QuietInv, AccountInv, FlowSparePoolInit
    PROVE  AccountInv'
<1>. DEFINE n == MinOf(BlockSize, MaxOf(memcap - memuse, 0))
<1>1. n \in Nat /\ n \in Int
  <2>1. BlockSize \in Nat /\ memcap \in Nat /\ memuse \in Int
    BY SizesAssumption DEF TypeInv, TypeOK
  <2>. QED
    BY <2>1 DEF MinOf, MaxOf
<1>2. UNCHANGED <<spare, ret, used, pend, block, flowCnt, built, pc>>
  BY DEF FlowSparePoolInit, upd
<1>3. CASE cnt < Prealloc
  <2>1. pool' = <<n>> \o pool /\ cnt' = cnt + n /\ memuse' = memuse + n
    BY <1>3 DEF FlowSparePoolInit
  <2>. HIDE DEF n
  <2>2. IsFiniteSet(Slots(<<n>> \o pool)) /\ Total(<<n>> \o pool) = n + Total(pool)
    BY AccountTypes, <1>1, ConsTotal
  <2>3. Total(pool') = Total(pool) + n /\ IsFiniteSet(Slots(pool'))
    BY AccountNats, <1>1, <2>1, <2>2
  <2>4. flowCnt' = flowCnt + 0 /\ memuse' = memuse + (n + 0 + 0 + 0 + 0 + 0)
    BY AccountNats, <1>1, <1>2, <2>1
  <2>. QED
    BY SmallInts, SameSpare, SameRet, SameUse, SameBuilt, SameCallocs, <1>1, <1>2, <2>1, <2>3, <2>4, AccountMove, Zenon
<1>4. CASE ~(cnt < Prealloc)
  <2>1. UNCHANGED <<pool, cnt, memuse>>
    BY <1>4 DEF FlowSparePoolInit
  <2>2. cnt' = cnt + 0 /\ flowCnt' = flowCnt + 0 /\ memuse' = memuse + (0 + 0 + 0 + 0 + 0 + 0)
    BY AccountNats, <1>2, <2>1
  <2>. QED
    BY SmallInts, SamePool, SameSpare, SameRet, SameUse, SameBuilt, SameCallocs, <1>2, <2>1, <2>2, AccountMove
<1>. QED
  BY <1>3, <1>4

LEMMA AccountShrinkFreeFlow ==
    ASSUME TypeInv, QuietInv, AccountInv, ShrinkFreeFlow
    PROVE  AccountInv'
<1>1. UNCHANGED <<pool, spare, ret, used, block, flowCnt, built, cnt>> /\ pc[Manager] = "free"
  BY DEF ShrinkFreeFlow
<1>2. CASE pend > 0
  <2>1. memuse' = memuse - 1 /\ pend' = pend - 1 /\ UNCHANGED pc
    BY <1>2 DEF ShrinkFreeFlow
  <2>2. /\ cnt' = cnt + 0 /\ flowCnt' = flowCnt + 0 /\ memuse' = memuse + (0 + 0 + 0 + (-1) + 0 + 0)
        /\ used' + pend' + block' = used + pend + block + (-1)
        /\ used' \in Nat /\ pend' \in Nat /\ block' \in Nat
    BY AccountNats, <1>1, <1>2, <2>1
  <2>. QED
    BY SmallInts, SamePool, SameSpare, SameRet, SameBuilt, SameCallocs, <1>1, <2>1, <2>2, AccountMove
<1>3. CASE ~(pend > 0)
  <2>1. pc' = [pc EXCEPT ![Manager] = "shrink"] /\ UNCHANGED <<memuse, pend>>
    BY <1>3 DEF ShrinkFreeFlow
  <2>2. Cardinality(Callocs') = Cardinality(Callocs) + 0
    BY AccountTypes, QuietCallocs, <1>1, <2>1, Zenon
  <2>3. cnt' = cnt + 0 /\ flowCnt' = flowCnt + 0 /\ memuse' = memuse + (0 + 0 + 0 + 0 + 0 + 0)
    BY AccountNats, <1>1, <2>1
  <2>. QED
    BY SmallInts, SamePool, SameSpare, SameRet, SameUse, SameBuilt, <1>1, <2>1, <2>2, <2>3, AccountMove
<1>. QED
  BY <1>2, <1>3

\* ... a flow about to be allocated, ...
LEMMA CallocUp ==
    ASSUME TypeInv, QuietInv, AccountInv, NEW t \in Allocator, pc[t] = "checked", pc' = [pc EXCEPT ![t] = "calloc"]
    PROVE  Cardinality(Callocs') = Cardinality(Callocs) + 1
<1>1. t \in Thread
  BY DEF Allocator, Thread
<1>. QED
  BY <1>1, CallocStep, Zenon

LEMMA CallocDown ==
    ASSUME TypeInv, QuietInv, AccountInv, NEW t \in Allocator, pc[t] = "calloc", NEW l, l # "calloc", pc' = [pc EXCEPT ![t] = l]
    PROVE  Cardinality(Callocs') = Cardinality(Callocs) + (-1)
<1>1. t \in Thread
  BY DEF Allocator, Thread
<1>2. Cardinality(Callocs') = Cardinality(Callocs) - 1
  BY <1>1, CallocStep, Zenon
<1>. QED
  BY AccountNats, <1>2

LEMMA AccountFlowAllocAdd ==
    ASSUME TypeInv, QuietInv, AccountInv, NEW t \in Allocator, FlowAllocAdd(t)
    PROVE  AccountInv'
<1>1. /\ UNCHANGED <<pool, cnt, used, spare, ret, pend, block, flowCnt, built>> /\ memuse' = memuse + 1
      /\ pc[t] = "checked" /\ pc' = [pc EXCEPT ![t] = "calloc"]
  BY DEF FlowAllocAdd, upd
<1>2. cnt' = cnt + 0 /\ flowCnt' = flowCnt + 0 /\ memuse' = memuse + (0 + 0 + 0 + 0 + 0 + 1)
  BY AccountNats, <1>1
<1>. QED
  BY SmallInts, SamePool, SameSpare, SameRet, SameUse, SameBuilt, CallocUp, <1>1, <1>2, AccountMove, Zenon

\* ... a block of FlowSparePoolUpdate, ...
LEMMA LinkTotal ==
    ASSUME TypeInv, QuietInv, AccountInv, NEW left, LinkBlock(left)
    PROVE  /\ IsFiniteSet(Slots(built')) /\ Total(built') = Total(built) + block
           /\ flowCnt' = flowCnt + block /\ block' = 0
<1>1. flowCnt' = flowCnt + block /\ block' = 0
  BY DEF LinkBlock
<1>2. CASE block = 0
  <2>1. UNCHANGED built
    BY <1>2 DEF LinkBlock
  <2>. QED
    BY SameBuilt, <1>1, <1>2, <2>1
<1>3. CASE block # 0
  <2>1. built' = <<block>> \o built
    BY <1>3 DEF LinkBlock
  <2>2. IsFiniteSet(Slots(<<block>> \o built)) /\ Total(<<block>> \o built) = block + Total(built)
    BY AccountNats, AccountTypes, ConsTotal, Zenon
  <2>. QED
    BY AccountNats, <1>1, <2>1, <2>2
<1>. QED
  BY <1>2, <1>3

LEMMA LinkUse ==
    ASSUME TypeInv, QuietInv, AccountInv, NEW left, LinkBlock(left), UNCHANGED <<used, pend>>
    PROVE  /\ used' + pend' + block' = used + pend + block + (-block) /\ block \in Int /\ -block \in Int
           /\ used' \in Nat /\ pend' \in Nat /\ block' \in Nat
BY AccountNats, LinkTotal

LEMMA AccountGrowAllocCheck ==
    ASSUME TypeInv, QuietInv, AccountInv, GrowAllocCheck \/ GrowNextBlock
    PROVE  AccountInv'
<1>1. UNCHANGED <<pool, cnt, memuse, used, spare, ret, pend>> /\ pc[Manager] = "grow"
  BY Zenon DEF GrowAllocCheck, GrowNextBlock
<1>2. CASE UNCHANGED <<block, flowCnt, built>> /\ pc' = [pc EXCEPT ![Manager] = "checked"]
  <2>1. Cardinality(Callocs') = Cardinality(Callocs) + 0
    BY AccountTypes, QuietCallocs, <1>1, <1>2, Zenon
  <2>2. cnt' = cnt + 0 /\ flowCnt' = flowCnt + 0 /\ memuse' = memuse + (0 + 0 + 0 + 0 + 0 + 0)
    BY AccountNats, <1>1, <1>2
  <2>. QED
    BY SmallInts, SamePool, SameSpare, SameRet, SameUse, SameBuilt, <1>1, <1>2, <2>1, <2>2, AccountMove
<1>3. ASSUME NEW left, LinkBlock(left), UNCHANGED pc PROVE AccountInv'
  <2>1. cnt' = cnt + 0 /\ memuse' = memuse + (0 + 0 + 0 + (-block) + block + 0)
    BY AccountNats, <1>1
  <2>2. /\ IsFiniteSet(Slots(built')) /\ Total(built') = Total(built) + block
        /\ flowCnt' = flowCnt + block /\ block \in Int /\ -block \in Int
        /\ used' + pend' + block' = used + pend + block + (-block)
        /\ used' \in Nat /\ pend' \in Nat /\ block' \in Nat
    BY LinkTotal, LinkUse, <1>1, <1>3, Zenon
  <2>3. /\ Total(pool') = Total(pool) + 0 /\ IsFiniteSet(Slots(pool'))
        /\ Total(spare') = Total(spare) + 0 /\ IsFiniteSet(Slots(spare'))
        /\ Total(ret') = Total(ret) + 0 /\ IsFiniteSet(Slots(ret'))
        /\ Cardinality(Callocs') = Cardinality(Callocs) + 0
    BY SamePool, SameSpare, SameRet, SameCallocs, <1>1, <1>3, Zenon
  <2>. QED
    BY SmallInts, <2>1, <2>2, <2>3, AccountMove, Zenon
<1>. QED
  BY <1>2, <1>3, Zenon DEF GrowAllocCheck, GrowNextBlock

LEMMA AccountGrowAllocDone ==
    ASSUME TypeInv, QuietInv, AccountInv, GrowAllocDone
    PROVE  AccountInv'
<1>1. /\ UNCHANGED <<pool, cnt, used, spare, ret, pend>>
      /\ pc[Manager] = "calloc" /\ pc' = [pc EXCEPT ![Manager] = "grow"]
  BY DEF GrowAllocDone
<1>2. Cardinality(Callocs') = Cardinality(Callocs) + (-1)
  BY AccountTypes, CallocDown, <1>1, Zenon
<1>3. CASE block' = block + 1 /\ UNCHANGED <<memuse, flowCnt, built>>
  <2>1. /\ cnt' = cnt + 0 /\ flowCnt' = flowCnt + 0 /\ memuse' = memuse + (0 + 0 + 0 + 1 + 0 + (-1))
        /\ used' + pend' + block' = used + pend + block + 1
        /\ used' \in Nat /\ pend' \in Nat /\ block' \in Nat
    BY AccountNats, <1>1, <1>3
  <2>. QED
    BY SmallInts, SamePool, SameSpare, SameRet, SameBuilt, <1>1, <1>2, <1>3, <2>1, AccountMove
<1>4. CASE memuse' = memuse - 1 /\ LinkBlock(0)
  <2>1. cnt' = cnt + 0 /\ memuse' = memuse + (0 + 0 + 0 + (-block) + block + (-1))
    BY AccountNats, <1>1, <1>4
  <2>2. /\ IsFiniteSet(Slots(built')) /\ Total(built') = Total(built) + block
        /\ flowCnt' = flowCnt + block /\ block \in Int /\ -block \in Int
        /\ used' + pend' + block' = used + pend + block + (-block)
        /\ used' \in Nat /\ pend' \in Nat /\ block' \in Nat
    BY LinkTotal, LinkUse, <1>1, <1>4, Zenon
  <2>3. /\ Total(pool') = Total(pool) + 0 /\ IsFiniteSet(Slots(pool'))
        /\ Total(spare') = Total(spare) + 0 /\ IsFiniteSet(Slots(spare'))
        /\ Total(ret') = Total(ret) + 0 /\ IsFiniteSet(Slots(ret'))
    BY SamePool, SameSpare, SameRet, <1>1
  <2>. QED
    BY SmallInts, <1>2, <2>1, <2>2, <2>3, AccountMove, Zenon
<1>. QED
  BY <1>3, <1>4 DEF GrowAllocDone

LEMMA AccountGrowInsert ==
    ASSUME TypeInv, QuietInv, AccountInv, GrowInsert
    PROVE  AccountInv'
<1>. DEFINE n == Total(built)
<1>1. /\ UNCHANGED <<memuse, used, spare, ret, pend, block>> /\ pc[Manager] = "grow"
      /\ pc' = [pc EXCEPT ![Manager] = "idle"] /\ flowCnt' = 0 /\ built' = <<>> /\ cnt' = cnt + flowCnt
      /\ pool' = IF pool = <<>> THEN built ELSE <<Head(pool)>> \o built \o Tail(pool)
  BY DEF GrowInsert
<1>2. Cardinality(Callocs') = Cardinality(Callocs) + 0
  BY AccountTypes, QuietCallocs, <1>1, Zenon
<1>3. Slots(<<>>) = {} /\ Total(<<>>) = 0 /\ IsFiniteSet(Slots(<<>>))
  <2>1. Slots(<<>>) = {}
    BY DEF Slots
  <2>. QED
    BY <2>1, FS_EmptySet DEF Total
<1>4. IsFiniteSet(Slots(pool')) /\ Total(pool') = Total(pool) + n
  <2>1. CASE pool = <<>>
    <3>1. Total(pool) = 0 /\ Total(pool') = n /\ IsFiniteSet(Slots(pool'))
      BY AccountTypes, <1>1, <1>3, <2>1
    <3>. QED
      BY AccountNats, <3>1
  <2>2. CASE pool # <<>>
    <3>. DEFINE h == Head(pool)
                t == Tail(pool)
    <3>1. /\ h \in Nat /\ t \in Seq(Nat) /\ IsFiniteSet(Slots(t)) /\ Total(pool) = h + Total(t)
          /\ Total(t) \in Nat
      BY AccountTypes, <2>2, TailTotal, TotalNat
    <3>2. <<h>> \in Seq(Nat) /\ <<h>> \o built \in Seq(Nat) /\ pool' = (<<h>> \o built) \o t
      <4>1. built \in Seq(Nat)
        BY AccountTypes, Zenon
      <4>2. <<h>> \in Seq(Nat)
        BY <3>1
      <4>3. pool' = (<<h>> \o built) \o t
        BY <1>1, <2>2, Zenon
      <4>. QED
        BY <4>1, <4>2, <4>3
    <3>. HIDE DEF h, t
    <3>3. IsFiniteSet(Slots(<<h>> \o built)) /\ Total(<<h>> \o built) = h + n
      BY AccountTypes, <3>1, ConsTotal, Zenon
    <3>. DEFINE q == <<h>> \o built
    <3>4. q \in Seq(Nat) /\ IsFiniteSet(Slots(q)) /\ Total(q) = h + n /\ pool' = q \o t
      BY <3>2, <3>3
    <3>. HIDE DEF q
    <3>5. IsFiniteSet(Slots(q \o t)) /\ Total(q \o t) = Total(q) + Total(t)
      BY <3>1, <3>4, TotalConcat
    <3>. QED
      BY AccountNats, <3>1, <3>4, <3>5
  <2>. QED
    BY <2>1, <2>2
<1>5. n \in Nat /\ n \in Int /\ -n \in Int /\ flowCnt = n
  BY AccountNats DEF AccountInv
<1>6. IsFiniteSet(Slots(built')) /\ Total(built') = Total(built) + (-n)
  BY AccountNats, <1>1, <1>3
<1>. HIDE DEF n
<1>7. cnt' = cnt + n /\ flowCnt' = flowCnt + (-n) /\ memuse' = memuse + (n + 0 + 0 + 0 + (-n) + 0)
  BY AccountNats, <1>1, <1>5
<1>8. /\ Total(spare') = Total(spare) + 0 /\ IsFiniteSet(Slots(spare'))
      /\ Total(ret') = Total(ret) + 0 /\ IsFiniteSet(Slots(ret'))
      /\ used' + pend' + block' = used + pend + block + 0
      /\ used' \in Nat /\ pend' \in Nat /\ block' \in Nat
  BY SameSpare, SameRet, SameUse, <1>1, Zenon
<1>. QED
  BY SmallInts, <1>2, <1>4, <1>5, <1>6, <1>7, <1>8, AccountMove

\* ... the flows of a worker and those on the way back.
LEMMA SpareChange ==
    ASSUME TypeInv, QuietInv, AccountInv, NEW w \in Worker, NEW n \in Nat, spare' = [spare EXCEPT ![w] = n]
    PROVE  /\ IsFiniteSet(Slots(spare')) /\ spare[w] \in Nat /\ n - spare[w] \in Int
           /\ Total(spare') = Total(spare) + (n - spare[w])
<1>1. IsFiniteSet(Slots(spare')) /\ Total(spare') = Total(spare) - spare[w] + n
  BY AccountTypes, TotalExcept, Zenon
<1>. QED
  BY AccountNats, AccountTypes, <1>1

LEMMA RetChange ==
    ASSUME TypeInv, QuietInv, AccountInv, NEW t \in Returner, NEW n \in Nat, ret' = [ret EXCEPT ![t] = n]
    PROVE  /\ IsFiniteSet(Slots(ret')) /\ ret[t] \in Nat /\ n - ret[t] \in Int
           /\ Total(ret') = Total(ret) + (n - ret[t])
<1>1. IsFiniteSet(Slots(ret')) /\ Total(ret') = Total(ret) - ret[t] + n
  BY AccountTypes, TotalExcept, Zenon
<1>. QED
  BY AccountNats, AccountTypes, <1>1

LEMMA AccountGetFromSpareQueue ==
    ASSUME TypeInv, QuietInv, AccountInv, NEW w \in Worker, GetFromSpareQueue(w)
    PROVE  AccountInv'
<1>1. /\ UNCHANGED <<pool, cnt, memuse, ret, pc, pend, block, flowCnt, built>>
      /\ used' = used + 1 /\ spare[w] > 0 /\ spare' = [spare EXCEPT ![w] = spare[w] - 1]
  BY DEF GetFromSpareQueue, upd
<1>2. spare[w] - 1 \in Nat
  BY AccountTypes, <1>1
<1>3. /\ IsFiniteSet(Slots(spare')) /\ spare[w] \in Nat
      /\ Total(spare') = Total(spare) + ((spare[w] - 1) - spare[w])
  BY SpareChange, <1>1, <1>2, Zenon
<1>4. Total(spare') = Total(spare) + (-1)
  BY AccountNats, <1>3
<1>5. /\ cnt' = cnt + 0 /\ flowCnt' = flowCnt + 0 /\ memuse' = memuse + (0 + (-1) + 0 + 1 + 0 + 0)
      /\ used' + pend' + block' = used + pend + block + 1
      /\ used' \in Nat /\ pend' \in Nat /\ block' \in Nat
  BY AccountNats, <1>1
<1>6. /\ Total(pool') = Total(pool) + 0 /\ IsFiniteSet(Slots(pool'))
      /\ Total(ret') = Total(ret) + 0 /\ IsFiniteSet(Slots(ret'))
      /\ Total(built') = Total(built) + 0 /\ IsFiniteSet(Slots(built'))
      /\ Cardinality(Callocs') = Cardinality(Callocs) + 0
  BY SamePool, SameRet, SameBuilt, SameCallocs, <1>1, Zenon
<1>. QED
  BY SmallInts, <1>3, <1>4, <1>5, <1>6, AccountMove, Zenon

LEMMA AccountWorkerAllocCheck ==
    ASSUME TypeInv, QuietInv, AccountInv, NEW w \in Worker, WorkerAllocCheck(w)
    PROVE  AccountInv'
<1>1. /\ UNCHANGED <<pool, cnt, memuse, used, spare, ret, pend, block, flowCnt, built>> /\ w \in Thread
      /\ pc[w] = "nospare" /\ \E l : l # "calloc" /\ pc' = [pc EXCEPT ![w] = l]
  BY AccountTypes, Zenon DEF WorkerAllocCheck, upd
<1>2. Cardinality(Callocs') = Cardinality(Callocs) + 0
  BY QuietCallocs, <1>1, Zenon
<1>3. cnt' = cnt + 0 /\ flowCnt' = flowCnt + 0 /\ memuse' = memuse + (0 + 0 + 0 + 0 + 0 + 0)
  BY AccountNats, <1>1
<1>. QED
  BY SmallInts, SamePool, SameSpare, SameRet, SameUse, SameBuilt, <1>1, <1>2, <1>3, AccountMove

LEMMA AccountFlowSpareSyncNotYet ==
    ASSUME TypeInv, QuietInv, AccountInv, NEW w \in Worker, FlowSpareSyncNotYet(w)
    PROVE  AccountInv'
<1>1. /\ UNCHANGED <<pool, cnt, memuse, used, spare, ret, pend, block, flowCnt, built>> /\ w \in Thread
      /\ pc[w] = "idle" /\ \E l : l # "calloc" /\ pc' = [pc EXCEPT ![w] = l]
  BY AccountTypes, Zenon DEF FlowSpareSyncNotYet, upd
<1>2. Cardinality(Callocs') = Cardinality(Callocs) + 0
  BY QuietCallocs, <1>1, Zenon
<1>3. cnt' = cnt + 0 /\ flowCnt' = flowCnt + 0 /\ memuse' = memuse + (0 + 0 + 0 + 0 + 0 + 0)
  BY AccountNats, <1>1
<1>. QED
  BY SmallInts, SamePool, SameSpare, SameRet, SameUse, SameBuilt, <1>1, <1>2, <1>3, AccountMove

LEMMA AccountWorkerAllocDone ==
    ASSUME TypeInv, QuietInv, AccountInv, NEW w \in Worker, WorkerAllocDone(w)
    PROVE  AccountInv'
<1>1. /\ UNCHANGED <<pool, cnt, spare, ret, pend, block, flowCnt, built>> /\ w \in Allocator
      /\ pc[w] = "calloc" /\ pc' = [pc EXCEPT ![w] = "idle"]
  BY AccountTypes, Zenon DEF WorkerAllocDone, upd
<1>2. Cardinality(Callocs') = Cardinality(Callocs) + (-1)
  BY CallocDown, <1>1, Zenon
<1>3. cnt' = cnt + 0 /\ flowCnt' = flowCnt + 0
  BY AccountNats, <1>1
<1>4. /\ Total(pool') = Total(pool) + 0 /\ IsFiniteSet(Slots(pool'))
      /\ Total(spare') = Total(spare) + 0 /\ IsFiniteSet(Slots(spare'))
      /\ Total(ret') = Total(ret) + 0 /\ IsFiniteSet(Slots(ret'))
      /\ Total(built') = Total(built) + 0 /\ IsFiniteSet(Slots(built'))
  BY SamePool, SameSpare, SameRet, SameBuilt, <1>1, Zenon
<1>5. CASE used' = used + 1 /\ UNCHANGED memuse
  <2>1. /\ memuse' = memuse + (0 + 0 + 0 + 1 + 0 + (-1))
        /\ used' + pend' + block' = used + pend + block + 1
        /\ used' \in Nat /\ pend' \in Nat /\ block' \in Nat
    BY AccountNats, <1>1, <1>5
  <2>. QED
    BY SmallInts, <1>2, <1>3, <1>4, <2>1, AccountMove, Zenon
<1>6. CASE memuse' = memuse - 1 /\ UNCHANGED used
  <2>1. /\ memuse' = memuse + (0 + 0 + 0 + 0 + 0 + (-1))
        /\ used' + pend' + block' = used + pend + block + 0
        /\ used' \in Nat /\ pend' \in Nat /\ block' \in Nat
    BY AccountNats, <1>1, <1>6
  <2>. QED
    BY SmallInts, <1>2, <1>3, <1>4, <2>1, AccountMove, Zenon
<1>. QED
  BY <1>5, <1>6 DEF WorkerAllocDone

LEMMA AccountFlowWorkerThreadDeinit ==
    ASSUME TypeInv, QuietInv, AccountInv, NEW w \in Worker, FlowWorkerThreadDeinit(w)
    PROVE  AccountInv'
<1>1. /\ UNCHANGED <<pool, cnt, used, ret, pc, pend, block, flowCnt, built>>
      /\ memuse' = memuse - spare[w] /\ spare' = [spare EXCEPT ![w] = 0]
  BY DEF FlowWorkerThreadDeinit, upd
<1>2. /\ IsFiniteSet(Slots(spare')) /\ spare[w] \in Nat /\ 0 - spare[w] \in Int
      /\ Total(spare') = Total(spare) + (0 - spare[w])
  BY SpareChange, <1>1, Zenon
<1>3. cnt' = cnt + 0 /\ flowCnt' = flowCnt + 0 /\ memuse' = memuse + (0 + (0 - spare[w]) + 0 + 0 + 0 + 0)
  BY AccountNats, <1>1, <1>2
<1>4. /\ Total(pool') = Total(pool) + 0 /\ IsFiniteSet(Slots(pool'))
      /\ Total(ret') = Total(ret) + 0 /\ IsFiniteSet(Slots(ret'))
      /\ Total(built') = Total(built) + 0 /\ IsFiniteSet(Slots(built'))
      /\ Cardinality(Callocs') = Cardinality(Callocs) + 0
      /\ used' + pend' + block' = used + pend + block + 0
      /\ used' \in Nat /\ pend' \in Nat /\ block' \in Nat
  BY SamePool, SameRet, SameBuilt, SameCallocs, SameUse, <1>1, Zenon
<1>. QED
  BY SmallInts, <1>2, <1>3, <1>4, AccountMove, Zenon

LEMMA AccountFlowSpareSync ==
    ASSUME TypeInv, QuietInv, AccountInv, NEW w \in Worker, FlowSpareSync(w)
    PROVE  AccountInv'
<1>1. /\ UNCHANGED <<memuse, ret, pend, block, flowCnt, built>> /\ w \in Thread
      /\ pc[w] = "idle" /\ spare[w] = 0
  BY AccountTypes, Zenon DEF FlowSpareSync, upd
<1>2. /\ Total(ret') = Total(ret) + 0 /\ IsFiniteSet(Slots(ret'))
      /\ Total(built') = Total(built) + 0 /\ IsFiniteSet(Slots(built'))
  BY SameRet, SameBuilt, <1>1
<1>3. UNCHANGED pc \/ pc' = [pc EXCEPT ![w] = "nospare"]
  BY DEF FlowSpareSync
<1>4. Cardinality(Callocs') = Cardinality(Callocs) + 0
  BY SameCallocs, QuietCallocs, <1>1, <1>3
<1>5. CASE pool = <<>> \/ cnt = 0
  <2>1. UNCHANGED <<pool, cnt, spare, used>>
    BY <1>5 DEF FlowSpareSync
  <2>2. cnt' = cnt + 0 /\ flowCnt' = flowCnt + 0 /\ memuse' = memuse + (0 + 0 + 0 + 0 + 0 + 0)
    BY AccountNats, <1>1, <2>1
  <2>3. /\ Total(pool') = Total(pool) + 0 /\ IsFiniteSet(Slots(pool'))
        /\ Total(spare') = Total(spare) + 0 /\ IsFiniteSet(Slots(spare'))
        /\ used' + pend' + block' = used + pend + block + 0
        /\ used' \in Nat /\ pend' \in Nat /\ block' \in Nat
    BY SamePool, SameSpare, SameUse, <1>1, <2>1, Zenon
  <2>. QED
    BY SmallInts, <1>2, <1>4, <2>2, <2>3, AccountMove, Zenon
<1>6. CASE ~(pool = <<>> \/ cnt = 0)
  <2>. DEFINE n == pool[TakenBlock]
  <2>1. pool' = Without(pool, TakenBlock) /\ cnt' = cnt - n
    BY <1>6 DEF FlowSpareSync
  <2>2. TakenBlock \in 1..Len(pool)
    BY AccountTypes, <1>6, TakenIn
  <2>3. /\ IsFiniteSet(Slots(Without(pool, TakenBlock))) /\ n \in Nat
        /\ Total(Without(pool, TakenBlock)) = Total(pool) - n
    BY AccountTypes, <2>2, RemoveTotal
  <2>4. n = 0 => UNCHANGED <<spare, used>>
    BY <1>6 DEF FlowSpareSync
  <2>5. n # 0 => spare' = [spare EXCEPT ![w] = n - 1] /\ used' = used + 1
    BY <1>6 DEF FlowSpareSync
  <2>. HIDE DEF n
  <2>6. IsFiniteSet(Slots(pool')) /\ Total(pool') = Total(pool) + (-n) /\ -n \in Int /\ cnt' = cnt + (-n)
    BY AccountNats, <2>1, <2>3
  <2>7. flowCnt' = flowCnt + 0
    BY AccountNats, <1>1
  <2>8. CASE n = 0
    <3>1. memuse' = memuse + ((-n) + 0 + 0 + 0 + 0 + 0)
      BY AccountNats, <1>1, <2>8
    <3>2. /\ Total(spare') = Total(spare) + 0 /\ IsFiniteSet(Slots(spare'))
          /\ used' + pend' + block' = used + pend + block + 0
          /\ used' \in Nat /\ pend' \in Nat /\ block' \in Nat
      BY SameSpare, SameUse, <1>1, <2>4, <2>8
    <3>. QED
      BY SmallInts, <1>2, <1>4, <2>6, <2>7, <3>1, <3>2, AccountMove, Zenon
  <2>9. CASE n # 0
    <3>1. n - 1 \in Nat
      BY <2>3, <2>9
    <3>2. /\ IsFiniteSet(Slots(spare')) /\ (n - 1) - spare[w] \in Int
          /\ Total(spare') = Total(spare) + ((n - 1) - spare[w])
      BY SpareChange, <2>5, <2>9, <3>1
    <3>3. /\ memuse' = memuse + ((-n) + ((n - 1) - spare[w]) + 0 + 1 + 0 + 0)
          /\ used' + pend' + block' = used + pend + block + 1
          /\ used' \in Nat /\ pend' \in Nat /\ block' \in Nat
      BY AccountNats, <1>1, <2>3, <2>5, <2>9
    <3>. QED
      BY SmallInts, <1>2, <1>4, <2>6, <2>7, <3>2, <3>3, AccountMove, Zenon
  <2>. QED
    BY <2>8, <2>9
<1>. QED
  BY <1>5, <1>6

LEMMA AccountRecycleFlow ==
    ASSUME TypeInv, QuietInv, AccountInv, NEW t \in Returner, RecycleFlow(t)
    PROVE  AccountInv'
<1>1. /\ UNCHANGED <<pool, cnt, memuse, pend, block, flowCnt, built>> /\ t \in Thread
      /\ used > 0 /\ used' = used - 1 /\ pc[t] \in {"idle", "work"} /\ pc' = [pc EXCEPT ![t] = "work"]
  BY AccountTypes, Zenon DEF RecycleFlow, upd
<1>2. Cardinality(Callocs') = Cardinality(Callocs) + 0
  BY QuietCallocs, <1>1, Zenon
<1>3. /\ cnt' = cnt + 0 /\ flowCnt' = flowCnt + 0
      /\ used' + pend' + block' = used + pend + block + (-1)
      /\ used' \in Nat /\ pend' \in Nat /\ block' \in Nat
  BY AccountNats, <1>1
<1>4. /\ Total(pool') = Total(pool) + 0 /\ IsFiniteSet(Slots(pool'))
      /\ Total(built') = Total(built) + 0 /\ IsFiniteSet(Slots(built'))
  BY SamePool, SameBuilt, <1>1
<1>5. CASE KeepsFlow(t)
  <2>1. t \in Worker /\ spare' = [spare EXCEPT ![t] = spare[t] + 1] /\ UNCHANGED ret
    BY <1>5 DEF RecycleFlow, KeepsFlow
  <2>2. spare[t] \in Nat /\ spare[t] + 1 \in Nat
    BY AccountTypes, <2>1
  <2>3. /\ IsFiniteSet(Slots(spare')) /\ Total(spare') = Total(spare) + ((spare[t] + 1) - spare[t])
        /\ Total(ret') = Total(ret) + 0 /\ IsFiniteSet(Slots(ret'))
    BY SameRet, SpareChange, <2>1, <2>2, Zenon
  <2>4. Total(spare') = Total(spare) + 1 /\ memuse' = memuse + (0 + 1 + 0 + (-1) + 0 + 0)
    BY AccountNats, <1>1, <2>2, <2>3
  <2>. QED
    BY SmallInts, <1>2, <1>3, <1>4, <2>3, <2>4, AccountMove, Zenon
<1>6. CASE ~KeepsFlow(t)
  <2>1. ret' = [ret EXCEPT ![t] = ret[t] + 1] /\ UNCHANGED spare
    BY <1>6 DEF RecycleFlow
  <2>2. ret[t] \in Nat /\ ret[t] + 1 \in Nat
    BY AccountTypes
  <2>3. /\ IsFiniteSet(Slots(ret')) /\ Total(ret') = Total(ret) + ((ret[t] + 1) - ret[t])
        /\ Total(spare') = Total(spare) + 0 /\ IsFiniteSet(Slots(spare'))
    BY SameSpare, RetChange, <2>1, <2>2, Zenon
  <2>4. Total(ret') = Total(ret) + 1 /\ memuse' = memuse + (0 + 0 + 1 + (-1) + 0 + 0)
    BY AccountNats, <1>1, <2>2, <2>3
  <2>. QED
    BY SmallInts, <1>2, <1>3, <1>4, <2>3, <2>4, AccountMove, Zenon
<1>. QED
  BY <1>5, <1>6

LEMMA AccountReturnFlows ==
    ASSUME TypeInv, QuietInv, AccountInv, NEW t \in Returner, ReturnFlows(t)
    PROVE  AccountInv'
<1>1. /\ UNCHANGED <<memuse, used, spare, pend, block, flowCnt, built>> /\ t \in Thread
      /\ pool' = Inserted(ret[t]) /\ cnt' = cnt + ret[t] /\ ret' = [ret EXCEPT ![t] = 0]
      /\ pc[t] = "work" /\ \E l : l # "calloc" /\ pc' = [pc EXCEPT ![t] = l]
  BY AccountTypes, Zenon DEF ReturnFlows, FlowSparePoolReturnFlows, upd
<1>2. Cardinality(Callocs') = Cardinality(Callocs) + 0
  BY QuietCallocs, <1>1, Zenon
<1>3. ret[t] \in Nat
  BY AccountTypes
<1>4. IsFiniteSet(Slots(Inserted(ret[t]))) /\ Total(Inserted(ret[t])) = Total(pool) + ret[t]
  BY AccountTypes, <1>3, InsertedTotal
<1>5. IsFiniteSet(Slots(pool')) /\ Total(pool') = Total(pool) + ret[t]
  BY <1>1, <1>4
<1>6. IsFiniteSet(Slots(ret')) /\ 0 - ret[t] \in Int /\ Total(ret') = Total(ret) + (0 - ret[t])
  BY RetChange, <1>1, Zenon
<1>7. /\ flowCnt' = flowCnt + 0 /\ memuse' = memuse + (ret[t] + 0 + (0 - ret[t]) + 0 + 0 + 0)
      /\ ret[t] \in Int /\ cnt' = cnt + ret[t]
  BY AccountNats, <1>1, <1>3
<1>8. /\ Total(spare') = Total(spare) + 0 /\ IsFiniteSet(Slots(spare'))
      /\ Total(built') = Total(built) + 0 /\ IsFiniteSet(Slots(built'))
      /\ used' + pend' + block' = used + pend + block + 0
      /\ used' \in Nat /\ pend' \in Nat /\ block' \in Nat
  BY SameSpare, SameBuilt, SameUse, <1>1, Zenon
<1>. QED
  BY SmallInts, <1>2, <1>5, <1>6, <1>7, <1>8, AccountMove, Zenon

LEMMA AccountEndOfWork ==
    ASSUME TypeInv, QuietInv, AccountInv, NEW t \in Returner, EndOfWork(t)
    PROVE  AccountInv'
<1>1. /\ UNCHANGED <<pool, cnt, memuse, used, spare, ret, pend, block, flowCnt, built>> /\ t \in Thread
      /\ pc[t] = "work" /\ pc' = [pc EXCEPT ![t] = "idle"]
  BY AccountTypes, Zenon DEF EndOfWork, upd
<1>2. Cardinality(Callocs') = Cardinality(Callocs) + 0
  BY QuietCallocs, <1>1, Zenon
<1>3. cnt' = cnt + 0 /\ flowCnt' = flowCnt + 0 /\ memuse' = memuse + (0 + 0 + 0 + 0 + 0 + 0)
  BY AccountNats, <1>1
<1>. QED
  BY SmallInts, SamePool, SameSpare, SameRet, SameUse, SameBuilt, <1>1, <1>2, <1>3, AccountMove

\* Every step keeps the accounts: what it takes from one list it puts on another, and it
\* charges memuse for exactly the flows it makes and frees.
LEMMA AccountStep == TypeInv /\ QuietInv /\ AccountInv /\ [Next]_vars => AccountInv'
<1>. SUFFICES ASSUME TypeInv, QuietInv, AccountInv, [Next]_vars PROVE AccountInv'
  OBVIOUS
<1>. QED
  BY AccountTypes, AccountShutdown, AccountFlowSparePoolUpdate, AccountShrinkTakeBlock,
     AccountFlowSparePoolDestroy, AccountFlowSparePoolInit, AccountShrinkFreeFlow,
     AccountFlowAllocAdd, AccountGrowAllocCheck, AccountGrowAllocDone, AccountGrowInsert,
     AccountGetFromSpareQueue, AccountFlowSpareSyncNotYet, AccountWorkerAllocCheck, AccountWorkerAllocDone,
     AccountFlowWorkerThreadDeinit, AccountFlowSpareSync, AccountRecycleFlow, AccountReturnFlows,
     AccountEndOfWork, Zenon DEF Next, ManagerStep

\* No block is empty: what FlowSpareGetFromPool relies on when it hands out the block
\* it unlinks.  The blocks FlowSparePoolUpdate has made are part of it.
NonEmptyInv == pool \in Seq(Nat \ {0}) /\ built \in Seq(Nat \ {0})

\* While FlowSparePoolInit runs, all that is charged to flow_memuse is in the pool.
LEMMA InitCharge ==
    ASSUME TypeInv, QuietInv, AccountInv, phase = "init" PROVE memuse = cnt
<1>1. /\ used = 0 /\ (\A t \in Thread : pc[t] = "idle") /\ (\A w \in Worker : spare[w] = 0)
      /\ Manager \in Thread /\ Worker \subseteq Thread /\ Returner \subseteq Thread
      /\ Allocator \subseteq Thread /\ DOMAIN spare = Worker /\ DOMAIN ret = Returner
  BY Zenon DEF QuietInv, TypeInv, TypeOK, Thread, Returner, Allocator
<1>2. /\ \A t \in Returner : ret[t] = 0
      /\ pend = 0 /\ block = 0 /\ built = <<>>
  BY <1>1 DEF QuietInv
<1>3. DOMAIN built = {}
  BY <1>2
<1>4. Total(spare) = 0 /\ Total(ret) = 0 /\ Total(built) = 0
  BY <1>1, <1>2, <1>3, EmptyTotal
<1>5. Callocs = {}
  BY <1>1 DEF Callocs
<1>6. Cardinality(Callocs) = 0
  BY <1>5, FS_EmptySet
<1>. QED
  BY <1>1, <1>2, <1>4, <1>6, Numbers DEF Charged

\* Where FlowSparePoolReturnFlows puts a block, the pool keeps to sequences over S.
LEMMA InsertedSeq ==
    ASSUME NEW S \in SUBSET Nat, pool \in Seq(S), NEW n \in S, \A a \in S : n + a \in S
    PROVE  Inserted(n) \in Seq(S)
<1>1. <<>> \in Seq(S) /\ <<n>> \in Seq(S)
  OBVIOUS
<1>2. CASE pool # <<>>
  <2>1. Head(pool) \in S /\ Tail(pool) \in Seq(S)
    BY <1>2, SeqFacts
  <2>2. /\ <<n>> \o pool \in Seq(S) /\ <<Head(pool), n>> \o Tail(pool) \in Seq(S)
        /\ <<n + Head(pool)>> \o Tail(pool) \in Seq(S)
    <3>1. <<Head(pool), n>> \in Seq(S)
      BY <2>1
    <3>. QED
      BY <2>1, <3>1, SeqFacts, Zenon
  <2>. QED
    BY <1>2, <2>2 DEF Inserted
<1>. QED
  BY <1>1, <1>2 DEF Inserted

\* No step puts an empty block into the pool: FlowSparePoolInit has room for one flow
\* more as long as it needs one, and the others test the queue they give.
LEMMA NonEmptyStep ==
    ASSUME \A m \in MemcapValues : Prealloc <= m,
           TypeInv, QuietInv, AccountInv, NonEmptyInv, [Next]_vars
    PROVE  NonEmptyInv'
<1>. DEFINE P == Nat \ {0}
<1>1. pool \in Seq(P) /\ built \in Seq(P) /\ <<>> \in Seq(P)
  BY DEF NonEmptyInv
<1>2. pool # <<>> => Head(pool) \in P /\ Tail(pool) \in Seq(P)
  BY <1>1, SeqFacts
<1>. HIDE DEF P
<1>3. SUFFICES (pool' = pool \/ pool' \in Seq(P)) /\ (built' = built \/ built' \in Seq(P))
  BY <1>1 DEF NonEmptyInv, P
<1>4. CASE FlowSparePoolInit
  <2>1. UNCHANGED built
    BY <1>4 DEF FlowSparePoolInit, upd
  <2>2. CASE cnt < Prealloc
    <3>. DEFINE n == MinOf(BlockSize, MaxOf(memcap - memuse, 0))
    <3>1. pool' = <<n>> \o pool
      BY <1>4, <2>2 DEF FlowSparePoolInit
    <3>2. memuse = cnt /\ memcap \in MemcapValues
      BY <1>4, InitCharge, Zenon DEF FlowSparePoolInit, TypeInv, TypeOK
    <3>3. memuse \in Int /\ memcap \in Nat /\ BlockSize \in Nat \ {0} /\ Prealloc \in Nat /\ Prealloc <= memcap
      BY <3>2, SizesAssumption DEF TypeInv, TypeOK
    <3>4. n \in P
      BY <2>2, <3>2, <3>3 DEF MinOf, MaxOf, P
    <3>. HIDE DEF n
    <3>. QED
      BY <1>1, <2>1, <3>1, <3>4, ConsSeq
  <2>3. CASE ~(cnt < Prealloc)
    BY <1>4, <2>1, <2>3 DEF FlowSparePoolInit
  <2>. QED
    BY <2>2, <2>3
<1>5. CASE \/ Shutdown \/ Restart \/ FlowSetMemcapCheck \/ FlowSetMemcapSet
           \/ FlowSparePoolUpdate \/ ShrinkFreeFlow \/ ShrinkDone \/ UNCHANGED vars
  BY <1>5, Zenon DEF Shutdown, Restart, FlowSetMemcapCheck, FlowSetMemcapSet, FlowSparePoolUpdate,
     ShrinkFreeFlow, ShrinkDone, upd, vars
<1>6. CASE FlowSparePoolDestroy
  BY <1>2, <1>6 DEF FlowSparePoolDestroy, upd
<1>7. CASE ShrinkTakeBlock
  BY <1>2, <1>7 DEF ShrinkTakeBlock
<1>8. ASSUME block \in Nat, NEW l, LinkBlock(l) PROVE built' = built \/ built' \in Seq(P)
  <2>1. CASE block = 0
    BY <1>8, <2>1 DEF LinkBlock
  <2>2. CASE block # 0
    <3>1. block \in P
      BY <1>8, <2>2 DEF P
    <3>. QED
      BY <1>1, <1>8, <2>2, <3>1, ConsSeq DEF LinkBlock
  <2>. QED
    BY <2>1, <2>2
<1>9. block \in Nat
  BY Numbers
<1>10. CASE GrowAllocCheck
  BY <1>8, <1>9, <1>10 DEF GrowAllocCheck
<1>11. CASE GrowAllocDone
  BY <1>8, <1>9, <1>11 DEF GrowAllocDone
<1>12. CASE GrowNextBlock
  BY <1>8, <1>9, <1>12 DEF GrowNextBlock
<1>13. CASE GrowInsert
  <2>1. pool # <<>> => <<Head(pool)>> \in Seq(P)
    BY <1>2
  <2>2. pool # <<>> => <<Head(pool)>> \o built \o Tail(pool) \in Seq(P)
    BY <1>1, <1>2, <2>1, SeqFacts
  <2>. QED
    BY <1>1, <1>13, <2>2, Zenon DEF GrowInsert
<1>14. ASSUME NEW w \in Worker,
              \/ GetFromSpareQueue(w) \/ FlowSpareSyncNotYet(w) \/ WorkerAllocCheck(w) \/ FlowAllocAdd(w)
              \/ WorkerAllocDone(w) \/ FlowWorkerThreadDeinit(w)
       PROVE  UNCHANGED <<pool, built>>
  BY <1>14, Zenon DEF GetFromSpareQueue, FlowSpareSyncNotYet, WorkerAllocCheck, FlowAllocAdd, WorkerAllocDone,
     FlowWorkerThreadDeinit, upd
<1>15. CASE FlowAllocAdd(Manager)
  BY <1>15 DEF FlowAllocAdd, upd
<1>16. ASSUME NEW w \in Worker, FlowSpareSync(w)
       PROVE  built' = built /\ (pool' = pool \/ pool' \in Seq(P))
  <2>1. built' = built /\ (pool' = pool \/ (pool # <<>> /\ pool' = Without(pool, TakenBlock)))
    BY <1>16, Zenon DEF FlowSpareSync, upd
  <2>2. pool # <<>> => Without(pool, TakenBlock) \in Seq(P)
    BY <1>1, TakenIn, SeqFacts
  <2>. QED
    BY <2>1, <2>2
<1>17. ASSUME NEW t \in Returner, ReturnFlows(t)
       PROVE  built' = built /\ pool' \in Seq(P)
  <2>1. built' = built /\ pool' = Inserted(ret[t]) /\ ret[t] > 0
    BY <1>17 DEF ReturnFlows, FlowSparePoolReturnFlows, upd
  <2>2. ret[t] \in Nat
    BY SizesAssumption DEF TypeInv, TypeOK, BlockLen
  <2>3. ret[t] \in P /\ P \in SUBSET Nat /\ \A a \in P : ret[t] + a \in P
    BY <2>1, <2>2 DEF P
  <2>. QED
    BY <1>1, <2>1, <2>3, InsertedSeq, Zenon
<1>18. ASSUME NEW t \in Returner, RecycleFlow(t) \/ EndOfWork(t)
       PROVE  UNCHANGED <<pool, built>>
  BY <1>18, Zenon DEF RecycleFlow, EndOfWork, upd
<1>. QED
  BY <1>4, <1>5, <1>6, <1>7, <1>10, <1>11, <1>12, <1>13, <1>14, <1>15, <1>16, <1>17, <1>18, Zenon DEF Next,
     ManagerStep

\* The engine starts with empty queues and nothing charged to flow_memuse.
LEMMA AccountInit == Init => TypeInv /\ QuietInv /\ AccountInv /\ NonEmptyInv
<1>. SUFFICES ASSUME Init PROVE QuietInv /\ AccountInv /\ NonEmptyInv
  BY TypeInit
<1>1. QuietInv
  BY ThreadsAssumption DEF Init, QuietInv, Thread, Returner
<1>2. NonEmptyInv
  BY DEF Init, NonEmptyInv
<1>3. DOMAIN pool = {} /\ DOMAIN built = {}
  BY DEF Init
<1>4. (\A x \in DOMAIN spare : spare[x] = 0) /\ (\A x \in DOMAIN ret : ret[x] = 0)
  BY DEF Init
<1>5. Callocs = {}
  BY DEF Init, Callocs, Allocator, Thread
<1>6. Cardinality(Callocs) = 0
  BY <1>5, FS_EmptySet
<1>7. /\ IsFiniteSet(Slots(pool)) /\ Total(pool) = 0 /\ IsFiniteSet(Slots(built)) /\ Total(built) = 0
      /\ IsFiniteSet(Slots(spare)) /\ Total(spare) = 0 /\ IsFiniteSet(Slots(ret)) /\ Total(ret) = 0
  BY <1>3, <1>4, EmptyTotal
<1>8. memuse = 0 /\ cnt = 0 /\ flowCnt = 0 /\ used = 0 /\ pend = 0 /\ block = 0
  BY DEF Init
<1>9. MemuseAccountsForFlows
  BY <1>6, <1>7, <1>8 DEF MemuseAccountsForFlows, Callocs
<1>. QED
  BY <1>1, <1>2, <1>7, <1>8, <1>9 DEF AccountInv

\* flow_memuse is the number of flows there are, wherever they are: FlowAlloc and
\* FlowFree, the spare pool and the queues of the threads lose none and free none twice,
\* so that FlowShutdown finds flow_memuse at 0.
THEOREM MemuseAccounted == Spec => []MemuseAccountsForFlows
<1>1. AccountInv => MemuseAccountsForFlows
  BY DEF AccountInv
<1>. QED
  BY <1>1, AccountInit, TypeStep, QuietStep, AccountStep, PTL DEF Spec

\* flow_spare_pool_flow_cnt, which the flow manager reads without the lock, is the number
\* of flows in the pool between any two critical sections, and no block is empty, when
\* every memcap has room for the flows FlowSparePoolInit makes.
THEOREM SparePoolValid ==
    ASSUME \A m \in MemcapValues : Prealloc <= m PROVE Spec => []PoolValid
<1>1. TypeInv /\ QuietInv /\ AccountInv /\ NonEmptyInv /\ [Next]_vars => NonEmptyInv'
  BY NonEmptyStep
<1>2. AccountInv /\ NonEmptyInv => PoolValid
  BY DEF NonEmptyInv, AccountInv, PoolValid
<1>. QED
  BY <1>1, <1>2, AccountInit, TypeStep, QuietStep, AccountStep, PTL DEF Spec

=============================================================================
