----------------------------- MODULE PacketPool -----------------------------
(***************************************************************************)
(* The packet pools of tmqh-packetpool.c and the tunnel bookkeeping of      *)
(* decode.c, in the autofp run modes: a capture thread takes packets from   *)
(* its own pool, decodes them, and hands them to other threads; those put   *)
(* them back.  In the IDS run mode the workers return the packets, in the   *)
(* inline one the verdict threads that read "verdict-queue"; both are       *)
(* Releaser here.  What happens in between only reorders packets, so the    *)
(* queues are one set, inflight.                                            *)
(*                                                                         *)
(* A pool has a stack of its own (head, cnt), used by its thread only, and  *)
(* a return stack (ret, retCnt) under a mutex.  A releaser collects packets *)
(* of one pool (pendPool, pend, pendCnt) and returns them together once     *)
(* there are return_threshold of them.  The stacks are sets: which packet   *)
(* comes next is left open.  Releasers' own pools are left out.             *)
(***************************************************************************)
EXTENDS Integers, Sequences, FiniteSets

CONSTANTS
    Capture,       \* capture threads, each with a pool
    Releaser,      \* threads that return packets to the pools
    Extra,         \* packets that PacketGetFromAlloc allocates, with no pool
    MaxPending,    \* max_pending_packets, the size of a pool
    Threads,       \* threads with TM_FLAG_FLOWWORKER_TM; every packet run mode has one
    ReturnDefault, \* MAX_PENDING_RETURN_PACKETS, 32 in the code
    Reserved,      \* RESERVED_PACKETS, 10 in the code
    MaxLeaves,     \* bound: packets inside one packet, for each capture thread
    Setups,        \* the threads of each configuration to look at
    None

ASSUME PacketPoolAssumption ==
    /\ MaxPending \in Nat \ {0} /\ Threads \in Nat \ {0} /\ MaxLeaves \in [Capture -> Nat]
    /\ ReturnDefault \in Nat /\ Reserved \in Nat
    /\ \A s \in Setups : s \subseteq Capture \cup Releaser
    /\ None \notin Capture \cup Releaser \cup Extra

VARIABLES
    head, cnt,             \* PktPool: the thread's own stack
    ret, retCnt,           \* PktPool: return_stack
    threshold,             \* PktPool: return_stack.return_threshold
    pendPool, pend, pendCnt, \* PktPool of a releaser: pending_pool, _head, _count
    extra,                 \* allocated packets in use
    ttype, root,           \* Packet: ttype, root
    tpr, rtv, verdicted,   \* Packet: tunnel_tpr_cnt, tunnel_rtv_cnt, tunnel_verdicted
    cpc, cur, leaf, decodePq, \* capture: place, packet, inner packet, tv->decode_pq
    inflight,              \* packets on their way to the releasers
    rpc, hand, out,        \* releaser: place, packet, packets still to return
    verdicts               \* verdicts given for the packet since it was captured

pools   == <<head, cnt, ret, retCnt, threshold>>
pending == <<pendPool, pend, pendCnt>>
tunnel  == <<ttype, root, tpr, rtv, verdicted>>
capture == <<cpc, cur, leaf, decodePq>>
release == <<rpc, hand, out>>
vars    == <<pools, pending, extra, tunnel, capture, inflight, release, verdicts>>

Pooled == Capture \X (1..MaxPending)
Packet == Pooled \cup Extra

\* The pool field of a packet.
PoolOf(p) == IF p \in Pooled THEN p[1] ELSE None

\* PacketPoolPostRunmodes.  With more threads than packets, packets - 1 wraps around
\* to the largest uint32_t and lowers nothing.
MaxPendingReturn ==
    LET share   == MaxPending \div Threads
        packets == IF share = 0 \/ share - 1 >= ReturnDefault THEN ReturnDefault ELSE share - 1
    IN  IF packets >= Reserved THEN packets - Reserved ELSE packets

\* UpdateReturnThreshold, for n packets in the pool.  Single precision may come out
\* just below a whole number.
Thresholds(n) ==
    LET q == (n * MaxPendingReturn) \div MaxPending
    IN  {q} \cup IF q > 0 /\ (n * MaxPendingReturn) % MaxPending = 0 THEN {q - 1} ELSE {}

UpdateReturnThreshold(c) ==
    \E t \in Thresholds(cnt[c]) : threshold' = [threshold EXCEPT ![c] = t]

\* PacketPoolInit in every capture thread, PacketPoolPostRunmodes already done.
Init ==
    /\ head = [c \in Capture |-> {p \in Pooled : p[1] = c}]
    /\ cnt = [c \in Capture |-> MaxPending]
    /\ ret = [c \in Capture |-> {}] /\ retCnt = [c \in Capture |-> 0]
    /\ threshold = [c \in Capture |-> ReturnDefault]
    /\ pendPool = [r \in Releaser |-> None] /\ pend = [r \in Releaser |-> {}]
    /\ pendCnt = [r \in Releaser |-> 0]
    /\ extra = {}
    /\ ttype = [p \in Packet |-> "none"] /\ root = [p \in Packet |-> None]
    /\ tpr = [p \in Packet |-> 0] /\ rtv = [p \in Packet |-> 0]
    /\ verdicted = [p \in Packet |-> FALSE]
    /\ \E s \in Setups :
          /\ cpc = [c \in Capture |-> IF c \in s THEN "idle" ELSE "off"]
          /\ rpc = [r \in Releaser |-> IF r \in s THEN "idle" ELSE "off"]
    /\ cur = [c \in Capture |-> None]
    /\ leaf = [c \in Capture |-> None] /\ decodePq = [c \in Capture |-> {}]
    /\ inflight = {}
    /\ hand = [r \in Releaser |-> None]
    /\ out = [r \in Releaser |-> <<>>]
    /\ verdicts = [p \in Packet |-> 0]

-----------------------------------------------------------------------------
(* The capture thread.                                                      *)

\* PacketPoolWait: with an empty stack, ask for packets one by one and sleep.
PacketPoolWait(c) ==
    /\ cpc[c] = "idle" /\ head[c] = {}
    /\ threshold' = [threshold EXCEPT ![c] = 1]
    /\ cpc' = [cpc EXCEPT ![c] = "wait"]
    /\ UNCHANGED <<head, cnt, ret, retCnt, pending, extra, tunnel, cur, leaf, decodePq,
                   inflight, release, verdicts>>

\* Mutant: the thread goes back to sleep as long as its own stack is empty.
PacketPoolWaitDoneOwn(c) ==
    /\ cpc[c] = "wait" /\ retCnt[c] > 0
    /\ IF head[c] = {} THEN UNCHANGED <<threshold, cpc>>
       ELSE UpdateReturnThreshold(c) /\ cpc' = [cpc EXCEPT ![c] = "get"]
    /\ UNCHANGED <<head, cnt, ret, retCnt, pending, extra, tunnel, cur, leaf, decodePq,
                   inflight, release, verdicts>>

\* The condition holds, under the mutex of the return stack.  Only this thread takes from
\* the stack, and until it updates the threshold it changes nothing that others read.
PacketPoolWaitDone(c) ==
    /\ cpc[c] = "wait" /\ retCnt[c] > 0
    /\ UpdateReturnThreshold(c)
    /\ cpc' = [cpc EXCEPT ![c] = "get"]
    /\ UNCHANGED <<head, cnt, ret, retCnt, pending, extra, tunnel, cur, leaf, decodePq,
                   inflight, release, verdicts>>

\* PacketReinit.  The code calls it when it takes a packet from a pool; nobody looks at
\* these fields of a packet in a pool, so the model does it when the packet goes back.
PacketReinit(p) ==
    /\ ttype' = [ttype EXCEPT ![p] = "none"] /\ root' = [root EXCEPT ![p] = None]
    /\ tpr' = [tpr EXCEPT ![p] = 0] /\ rtv' = [rtv EXCEPT ![p] = 0]
    /\ verdicted' = [verdicted EXCEPT ![p] = FALSE]
    /\ verdicts' = [verdicts EXCEPT ![p] = 0]

\* PacketPoolGetPacket up to UpdateReturnThreshold: a packet of the own stack; when
\* that is empty PacketPoolGetReturnedPackets first moves the return stack there.
Pop(c, p) ==
    LET empty == head[c] = {}
        from  == IF empty THEN ret[c] ELSE head[c]
    IN  /\ p \in from
        /\ head' = [head EXCEPT ![c] = from \ {p}]
        /\ cnt' = [cnt EXCEPT ![c] = IF empty THEN @ + retCnt[c] - 1 ELSE @ - 1]
        /\ ret' = IF empty THEN [ret EXCEPT ![c] = {}] ELSE ret
        /\ retCnt' = IF empty THEN [retCnt EXCEPT ![c] = 0] ELSE retCnt

\* The receive function: PacketPoolWait has returned, so there is a packet.
Receive(c, p) ==
    /\ cpc[c] = "get" \/ (cpc[c] = "idle" /\ head[c] # {})
    /\ Pop(c, p)
    /\ cur' = [cur EXCEPT ![c] = p]
    /\ cpc' = [cpc EXCEPT ![c] = "got"]
    /\ UNCHANGED <<threshold, pending, extra, tunnel, leaf, decodePq, inflight, release,
                   verdicts>>

\* Mutant: the threshold follows the pool in PacketPoolWait only.
GetDoneNoUpdate(c) ==
    /\ cpc[c] \in {"got", "leafgot"}
    /\ cpc' = [cpc EXCEPT ![c] = IF @ = "got" THEN "decode" ELSE "leaf"]
    /\ UNCHANGED <<pools, pending, extra, tunnel, cur, leaf, decodePq, inflight, release,
                   verdicts>>

\* The end of PacketPoolGetPacket.
GetDone(c) ==
    /\ cpc[c] \in {"got", "leafgot"}
    /\ UpdateReturnThreshold(c)
    /\ cpc' = [cpc EXCEPT ![c] = IF @ = "got" THEN "decode" ELSE "leaf"]
    /\ UNCHANGED <<head, cnt, ret, retCnt, pending, extra, tunnel, cur, leaf, decodePq,
                   inflight, release, verdicts>>

\* PacketTunnelPktSetup: PacketGetFromQueueOrAlloc takes a packet of the pool, or
\* allocates one when both stacks are empty.
PacketTunnelPktSetup(c, p) ==
    /\ cpc[c] = "decode" /\ Cardinality(decodePq[c]) < MaxLeaves[c]
    /\ \/ /\ Pop(c, p) /\ UNCHANGED extra
          /\ cpc' = [cpc EXCEPT ![c] = "leafgot"]
       \/ /\ head[c] = {} /\ ret[c] = {} /\ p \in Extra \ extra
          /\ extra' = extra \cup {p} /\ UNCHANGED <<head, cnt, ret, retCnt>>
          /\ cpc' = [cpc EXCEPT ![c] = "leaf"]
    /\ root' = [root EXCEPT ![p] = cur[c]]
    /\ ttype' = [ttype EXCEPT ![p] = "child", ![cur[c]] = "root"]
    /\ leaf' = [leaf EXCEPT ![c] = p]
    /\ UNCHANGED <<threshold, pending, tpr, rtv, verdicted, cur, decodePq, inflight, release,
                   verdicts>>

\* DecodeTunnel likes the packet: TUNNEL_INCR_PKT_TPR, and the decoder enqueues it.
TunnelValid(c) ==
    /\ cpc[c] = "leaf"
    /\ tpr' = [tpr EXCEPT ![cur[c]] = @ + 1]
    /\ decodePq' = [decodePq EXCEPT ![c] = @ \cup {leaf[c]}]
    /\ leaf' = [leaf EXCEPT ![c] = None]
    /\ cpc' = [cpc EXCEPT ![c] = "decode"]
    /\ UNCHANGED <<pools, pending, extra, ttype, root, rtv, verdicted, cur, inflight, release,
                   verdicts>>

\* It does not: root is cleared and TmqhOutputPacketpool called here.  The packet is
\* still a child, so it counts against itself and is returned to the own pool.
TunnelInvalid(c) ==
    LET p == leaf[c]
    IN  /\ cpc[c] = "leaf"
        /\ PacketReinit(p)
        /\ IF PoolOf(p) = None
           THEN /\ extra' = extra \ {p} /\ UNCHANGED <<head, cnt>>
           ELSE /\ head' = [head EXCEPT ![c] = @ \cup {p}]
                /\ cnt' = [cnt EXCEPT ![c] = @ + 1]
                /\ UNCHANGED extra
        /\ leaf' = [leaf EXCEPT ![c] = None]
        /\ cpc' = [cpc EXCEPT ![c] = "decode"]
        /\ UNCHANGED <<ret, retCnt, threshold, pending, cur, decodePq, inflight, release>>

\* TmThreadsSlotVarRun empties decode_pq before the packet itself goes on.
OutputLeaf(c, p) ==
    /\ cpc[c] \in {"decode", "send"} /\ p \in decodePq[c]
    /\ decodePq' = [decodePq EXCEPT ![c] = @ \ {p}]
    /\ inflight' = inflight \cup {p}
    /\ cpc' = [cpc EXCEPT ![c] = "send"]
    /\ UNCHANGED <<pools, pending, extra, tunnel, cur, leaf, release, verdicts>>

OutputRoot(c) ==
    /\ cpc[c] \in {"decode", "send"} /\ decodePq[c] = {}
    /\ inflight' = inflight \cup {cur[c]}
    /\ cur' = [cur EXCEPT ![c] = None]
    /\ cpc' = [cpc EXCEPT ![c] = "idle"]
    /\ UNCHANGED <<pools, pending, extra, tunnel, leaf, decodePq, release, verdicts>>

-----------------------------------------------------------------------------
(* The releaser.                                                            *)

\* The packet whose lock and counters a packet uses.
RootOf(p) == IF root[p] # None THEN root[p] ELSE p

\* Mutant: the root counts as one of the packets.
OutstandingOffByOne(p) == (tpr[RootOf(p)] - rtv[RootOf(p)] - 1) % 65536

\* A uint16_t.
Outstanding(p) == (tpr[RootOf(p)] - rtv[RootOf(p)]) % 65536

Dequeue(r, p) ==
    /\ rpc[r] = "idle" /\ p \in inflight
    /\ inflight' = inflight \ {p}
    /\ hand' = [hand EXCEPT ![r] = p]
    /\ rpc' = [rpc EXCEPT ![r] = "verdict"]
    /\ UNCHANGED <<pools, pending, extra, tunnel, capture, out, verdicts>>

\* Mutant: the root's own verdict does not wait for the packets inside it.
VerdictTunnelPacketEager(p) ==
    \/ ttype[p] = "root" /\ ~verdicted[p]
    \/ ttype[p] = "child" /\ Outstanding(p) = 1 /\ root[p] # None /\ verdicted[root[p]]

\* VerdictTunnelPacketInternal.
VerdictTunnelPacket(p) ==
    \/ ttype[p] = "root" /\ ~verdicted[p] /\ Outstanding(p) = 0
    \/ ttype[p] = "child" /\ Outstanding(p) = 1 /\ root[p] # None /\ verdicted[root[p]]

\* VerdictIPFW: look under the lock of the root, and set the verdict after it.
Verdict(r) ==
    LET p == hand[r]
    IN  /\ rpc[r] = "verdict"
        /\ verdicts' = IF ttype[p] = "none" \/ VerdictTunnelPacket(p)
                       THEN [verdicts EXCEPT ![RootOf(p)] = @ + 1] ELSE verdicts
        /\ rpc' = [rpc EXCEPT ![r] = "out"]
        /\ UNCHANGED <<pools, pending, extra, tunnel, capture, inflight, hand, out>>

\* Mutant: the last packet inside returns the root, whether the root was seen or not.
LastOfTunnelNoCheck(p) ==
    root[p] # None /\ (tpr[RootOf(p)] - rtv[RootOf(p)] - 1) % 65536 = 0

\* The last packet of the tunnel, after its own count, with the root already seen.
LastOfTunnel(p) ==
    /\ root[p] # None /\ verdicted[root[p]]
    /\ (tpr[RootOf(p)] - rtv[RootOf(p)] - 1) % 65536 = 0

\* TmqhOutputPacketpool up to the end of the lock.  A root with packets outstanding is
\* left to them; the last of them returns it.
TmqhOutputPacketpool(r) ==
    LET p == hand[r]
    IN  /\ rpc[r] = "out"
        /\ hand' = [hand EXCEPT ![r] = None]
        /\ \/ /\ ttype[p] = "none" \/ (ttype[p] = "root" /\ Outstanding(p) = 0)
              /\ out' = [out EXCEPT ![r] = <<p>>]
              /\ rpc' = [rpc EXCEPT ![r] = "return"]
              /\ UNCHANGED <<rtv, verdicted>>
           \/ /\ ttype[p] = "root" /\ Outstanding(p) # 0
              /\ verdicted' = [verdicted EXCEPT ![p] = TRUE]
              /\ rpc' = [rpc EXCEPT ![r] = "idle"]
              /\ UNCHANGED <<out, rtv>>
           \/ /\ ttype[p] = "child"
              /\ rtv' = [rtv EXCEPT ![RootOf(p)] = @ + 1]
              /\ out' = [out EXCEPT ![r] = IF LastOfTunnel(p) THEN <<root[p], p>> ELSE <<p>>]
              /\ rpc' = [rpc EXCEPT ![r] = "return"]
              /\ UNCHANGED verdicted
        /\ UNCHANGED <<pools, pending, extra, ttype, root, tpr, capture, inflight, verdicts>>

\* The next packet to return, or back to the queue.
ReturnNext(r) ==
    /\ out' = [out EXCEPT ![r] = Tail(@)]
    /\ rpc' = [rpc EXCEPT ![r] = IF Len(out[r]) = 1 THEN "idle" ELSE "return"]

\* PacketPoolReturnPacket of an allocated packet: PacketFree.
ReturnFree(r) ==
    LET p == Head(out[r])
    IN  /\ rpc[r] = "return" /\ PoolOf(p) = None
        /\ extra' = extra \ {p}
        /\ PacketReinit(p) /\ ReturnNext(r)
        /\ UNCHANGED <<pools, pending, capture, inflight, hand>>

\* The pending list is empty or of the same pool: add the packet, read the threshold,
\* and flush when there are enough.
ReturnPending(r) ==
    LET p == Head(out[r])
        c == PoolOf(p)
        n == IF pendPool[r] = None THEN 1 ELSE pendCnt[r] + 1
    IN  /\ rpc[r] = "return" /\ c # None /\ pendPool[r] \in {None, c}
        /\ pendPool' = [pendPool EXCEPT ![r] = c]
        /\ pend' = [pend EXCEPT ![r] = IF pendPool[r] = None THEN {p} ELSE @ \cup {p}]
        /\ pendCnt' = [pendCnt EXCEPT ![r] = n]
        /\ IF n >= threshold[c]
           THEN rpc' = [rpc EXCEPT ![r] = "flush"] /\ UNCHANGED out
           ELSE ReturnNext(r)
        /\ PacketReinit(p)
        /\ UNCHANGED <<pools, extra, capture, inflight, hand>>

\* The flush, under the mutex of the return stack.
ReturnFlush(r) ==
    LET c == pendPool[r]
    IN  /\ rpc[r] = "flush"
        /\ ret' = [ret EXCEPT ![c] = @ \cup pend[r]]
        /\ retCnt' = [retCnt EXCEPT ![c] = @ + pendCnt[r]]
        /\ pendPool' = [pendPool EXCEPT ![r] = None]
        /\ pend' = [pend EXCEPT ![r] = {}] /\ pendCnt' = [pendCnt EXCEPT ![r] = 0]
        /\ ReturnNext(r)
        /\ UNCHANGED <<head, cnt, threshold, extra, tunnel, capture, inflight, hand, verdicts>>

\* The pending list is of another pool: return this packet by itself.
ReturnOther(r) ==
    LET p == Head(out[r])
        c == PoolOf(p)
    IN  /\ rpc[r] = "return" /\ c # None /\ pendPool[r] \notin {None, c}
        /\ ret' = [ret EXCEPT ![c] = @ \cup {p}]
        /\ retCnt' = [retCnt EXCEPT ![c] = @ + 1]
        /\ PacketReinit(p) /\ ReturnNext(r)
        /\ UNCHANGED <<head, cnt, threshold, pending, extra, capture, inflight, hand>>

-----------------------------------------------------------------------------
ReleaserStep(r) ==
    \/ \E p \in Packet : Dequeue(r, p)
    \/ Verdict(r) \/ TmqhOutputPacketpool(r)
    \/ ReturnFree(r) \/ ReturnPending(r) \/ ReturnFlush(r) \/ ReturnOther(r)

CaptureStep(c) ==
    \/ PacketPoolWait(c) \/ PacketPoolWaitDone(c) \/ GetDone(c)
    \/ TunnelValid(c) \/ TunnelInvalid(c) \/ OutputRoot(c)
    \/ \E p \in Packet : Receive(c, p) \/ PacketTunnelPktSetup(c, p) \/ OutputLeaf(c, p)

Next == (\E c \in Capture : CaptureStep(c)) \/ (\E r \in Releaser : ReleaserStep(r))

Spec == Init /\ [][Next]_vars

\* Releasers keep running, and a capture thread whose condition holds wakes up.  Nothing
\* is assumed of the arrival of packets.
FairSpec ==
    /\ Spec
    /\ \A r \in Releaser : WF_vars(ReleaserStep(r))
    /\ \A c \in Capture : WF_vars(PacketPoolWaitDone(c))

-----------------------------------------------------------------------------
\* The variables have their types: no counter or threshold leaves its range.
TypeOK ==
    /\ \A c \in Capture : head[c] \subseteq Pooled /\ ret[c] \subseteq Pooled
                          /\ decodePq[c] \subseteq Packet
    /\ cnt \in [Capture -> 0..MaxPending] /\ retCnt \in [Capture -> 0..MaxPending]
    /\ threshold \in [Capture -> 0..ReturnDefault]
    /\ pendPool \in [Releaser -> Capture \cup {None}]
    /\ pendCnt \in [Releaser -> 0..MaxPending]
    /\ extra \subseteq Extra /\ inflight \subseteq Packet
    /\ ttype \in [Packet -> {"none", "root", "child"}]
    /\ root \in [Packet -> Packet \cup {None}]
    /\ tpr \in [Packet -> Nat] /\ \A p \in Packet : rtv[p] \in 0..tpr[p]
    /\ cpc \in [Capture -> {"off", "idle", "wait", "get", "got", "leafgot", "decode",
                        "leaf", "send"}]
    /\ rpc \in [Releaser -> {"off", "idle", "verdict", "out", "return", "flush"}]

\* The packets of a releaser that are in no batch yet.
Held(r) ==
    {hand[r]} \cup {out[r][i] : i \in (IF rpc[r] = "flush" THEN 2 ELSE 1)..Len(out[r])}

\* The lists, queues and threads that have a packet.
Holders(p) ==
    {<<"head", c>> : c \in {c \in Capture : p \in head[c]}}
    \cup {<<"ret", c>> : c \in {c \in Capture : p \in ret[c]}}
    \cup {<<"decode", c>> : c \in {c \in Capture : p \in decodePq[c] \cup {cur[c], leaf[c]}}}
    \cup {<<"pend", r>> : r \in {r \in Releaser : p \in pend[r]}}
    \cup {<<"held", r>> : r \in {r \in Releaser : p \in Held(r)}}
    \cup {<<"inflight">> : q \in {q \in inflight : q = p}}

\* Packets inside a captured packet that have not been counted off yet.
Inside(p) ==
    {q \in Packet : root[q] = p
        /\ \/ q \in inflight \/ \E c \in Capture : q \in decodePq[c]
           \/ \E r \in Releaser : q = hand[r]}

\* Between the capture threads that take packets without a lock, the batches of the
\* releasers and the roots that nobody holds while packets inside them are under way, no
\* packet of a pool is lost or on two lists, and the three counters agree with their lists,
\* within their ranges (TypeOK).
PacketsAccounted ==
    /\ TypeOK
    /\ \A p \in Pooled : \/ Cardinality(Holders(p)) = 1
                         \/ Holders(p) = {} /\ verdicted[p] /\ Inside(p) # {}
    /\ \A c \in Capture : cnt[c] = Cardinality(head[c]) /\ retCnt[c] = Cardinality(ret[c])
    /\ \A r \in Releaser : pendCnt[r] = Cardinality(pend[r])

\* A packet that others still point to as their root is not returned: it is on no stack
\* and in no batch, whoever the threads are that see it and the packets inside it last.
RootOutlivesInside ==
    \A p \in Pooled : Inside(p) # {} =>
        /\ \A c \in Capture : p \notin head[c] \cup ret[c]
        /\ \A r \in Releaser : p \notin pend[r] /\ \A i \in 1..Len(out[r]) : out[r][i] # p

\* PacketPoolPostRunmodes wants to avoid "a deadlock where all the 'workers' keep packets
\* in their return pools, while the capture thread can't continue because its pool is
\* empty".  When a capture thread sleeps on an empty pool, some packet of it is outside the
\* batches, or in one that is about to be flushed.
BatchesNeverStarve ==
    \A c \in Capture : cpc[c] = "wait" /\ ret[c] = {} =>
        \E p \in Pooled : PoolOf(p) = c
            /\ \A r \in Releaser : p \in pend[r] => rpc[r] = "flush"

\* A capture thread that sleeps in PacketPoolWait gets a packet, though nothing but the
\* packets already under way can wake it up.  (With a second capture thread, inflight would
\* have to be a queue: its packets could always come first.)
WaitEnds ==
    \A c \in Capture :
        cpc[c] = "wait" /\ (\A d \in Capture \ {c} : cpc[d] = "off") ~> cpc[c] = "get"

\* No packet gets two verdicts, whatever the threads that see it and those inside it.
VerdictOnce == \A p \in Packet : verdicts[p] <= 1

\* VerdictTunnelPacket says of the packets it passes over: "Otherwise, a future packet will
\* issue the verdict."  So a captured packet that goes back to its pool has its verdict.
VerdictIssued ==
    \A r \in Releaser : rpc[r] = "return" =>
        \A i \in 1..Len(out[r]) : root[out[r][i]] = None => verdicts[out[r][i]] > 0
=============================================================================
