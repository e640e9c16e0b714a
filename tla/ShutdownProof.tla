---------------------------- MODULE ShutdownProof ----------------------------
(***************************************************************************)
(* What Shutdown guarantees for any packet threads, run mode and flows: no *)
(* flow is lost on the way out, no packet is left where the code asserts   *)
(* that there is none, and no live packet meets a forced one.              *)
(***************************************************************************)
EXTENDS Shutdown, TLAPS

-----------------------------------------------------------------------------
(* The inductive invariant. *)

\* The parts of PostRunDeinit from some point on.
Freed     == {"killmgmt", "killppt", "clear", "done"}
NoRecycle == {"recend"} \cup Freed
NoHash    == {"recwait"} \cup NoRecycle
Killed    == {"hash"} \cup NoHash
Drained   == {"validate2", "kill"} \cup Killed
Forced    == {"drain3"} \cup Drained
Looping   == {"cleanup"} \cup Forced
Asked     == {"flowloop"} \cup Looping
NoCapture == {"drain1", "drain2", "validate1"} \cup Asked
NoManager == {"receive"} \cup NoCapture
Scanning  == {"receive", "drain1", "drain2", "drain3", "validate1", "validate2", "flowloop",
              "kill", "killppt"}

\* Where a thread has a packet, and where it can be at all.
WithPacket == {"flow", "inject", "append", "work"}
Place == {"off", "acq", "in", "wait", "woken", "handle", "loop", "done", "closed"} \cup WithPacket
Flags == {"REQ_FLOW_LOOP", "FLOW_LOOP", "KILL", "RUNNING_DONE", "DEINIT", "CLOSED", "DEAD"}
Queues == {"queue", "injected", "work", "hand"}
Loc == {InHash, Evicted, Recycle, Listed, Spare} \cup (Queues \X FlowWorkers)

Types ==
    /\ flags \in [All -> SUBSET Flags]
    /\ pq \in [Thread -> Seq({"live", "flush"})] /\ tpc \in [Thread -> Place]
    /\ pkt \in [Thread -> {None, "live", "flush", "timeout"}] /\ work \in [Thread -> 0..MaxWork]
    /\ loc \in [Flow -> Loc] /\ owner \in [Flow -> FlowWorkers \cup {None}]
    /\ wire \in Nat /\ wire <= MaxLive /\ rpc \in {"top", "extract", "flag", "log", "end"}
    /\ busy \in 0..1 /\ bail \in BOOLEAN

\* Where a packet thread can be (p), its packet (k), its queue (q) and its flags (s).
PlaceOk(t, p, k, q, s) ==
    /\ t \notin FlowWorkers => p \in {"off", "acq", "loop", "done", "closed"} /\ q = <<>>
    /\ t \in Receive => p \notin {"in", "wait", "woken"}
    /\ t \notin Receive => p \notin {"acq", "handle"}
    /\ k # None <=> p \in WithPacket
    /\ p = "flow" => k = "live"
    /\ p \in {"off", "acq", "in", "wait", "woken"} => "FLOW_LOOP" \notin s
    /\ p \in {"loop", "done", "closed"} => "FLOW_LOOP" \in s
    /\ "RUNNING_DONE" \in s <=> p \in {"done", "closed"}
    /\ p = "off" => q = <<>>

NoLive(q) == \A k \in 1..Len(q) : q[k] # "live"

\* In the flow loop there is no packet from the wire.
LiveOk(t, k, q, s) == (t \in Receive => NoLive(q)) /\ ("FLOW_LOOP" \in s => k # "live")

\* What the main thread has asked of a thread so far.
AskedOk(t, s) ==
    /\ t \notin Receive /\ s \cap {"KILL", "REQ_FLOW_LOOP", "FLOW_LOOP"} # {} => stage \in Asked
    /\ "KILL" \in s => stage = "kill" \/ stage \in Killed
    /\ t \in FlowWorkers /\ "RUNNING_DONE" \in s => "KILL" \in s

Fits(t, p, k, q, s) == PlaceOk(t, p, k, q, s) /\ LiveOk(t, k, q, s) /\ AskedOk(t, s)

ThreadOk(t) == Fits(t, tpc[t], pkt[t], pq[t], flags[t])

\* A flow with a thread has one that runs; a thread between two queues holds flows.
FlowOk(f) ==
    /\ \A t \in Thread : /\ \A q \in Queues : loc[f] = <<q, t>> => tpc[t] # "off"
                         /\ loc[f] = <<"injected", t>> => tpc[t] = "append"
                         /\ loc[f] = <<"hand", t>> => tpc[t] = "work"
    /\ owner[f] = None <=> loc[f] = Spare \/ f \notin Tcp
    /\ owner[f] # None => tpc[owner[f]] # "off"

\* The main thread adds a packet to a queue only after it saw it empty.
Room(t) ==
    /\ Len(pq[t]) + wire <= MaxLive + 1
    /\ Looking /\ step # "packets" /\ tvs[idx] = t => Len(pq[t]) + wire <= MaxLive

RecyclerOk ==
    /\ busy = IF rpc \in {"extract", "flag", "log"} THEN 1 ELSE 0
    /\ bail \/ rpc = "end" => "KILL" \in flags[FR]
    /\ rpc = "end" <=> "RUNNING_DONE" \in flags[FR]
    /\ "KILL" \in flags[FR] => stage \in NoRecycle
    /\ \A f \in Flow : loc[f] = Listed => rpc \in {"flag", "log"}

\* A thread with nothing to come to its work queue, and nothing on it that it leaves there.
WorkLeft(t) == \A f \in Flow : loc[f] = <<"work", t>> => tpc[t] = "work"
Settled(t) == WorkLeft(t) /\ \A f \in Flow : loc[f] # <<"queue", t>>

InLoop(t) == tpc[t] = "off" \/ "FLOW_LOOP" \in flags[t]
OutOfLoop(t) == tpc[t] = "off" \/ "RUNNING_DONE" \in flags[t]

\* What each part of PostRunDeinit can rely on.
PhaseAt(s) ==
    /\ s \in NoManager => "RUNNING_DONE" \in flags[FM]
    /\ s \in NoCapture => \A t \in Receive : InLoop(t)
    /\ s \in {"drain2", "drain3"} => \A t \in Thread : NoLive(pq[t])
    /\ s \in {"validate1", "flowloop", "cleanup"} \cup Drained => \A t \in Thread : pq[t] = <<>>
    /\ s \in Looping => \A t \in Thread : InLoop(t)
    /\ s \in Forced => \A f \in Needs : loc[f] # InHash
    /\ s \in Drained => \A t \in FlowWorkers : Settled(t)
    /\ s \in Killed => \A t \in Thread : OutOfLoop(t)
    /\ s \in NoHash => \A f \in Flow : loc[f] # InHash /\ loc[f] # Evicted
    /\ s \in NoRecycle => \A f \in Flow : loc[f] # Recycle
    /\ s \in Freed => "RUNNING_DONE" \in flags[FR]

Phase == PhaseAt(stage)

\* What the main thread has seen of the threads it has passed in this part.
Passed(s, t) ==
    /\ s = "receive" /\ t \in Receive => InLoop(t)
    /\ s \in {"drain1", "drain2", "drain3"} => pq[t] = <<>>
    /\ s = "flowloop" => InLoop(t)
    /\ s = "drain3" /\ t \in FlowWorkers => Settled(t)
    /\ s = "kill" => OutOfLoop(t)

\* What it has seen of the thread it looks at.
Seen(s, w, t) ==
    /\ s \in {"drain1", "drain2", "drain3"} /\ w # "packets" => pq[t] = <<>>
    /\ s = "drain3" /\ w = "qlen" => WorkLeft(t)

ScanAt(s, i, w) ==
    \A j \in 1..Len(tvs) : (j < i => Passed(s, tvs[j])) /\ (j = i => Seen(s, w, tvs[j]))

Scan == ScanAt(stage, idx, step)

Position ==
    /\ stage \in Stages /\ step \in {"packets", "work", "qlen"} /\ idx \in Nat
    /\ tvs \in Seq(Thread)
    /\ stage # "done" => tvs \in Setups
    /\ stage = "done" => tvs = <<>>
    /\ stage # "done" => \A t \in Thread : tpc[t] # "off" <=> \E j \in 1..Len(tvs) : tvs[j] = t
    /\ step # "packets" => Looking \/ (stage = "recwait" /\ step = "qlen")
    /\ Looking /\ step # "packets" =>
          tvs[idx] \in FlowWorkers /\ (stage = "receive" => tvs[idx] \in Receive)
    /\ stage \in Scanning => idx \in 1..Len(tvs)
    /\ stage = "killmgmt" => idx \in 1..2

IInv ==
    /\ Types /\ Position /\ RecyclerOk /\ Phase /\ Scan
    /\ \A t \in Thread : ThreadOk(t) /\ Room(t)
    /\ \A f \in Flow : FlowOk(f)

-----------------------------------------------------------------------------
(* Queues and places. *)

LEMMA Consts ==
    /\ Receive \subseteq Thread /\ FlowWorkers \subseteq Thread /\ Thread \subseteq Receive \cup FlowWorkers
    /\ Thread \subseteq All /\ FM \in All /\ FR \in All /\ FM \notin Thread /\ FR \notin Thread /\ FM # FR
    /\ None \notin Thread /\ None \notin {"live", "flush", "timeout"}
    /\ Needs \subseteq Tcp /\ Tcp \subseteq Flow /\ MaxLive \in Nat /\ MaxWork \in Nat \ {0}
  BY ShutdownAssumption, Zenon DEF All, FM, FR

\* The places of flows are different.
LEMMA Places ==
    /\ \A t : <<"queue", t>> \notin {InHash, Evicted, Recycle, Listed, Spare}
              /\ <<"injected", t>> \notin {InHash, Evicted, Recycle, Listed, Spare}
              /\ <<"work", t>> \notin {InHash, Evicted, Recycle, Listed, Spare}
              /\ <<"hand", t>> \notin {InHash, Evicted, Recycle, Listed, Spare}
    /\ \A t, u : /\ <<"queue", t>> # <<"injected", u>> /\ <<"queue", t>> # <<"work", u>>
                 /\ <<"queue", t>> # <<"hand", u>> /\ <<"injected", t>> # <<"work", u>>
                 /\ <<"injected", t>> # <<"hand", u>> /\ <<"work", t>> # <<"hand", u>>
    /\ \A t, u, q : <<q, t>> = <<q, u>> => t = u
    /\ InHash # Evicted /\ InHash # Recycle /\ InHash # Listed /\ InHash # Spare
    /\ Evicted # Recycle /\ Evicted # Listed /\ Evicted # Spare
    /\ Recycle # Listed /\ Recycle # Spare /\ Listed # Spare
  BY Zenon DEF InHash, Evicted, Recycle, Listed, Spare

LEMMA QueueTail ==
    ASSUME NEW q \in Seq({"live", "flush"}), q # <<>>
    PROVE  /\ Tail(q) \in Seq({"live", "flush"}) /\ Len(Tail(q)) = Len(q) - 1 /\ Len(q) \in Nat
           /\ Head(q) \in {"live", "flush"}
           /\ NoLive(q) => NoLive(Tail(q)) /\ Head(q) = "flush"
  BY DEF NoLive

LEMMA QueueAppend ==
    ASSUME NEW q \in Seq({"live", "flush"}), NEW p \in {"live", "flush"}
    PROVE  /\ Append(q, p) \in Seq({"live", "flush"}) /\ Len(Append(q, p)) = Len(q) + 1 /\ Len(q) \in Nat
           /\ NoLive(q) /\ p = "flush" => NoLive(Append(q, p))
  BY DEF NoLive

LEMMA QueueEmpty == NoLive(<<>>) /\ Len(<<>>) = 0
  BY DEF NoLive

-----------------------------------------------------------------------------
(* Steps that leave the main thread where it is. *)

\* What the other threads leave as the main thread has seen it.
Keeps ==
    /\ UNCHANGED <<tvs, stage, idx, step>>
    /\ \A u \in Thread :
          /\ tpc'[u] = "off" <=> tpc[u] = "off"
          /\ (InLoop(u) => InLoop(u)') /\ (OutOfLoop(u) => OutOfLoop(u)')
          /\ Len(pq'[u]) + wire' <= Len(pq[u]) + wire
          /\ stage \in NoCapture => (pq[u] = <<>> => pq'[u] = <<>>) /\ (NoLive(pq[u]) => NoLive(pq'[u]))
          /\ stage \in Forced => (WorkLeft(u) => WorkLeft(u)') /\ (Settled(u) => Settled(u)')
    /\ \A f \in Flow :
          /\ stage \in Forced /\ f \in Needs /\ loc[f] # InHash => loc'[f] # InHash
          /\ stage \in NoHash /\ loc[f] # InHash /\ loc[f] # Evicted => loc'[f] # InHash /\ loc'[f] # Evicted
          /\ stage \in NoRecycle /\ loc[f] # Recycle => loc'[f] # Recycle
    /\ \A m \in {FM, FR} : "RUNNING_DONE" \in flags[m] => "RUNNING_DONE" \in flags'[m]

LEMMA StageSets ==
    /\ Freed \subseteq NoRecycle /\ NoRecycle \subseteq NoHash /\ NoHash \subseteq Killed
    /\ Killed \subseteq Drained /\ Drained \subseteq Forced /\ Forced \subseteq Looping
    /\ Looping \subseteq Asked /\ Asked \subseteq NoCapture /\ NoCapture \subseteq NoManager
    /\ "drain1" \in NoCapture /\ "drain2" \in NoCapture /\ "validate1" \in NoCapture
    /\ "flowloop" \in Asked /\ "cleanup" \in Looping /\ "drain3" \in Forced
    /\ "kill" \in Drained /\ "recwait" \in NoHash
    /\ "kill" \notin Killed /\ "cleanup" \notin Forced /\ "drain3" \notin Drained
    /\ "hash" \in Killed /\ "hash" \notin NoHash /\ "run" \notin NoManager /\ "fmwait" \notin NoManager
    /\ "receive" \notin NoCapture /\ "recwait" \notin NoRecycle
  BY Zenon DEF Freed, NoRecycle, NoHash, Killed, Drained, Forced, Looping, Asked, NoCapture, NoManager

LEMMA KeepsPhase ==
    ASSUME IInv, Keeps
    PROVE  Phase'
<1>1. stage' = stage
  BY Zenon DEF Keeps
<1>2. stage \in NoManager => "RUNNING_DONE" \in flags'[FM]
  BY Zenon DEF IInv, Phase, PhaseAt, Keeps
<1>3. stage \in NoCapture => \A t \in Receive : InLoop(t)'
  BY Consts, Zenon DEF IInv, Phase, PhaseAt, Keeps
<1>4. stage \in {"drain2", "drain3"} => \A t \in Thread : NoLive(pq'[t])
  BY StageSets, Zenon DEF IInv, Phase, PhaseAt, Keeps
<1>5. stage \in {"validate1", "flowloop", "cleanup"} \cup Drained => \A t \in Thread : pq'[t] = <<>>
  BY StageSets, Zenon DEF IInv, Phase, PhaseAt, Keeps
<1>6. stage \in Looping => \A t \in Thread : InLoop(t)'
  BY Zenon DEF IInv, Phase, PhaseAt, Keeps
<1>7. stage \in Forced => \A f \in Needs : loc'[f] # InHash
  BY Consts, Zenon DEF IInv, Phase, PhaseAt, Keeps
<1>8. stage \in Drained => \A t \in FlowWorkers : Settled(t)'
  BY StageSets, Consts, Zenon DEF IInv, Phase, PhaseAt, Keeps
<1>9. stage \in Killed => \A t \in Thread : OutOfLoop(t)'
  BY Zenon DEF IInv, Phase, PhaseAt, Keeps
<1>10. stage \in NoHash => \A f \in Flow : loc'[f] # InHash /\ loc'[f] # Evicted
  BY Zenon DEF IInv, Phase, PhaseAt, Keeps
<1>11. stage \in NoRecycle => \A f \in Flow : loc'[f] # Recycle
  BY Zenon DEF IInv, Phase, PhaseAt, Keeps
<1>12. stage \in Freed => "RUNNING_DONE" \in flags'[FR]
  BY Zenon DEF IInv, Phase, PhaseAt, Keeps
<1>. QED
  BY <1>1, <1>2, <1>3, <1>4, <1>5, <1>6, <1>7, <1>8, <1>9, <1>10, <1>11, <1>12 DEF Phase, PhaseAt

LEMMA KeepsScan ==
    ASSUME IInv, Keeps
    PROVE  Scan'
<1>. SUFFICES ASSUME NEW j \in 1..Len(tvs)
              PROVE  (j < idx => Passed(stage, tvs[j])') /\ (j = idx => Seen(stage, step, tvs[j])')
  BY Zenon DEF Scan, ScanAt, Keeps
<1>1. tvs[j] \in Thread
  BY DEF IInv, Position
<1>2. stage \in {"drain1", "drain2", "drain3"} => stage \in NoCapture
  BY StageSets, Zenon
<1>3. stage = "drain3" => stage \in Forced
  BY StageSets, Zenon
<1>4. ASSUME j < idx PROVE Passed(stage, tvs[j])'
  BY <1>4, <1>1, <1>2, <1>3, Zenon DEF IInv, Scan, ScanAt, Passed, Keeps
<1>5. ASSUME j = idx PROVE Seen(stage, step, tvs[j])'
  BY <1>5, <1>1, <1>2, <1>3, Zenon DEF IInv, Scan, ScanAt, Seen, Keeps
<1>. QED
  BY <1>4, <1>5, Zenon

LEMMA KeepsRoom ==
    ASSUME IInv, Keeps, Types', NEW t \in Thread
    PROVE  Room(t)'
<1>1. Room(t) /\ Len(pq'[t]) + wire' <= Len(pq[t]) + wire
  BY Zenon DEF IInv, Keeps
<1>2. Len(pq[t]) \in Nat /\ Len(pq'[t]) \in Nat /\ wire \in Nat /\ wire' \in Nat /\ MaxLive \in Nat
  BY Consts DEF IInv, Types
<1>3. Len(pq'[t]) + wire' <= MaxLive + 1
  BY <1>1, <1>2 DEF Room
<1>4. ASSUME Looking, step # "packets", tvs[idx] = t PROVE Len(pq'[t]) + wire' <= MaxLive
  BY <1>1, <1>4, <1>2 DEF Room
<1>. QED
  BY <1>3, <1>4, Zenon DEF Room, Looking, Keeps

LEMMA KeepsPosition ==
    ASSUME IInv, Keeps
    PROVE  Position'
  BY Zenon DEF IInv, Position, Looking, Keeps

-----------------------------------------------------------------------------
(* Steps of a packet thread. *)

\* What a step of t does to a flow: nothing, or on to the next place.
FlowMove(t, f) ==
    \/ loc'[f] = loc[f] /\ owner'[f] = owner[f]
    \/ /\ tpc[t] = "flow" /\ loc[f] = InHash /\ loc'[f] \in {<<"work", t>>, Evicted}
       /\ owner'[f] = owner[f]
    \/ /\ tpc[t] = "flow" /\ loc[f] = Spare /\ loc'[f] = InHash
       /\ owner'[f] = IF f \in Tcp THEN t ELSE owner[f]
    \/ /\ loc[f] = <<"queue", t>> /\ loc'[f] = <<"injected", t>> /\ tpc'[t] = "append"
       /\ owner'[f] = owner[f]
    \/ /\ loc[f] = <<"injected", t>> /\ loc'[f] = <<"work", t>> /\ tpc'[t] = "work"
       /\ owner'[f] = owner[f]
    \/ /\ loc[f] = <<"work", t>> /\ loc'[f] = <<"hand", t>> /\ tpc'[t] = "work"
       /\ owner'[f] = owner[f]
    \/ loc[f] = <<"hand", t>> /\ loc'[f] = Spare /\ owner'[f] = None

\* The other threads are left alone.
Others(t) ==
    /\ UNCHANGED <<tvs, rpc, busy, bail, stage, idx, step>>
    /\ \A u \in All \ {t} : flags'[u] = flags[u]
    /\ \A u \in Thread \ {t} : pq'[u] = pq[u] /\ tpc'[u] = tpc[u] /\ pkt'[u] = pkt[u]

\* What the step does to the thread itself.
Self(t) ==
    /\ ThreadOk(t)'
    /\ tpc[t] # "off" /\ tpc'[t] # "off" /\ flags[t] \subseteq flags'[t]
    /\ wire' <= wire
    /\ pq'[t] = pq[t] \/ (pq[t] # <<>> /\ pq'[t] = Tail(pq[t]))

\* What it leaves behind where it was.
Leaves(t) ==
    /\ tpc[t] = "append" /\ tpc'[t] # "append" => \A f \in Flow : loc'[f] # <<"injected", t>>
    /\ tpc[t] = "work" /\ tpc'[t] # "work" =>
          \A f \in Flow : /\ loc'[f] # <<"hand", t>>
                          /\ pkt[t] # "live" => loc'[f] # <<"work", t>>

Own(t) == Types' /\ Others(t) /\ Self(t) /\ Leaves(t) /\ \A f \in Flow : FlowMove(t, f)

LEMMA OwnKeeps ==
    ASSUME IInv, NEW t \in Thread, Own(t)
    PROVE  Keeps
<1>1. \A u \in Thread : u # t => pq'[u] = pq[u] /\ tpc'[u] = tpc[u] /\ flags'[u] = flags[u]
  BY Consts, Zenon DEF Own, Others
<1>2. stage \in Looping => tpc[t] # "flow" /\ pkt[t] # "live"
  <2>1. ThreadOk(t) /\ (stage \in Looping => InLoop(t)) /\ tpc[t] # "off"
    BY Zenon DEF IInv, Phase, PhaseAt, Own, Self
  <2>. QED
    BY <2>1, Zenon DEF ThreadOk, Fits, PlaceOk, LiveOk, InLoop
<1>3. ASSUME NEW u \in Thread
      PROVE  /\ tpc'[u] = "off" <=> tpc[u] = "off"
             /\ (InLoop(u) => InLoop(u)') /\ (OutOfLoop(u) => OutOfLoop(u)')
  BY <1>1, Zenon DEF InLoop, OutOfLoop, Own, Self
<1>4. ASSUME NEW u \in Thread
      PROVE  /\ Len(pq'[u]) + wire' <= Len(pq[u]) + wire
             /\ pq[u] = <<>> => pq'[u] = <<>>
             /\ NoLive(pq[u]) => NoLive(pq'[u])
  <2>1. pq[u] \in Seq({"live", "flush"}) /\ wire \in Nat /\ wire' \in Nat /\ wire' <= wire
    BY Zenon DEF IInv, Types, Own, Self
  <2>2. CASE pq'[u] = pq[u]
    BY <2>1, <2>2
  <2>3. CASE pq[u] # <<>> /\ pq'[u] = Tail(pq[u])
    BY <2>1, <2>3, QueueTail
  <2>. QED
    BY <1>1, <2>2, <2>3, Zenon DEF Own, Self
<1>5. ASSUME NEW u \in Thread, stage \in Forced, WorkLeft(u) PROVE WorkLeft(u)'
  <2>. SUFFICES ASSUME NEW f \in Flow, loc'[f] = <<"work", u>> PROVE tpc'[u] = "work"
    BY Zenon DEF WorkLeft
  <2>1. CASE loc[f] = <<"work", u>>
    BY <2>1, <1>5, <1>1, <1>2, StageSets, Zenon DEF WorkLeft, Own, Leaves
  <2>. QED
    BY <1>2, StageSets, <1>5, Places, <2>1, Zenon DEF FlowMove, Own
<1>6. ASSUME NEW u \in Thread, stage \in Forced, Settled(u) PROVE Settled(u)'
  BY <1>6, <1>5, Places, Zenon DEF Settled, Own, FlowMove
<1>7. ASSUME NEW f \in Flow
      PROVE  /\ stage \in Forced /\ f \in Needs /\ loc[f] # InHash => loc'[f] # InHash
             /\ stage \in NoHash /\ loc[f] # InHash /\ loc[f] # Evicted => loc'[f] # InHash /\ loc'[f] # Evicted
             /\ stage \in NoRecycle /\ loc[f] # Recycle => loc'[f] # Recycle
  BY Places, <1>2, StageSets, Zenon DEF Own, FlowMove
<1>8. \A m \in {FM, FR} : flags'[m] = flags[m]
  BY Consts DEF Own, Others
<1>. QED
  BY <1>3, <1>4, <1>5, <1>6, <1>7, <1>8, Zenon DEF Keeps, Own, Others

LEMMA OwnFlows ==
    ASSUME IInv, NEW t \in Thread, Own(t), NEW f \in Flow
    PROVE  FlowOk(f)'
<1>1. FlowOk(f) /\ FlowMove(t, f) /\ ThreadOk(t)
  BY Zenon DEF IInv, Own
<1>2. \A u \in Thread : u # t => tpc'[u] = tpc[u]
  BY Zenon DEF Own, Others
<1>3. tpc[t] # "off" /\ tpc'[t] # "off"
  BY Zenon DEF Own, Self
<1>4. ASSUME NEW u \in Thread, NEW q \in Queues, loc'[f] = <<q, u>> PROVE tpc'[u] # "off"
  <2>1. CASE loc[f] = <<q, u>>
    BY <2>1, <1>1, <1>2, <1>3, Zenon DEF FlowOk
  <2>2. CASE loc[f] # <<q, u>>
    <3>1. \E p \in Queues : loc'[f] = <<p, t>>
      BY <2>2, <1>1, <1>4, Places, Zenon DEF FlowMove, Queues
    <3>. QED
      BY <3>1, <1>4, <1>3
  <2>. QED
    BY <2>1, <2>2, Zenon
<1>5. ASSUME NEW u \in Thread, loc'[f] = <<"injected", u>> PROVE tpc'[u] = "append"
  <2>1. CASE loc[f] = <<"injected", u>>
    BY <1>1, <2>1, <1>5, <1>2, Zenon DEF FlowOk, Own, Leaves
  <2>. QED
    BY <1>1, <1>5, Places, <2>1 DEF FlowMove
<1>6. ASSUME NEW u \in Thread, loc'[f] = <<"hand", u>> PROVE tpc'[u] = "work"
  <2>1. CASE loc[f] = <<"hand", u>>
    BY <1>1, <2>1, <1>6, <1>2, Zenon DEF FlowOk, Own, Leaves
  <2>. QED
    BY <1>1, <1>6, Places, <2>1 DEF FlowMove
<1>7. owner'[f] = None <=> loc'[f] = Spare \/ f \notin Tcp
  BY <1>1, Consts, Places, Zenon DEF FlowOk, FlowMove
<1>8. owner[f] \in Thread \cup {None}
  BY Consts, Zenon DEF IInv, Types
<1>9. owner'[f] # None => tpc'[owner'[f]] # "off"
  BY <1>1, <1>3, <1>2, <1>8, Zenon DEF FlowOk, FlowMove
<1>. QED
  BY <1>4, <1>5, <1>6, <1>7, <1>9, Zenon DEF FlowOk

LEMMA OwnStep ==
    ASSUME IInv, NEW t \in Thread, Own(t)
    PROVE  IInv'
<1>1. Position' /\ Phase' /\ Scan' /\ \A u \in Thread : Room(u)'
  BY OwnKeeps, KeepsPosition, KeepsPhase, KeepsScan, KeepsRoom, Zenon DEF Own
<1>2. RecyclerOk'
  <2>1. \A f \in Flow : loc'[f] = Listed => loc[f] = Listed
    BY Places, Zenon DEF Own, FlowMove
  <2>. QED
    BY Consts, <2>1, Zenon DEF IInv, RecyclerOk, Own, Others
<1>3. ASSUME NEW u \in Thread PROVE ThreadOk(u)'
  BY Consts, Zenon DEF Own, Self, Others, IInv, ThreadOk, Fits, AskedOk
<1>. QED
  BY OwnKeeps, <1>1, OwnFlows, <1>2, <1>3, Zenon DEF IInv, Own

\* A step of the thread to place p with packet k, queue q and flags s.
At(t, p, k, q, s) ==
    /\ tpc' = [tpc EXCEPT ![t] = p] /\ pkt' = [pkt EXCEPT ![t] = k]
    /\ pq' = [pq EXCEPT ![t] = q] /\ flags' = [flags EXCEPT ![t] = s]
    /\ UNCHANGED <<tvs, rpc, busy, bail, stage, idx, step>>

\* It keeps the invariant of the thread.
Good(t, p, k, q, s) ==
    /\ p \in Place \ {"off"} /\ k \in {None, "live", "flush", "timeout"} /\ s \subseteq Flags
    /\ tpc[t] # "off" /\ flags[t] \subseteq s
    /\ q = pq[t] \/ (pq[t] # <<>> /\ q = Tail(pq[t]))
    /\ Fits(t, p, k, q, s)

LEMMA SameAt ==
    ASSUME IInv, NEW t \in Thread
    PROVE  /\ tpc = [tpc EXCEPT ![t] = tpc[t]] /\ pkt = [pkt EXCEPT ![t] = pkt[t]]
           /\ pq = [pq EXCEPT ![t] = pq[t]] /\ flags = [flags EXCEPT ![t] = flags[t]]
           /\ tpc[t] \in Place /\ pkt[t] \in {None, "live", "flush", "timeout"}
           /\ pq[t] \in Seq({"live", "flush"}) /\ flags[t] \subseteq Flags /\ t \in All
           /\ Fits(t, tpc[t], pkt[t], pq[t], flags[t])
  BY Consts, Zenon DEF IInv, Types, ThreadOk

LEMMA Local ==
    ASSUME IInv, NEW t \in Thread, NEW p, NEW k, NEW q, NEW s, At(t, p, k, q, s), Good(t, p, k, q, s),
           work' \in [Thread -> 0..MaxWork], loc' \in [Flow -> Loc],
           owner' \in [Flow -> FlowWorkers \cup {None}], wire' \in Nat, wire' <= wire
    PROVE  Types' /\ Others(t) /\ Self(t) /\ tpc'[t] = p
<1>1. t \in All /\ pq[t] \in Seq({"live", "flush"})
  BY Consts, Zenon DEF IInv, Types
<1>2. Types'
  <2>1. wire' <= MaxLive
    BY Consts DEF IInv, Types
  <2>. QED
    BY <1>1, QueueTail, <2>1, Zenon DEF At, Good, IInv, Types
<1>3. Others(t)
  BY Consts, Zenon DEF At, IInv, Types, Others
<1>4. ThreadOk(t)'
  BY <1>1, Zenon DEF ThreadOk, Fits, AskedOk, At, Good, IInv, Types
<1>. QED
  BY <1>1, <1>2, <1>3, <1>4, Zenon DEF Self, Good, At, IInv, Types

LEMMA Quiet ==
    ASSUME IInv, NEW t \in Thread, UNCHANGED flows, tpc[t] \notin {"append", "work"}
    PROVE  Leaves(t) /\ (\A f \in Flow : FlowMove(t, f))
           /\ loc' \in [Flow -> Loc] /\ owner' \in [Flow -> FlowWorkers \cup {None}]
  BY Zenon DEF Leaves, FlowMove, IInv, Types, flows

\* A thread at work is one of the flow workers.
LEMMA AtWork ==
    ASSUME IInv, NEW t \in Thread, tpc[t] \in WithPacket \cup {"handle", "in", "wait", "woken"}
    PROVE  t \in FlowWorkers
  BY SameAt, Zenon DEF Fits, PlaceOk, WithPacket

LEMMA QuietLocal ==
    ASSUME IInv, NEW t \in Thread, NEW p, NEW k, NEW q, NEW s, At(t, p, k, q, s), Good(t, p, k, q, s),
           UNCHANGED <<work, flows, wire>>, tpc[t] \notin {"append", "work"}
    PROVE  Own(t)
<1>1. work' \in [Thread -> 0..MaxWork] /\ wire' \in Nat /\ wire' <= wire
  BY DEF IInv, Types
<1>. QED
  BY Quiet, <1>1, Local, Zenon DEF Own

LEMMA AskedNoLive ==
    ASSUME IInv, NEW t \in Thread, stage \in Asked
    PROVE  NoLive(pq[t])
  BY QueueEmpty, Zenon DEF Asked, Looping, Forced, IInv, Phase, PhaseAt

\* The next packet of the queue, for a thread that may take one.
LEMMA DequeueFits ==
    ASSUME IInv, NEW t \in Thread, pq[t] # <<>>, t \in FlowWorkers,
           tpc[t] \in {"in", "woken", "handle", "loop"}, "RUNNING_DONE" \notin flags[t],
           Dequeue(t), UNCHANGED <<tvs, flags, work, flows, wire, recycler, main>>
    PROVE  Own(t)
<1>. DEFINE k == Head(pq[t])
            p == IF k = "live" THEN "flow" ELSE "inject"
<1>1. At(t, p, k, Tail(pq[t]), flags[t])
  BY SameAt, Zenon DEF At, Dequeue, Process, recycler, main
<1>2. Fits(t, p, k, Tail(pq[t]), flags[t])
  BY SameAt, QueueTail, Consts, AskedNoLive, Zenon DEF Fits, PlaceOk, WithPacket, LiveOk, AskedOk
<1>. QED
  <2>1. p \in Place /\ p # "off"
    BY Zenon DEF Place, WithPacket
  <2>2. k \in {None, "live", "flush", "timeout"} /\ tpc[t] # "off"
    BY SameAt, QueueTail, Zenon
  <2>. HIDE DEF p, k
  <2>. QED
    BY <1>1, <1>2, <2>1, <2>2, SameAt, QuietLocal, Zenon DEF Good

LEMMA CaptureTimeoutOwn ==
    ASSUME IInv, NEW t \in Thread, CaptureTimeout(t)
    PROVE  Own(t)
<1>1. CASE pq[t] # <<>>
  <2>1. At(t, "handle", pkt[t], pq[t], flags[t])
    BY <1>1, SameAt, Zenon DEF CaptureTimeout, At, recycler, main
  <2>. QED
    BY <2>1, SameAt, QuietLocal, Zenon DEF Good, Fits, PlaceOk, Place, WithPacket, CaptureTimeout
<1>2. CASE pq[t] = <<>>
  <2>1. At(t, "inject", "timeout", pq[t], flags[t])
    BY <1>2, SameAt, Zenon DEF CaptureTimeout, Process, At, recycler, main
  <2>. QED
    BY <2>1, SameAt, Consts, QuietLocal, Zenon DEF Good, Fits, PlaceOk, LiveOk, Place, WithPacket,
       CaptureTimeout
<1>. QED
  BY <1>1, <1>2

LEMMA CaptureEndOwn ==
    ASSUME IInv, NEW t \in Thread, CaptureEnd(t)
    PROVE  Own(t)
<1>. DEFINE s == flags[t] \cup {"FLOW_LOOP"}
<1>1. At(t, "loop", pkt[t], pq[t], s)
  BY SameAt, Zenon DEF CaptureEnd, LoopFinish, SetFlags, At, recycler, main
<1>2. Good(t, "loop", pkt[t], pq[t], s)
  BY SameAt, Consts, Zenon DEF Fits, PlaceOk, WithPacket, LiveOk, AskedOk, Good, Place, Flags, CaptureEnd
<1>. QED
  <2>. HIDE DEF s
  <2>. QED
    BY <1>1, <1>2, QuietLocal, Zenon DEF CaptureEnd

\* The end of the loop of TmThreadsSlotVar, after a wait or a packet.
LEMMA CheckRunGood ==
    ASSUME IInv, NEW t \in Thread, tpc[t] \in {"woken", "work"}, t \notin Receive,
           "FLOW_LOOP" \notin flags[t], CheckRun(t), pkt' = [pkt EXCEPT ![t] = None], pq' = pq,
           UNCHANGED <<tvs, recycler, main>>
    PROVE  \E p, s : At(t, p, None, pq[t], s) /\ Good(t, p, None, pq[t], s) /\ p # "work"
<1>1. CASE flags[t] \cap {"KILL", "REQ_FLOW_LOOP"} # {}
  <2>. DEFINE s == flags[t] \cup {"FLOW_LOOP"}
  <2>1. Good(t, "loop", None, pq[t], s)
    BY SameAt, Consts, <1>1, Zenon DEF Good, Fits, Place, Flags, PlaceOk, WithPacket, LiveOk, AskedOk
  <2>. QED
    BY <1>1, SameAt, <2>1, Zenon DEF CheckRun, LoopFinish, SetFlags, At, recycler, main
<1>2. CASE flags[t] \cap {"KILL", "REQ_FLOW_LOOP"} = {}
  <2>1. Good(t, "in", None, pq[t], flags[t])
    BY AtWork, SameAt, Consts, Zenon DEF Good, Fits, Place, PlaceOk, WithPacket, LiveOk
  <2>. QED
    BY <1>2, SameAt, <2>1, Zenon DEF CheckRun, At, recycler, main
<1>. QED
  BY <1>1, <1>2, Zenon

LEMMA InputOwn ==
    ASSUME IInv, NEW t \in Thread, Input(t)
    PROVE  Own(t)
<1>1. UNCHANGED <<work, flows, wire>> /\ tpc[t] \in {"in", "woken"}
  BY Zenon DEF Input
<1>2. t \in FlowWorkers /\ t \notin Receive /\ "FLOW_LOOP" \notin flags[t] /\ "RUNNING_DONE" \notin flags[t]
      /\ pkt[t] = None
  BY <1>1, SameAt, Zenon DEF Fits, PlaceOk, WithPacket
<1>3. CASE pq[t] # <<>>
  BY <1>3, <1>1, <1>2, DequeueFits, Zenon DEF Input
<1>4. CASE tpc[t] = "in" /\ pq[t] = <<>>
  <2>1. At(t, "wait", pkt[t], pq[t], flags[t])
    BY <1>4, SameAt, Zenon DEF Input, At, recycler, main
  <2>2. Good(t, "wait", pkt[t], pq[t], flags[t])
    BY <1>1, <1>2, SameAt, Zenon DEF Good, Fits, PlaceOk, Place, WithPacket
  <2>. QED
    BY <1>1, <2>1, <2>2, QuietLocal, Zenon
<1>5. CASE tpc[t] = "woken" /\ pq[t] = <<>> /\ In("queue", t) # {}
  <2>1. At(t, "inject", "timeout", pq[t], flags[t])
    BY <1>5, SameAt, Zenon DEF Input, Process, At, recycler, main
  <2>. QED
    BY <1>1, <2>1, <1>2, SameAt, Consts, QuietLocal, Zenon DEF Good, Fits, PlaceOk, LiveOk, Place, WithPacket
<1>6. CASE tpc[t] = "woken" /\ pq[t] = <<>> /\ In("queue", t) = {}
  BY <1>6, <1>2, SameAt, CheckRunGood, <1>1, QuietLocal, Zenon DEF Input
<1>. QED
  BY <1>1, <1>3, <1>4, <1>5, <1>6, Zenon

LEMMA ReceiveOwnOwn ==
    ASSUME IInv, NEW t \in Thread, ReceiveOwn(t)
    PROVE  Own(t)
<1>1. At(t, "flow", "live", pq[t], flags[t])
  BY SameAt, Zenon DEF ReceiveOwn, Process, At, recycler, main
<1>2. Good(t, "flow", "live", pq[t], flags[t])
  BY SameAt, Consts, Zenon DEF Good, Fits, PlaceOk, LiveOk, Place, WithPacket, ReceiveOwn
<1>3. work' \in [Thread -> 0..MaxWork] /\ wire' \in Nat /\ wire' <= wire
  BY DEF IInv, Types, ReceiveOwn
<1>. QED
  BY Quiet, <1>1, <1>2, <1>3, Local, Zenon DEF Own, ReceiveOwn

LEMMA LookupDoneOwn ==
    ASSUME IInv, NEW t \in Thread, LookupDone(t)
    PROVE  Own(t)
<1>1. At(t, "inject", pkt[t], pq[t], flags[t])
  BY SameAt, Zenon DEF LookupDone, At, recycler, main
<1>2. Good(t, "inject", pkt[t], pq[t], flags[t])
  BY SameAt, Zenon DEF Good, Fits, PlaceOk, Place, WithPacket, LookupDone
<1>. QED
  BY <1>1, <1>2, QuietLocal, Zenon DEF LookupDone

LEMMA HandleInjectedOwn ==
    ASSUME IInv, NEW t \in Thread, HandleInjected(t)
    PROVE  Own(t)
<1>1. UNCHANGED <<work, flows, wire>> /\ tpc[t] = "handle" /\ t \in FlowWorkers
  BY AtWork, Zenon DEF HandleInjected
<1>2. CASE pq[t] # <<>>
  BY <1>2, <1>1, SameAt, DequeueFits, Zenon DEF HandleInjected, Fits, PlaceOk, WithPacket
<1>3. CASE pq[t] = <<>>
  <2>. DEFINE p == IF "FLOW_LOOP" \in flags[t] THEN "loop" ELSE "acq"
  <2>1. At(t, p, pkt[t], pq[t], flags[t])
    BY <1>3, SameAt, Zenon DEF HandleInjected, At, recycler, main
  <2>2. Good(t, p, pkt[t], pq[t], flags[t])
    BY <1>1, SameAt, Zenon DEF Good, Fits, PlaceOk, Place, WithPacket
  <2>. HIDE DEF p
  <2>. QED
    BY <1>1, <2>1, <2>2, QuietLocal, Zenon
<1>. QED
  BY <1>2, <1>3

LEMMA TmThreadTimeoutLoopOwn ==
    ASSUME IInv, NEW t \in Thread, TmThreadTimeoutLoop(t)
    PROVE  Own(t)
<1>1. UNCHANGED <<work, flows, wire>> /\ tpc[t] = "loop"
  BY Zenon DEF TmThreadTimeoutLoop
<1>2. CASE pq[t] # <<>>
  BY <1>2, SameAt, <1>1, DequeueFits, Zenon DEF TmThreadTimeoutLoop, Fits, PlaceOk, WithPacket
<1>3. CASE pq[t] = <<>>
  <2>. DEFINE s == flags[t] \cup {"RUNNING_DONE"}
  <2>1. At(t, "done", pkt[t], pq[t], s) /\ ("KILL" \in flags[t] \/ t \notin FlowWorkers)
    BY <1>3, SameAt, Zenon DEF TmThreadTimeoutLoop, SetFlags, At, recycler, main
  <2>2. Good(t, "done", pkt[t], pq[t], s)
    BY <1>1, SameAt, <2>1, Zenon DEF Good, Fits, Place, Flags, PlaceOk, WithPacket, LiveOk, AskedOk
  <2>. HIDE DEF s
  <2>. QED
    BY <1>1, <2>1, <2>2, QuietLocal, Zenon
<1>. QED
  BY <1>2, <1>3

LEMMA DeinitOwn ==
    ASSUME IInv, NEW t \in Thread, Deinit(t)
    PROVE  Own(t)
<1>. DEFINE s == flags[t] \cup {"CLOSED"}
<1>1. At(t, "closed", pkt[t], pq[t], s)
  BY SameAt, Zenon DEF Deinit, SetFlags, At, recycler, main
<1>2. Good(t, "closed", pkt[t], pq[t], s)
  BY SameAt, Zenon DEF Good, Fits, Place, Flags, PlaceOk, WithPacket, Deinit, LiveOk, AskedOk
<1>. HIDE DEF s
<1>. QED
  BY <1>1, <1>2, QuietLocal, Zenon DEF Deinit

LEMMA Stay ==
    ASSUME IInv, NEW t \in Thread, tpc[t] # "off"
    PROVE  Good(t, tpc[t], pkt[t], pq[t], flags[t])
  BY SameAt, Zenon DEF Good

LEMMA LookupEvictOwn ==
    ASSUME IInv, NEW t \in Thread, NEW f \in Flow, LookupEvict(t, f)
    PROVE  Own(t)
<1>1. tpc[t] = "flow" /\ loc[f] = InHash /\ UNCHANGED <<work, wire, owner>>
  BY Zenon DEF LookupEvict, threads
<1>2. loc'[f] \in {<<"work", t>>, Evicted} /\ (\A g \in Flow : g # f => loc'[g] = loc[g])
      /\ loc' \in [Flow -> Loc]
  BY <1>1, AtWork, Zenon DEF LookupEvict, Loc, Queues, IInv, Types, WithPacket
<1>3. At(t, tpc[t], pkt[t], pq[t], flags[t])
  BY SameAt, Zenon DEF LookupEvict, threads, At, recycler, main
<1>4. work' \in [Thread -> 0..MaxWork] /\ wire' \in Nat /\ wire' <= wire
      /\ owner' \in [Flow -> FlowWorkers \cup {None}]
  BY <1>1 DEF IInv, Types
<1>5. Types' /\ Others(t) /\ Self(t)
  BY <1>1, <1>2, <1>3, <1>4, Stay, Local, Zenon
<1>. QED
  BY <1>5, <1>1, <1>2, Zenon DEF Own, Leaves, FlowMove

LEMMA LookupNewOwn ==
    ASSUME IInv, NEW t \in Thread, NEW f \in Flow, LookupNew(t, f)
    PROVE  Own(t)
<1>1. tpc[t] = "flow" /\ loc[f] = Spare /\ UNCHANGED <<work, wire>>
  BY Zenon DEF LookupNew
<1>2. loc'[f] = InHash /\ (\A g \in Flow : g # f => loc'[g] = loc[g]) /\ loc' \in [Flow -> Loc]
  BY Zenon DEF LookupNew, Loc, IInv, Types
<1>3. At(t, "inject", pkt[t], pq[t], flags[t])
  BY SameAt, Zenon DEF LookupNew, At, recycler, main
<1>4. Good(t, "inject", pkt[t], pq[t], flags[t])
  BY <1>1, SameAt, Zenon DEF Good, Fits, PlaceOk, Place, WithPacket
<1>5. /\ owner'[f] = IF f \in Tcp THEN t ELSE owner[f]
      /\ \A g \in Flow : g # f => owner'[g] = owner[g]
      /\ owner' \in [Flow -> FlowWorkers \cup {None}]
  BY <1>1, AtWork, Zenon DEF LookupNew, IInv, Types, WithPacket
<1>6. work' \in [Thread -> 0..MaxWork] /\ wire' \in Nat /\ wire' <= wire
  BY <1>1 DEF IInv, Types
<1>7. Types' /\ Others(t) /\ Self(t)
  BY <1>2, <1>3, <1>4, <1>5, <1>6, Local, Zenon
<1>8. ASSUME NEW g \in Flow PROVE FlowMove(t, g)
  BY <1>1, <1>2, <1>5, Zenon DEF FlowMove
<1>. QED
  BY <1>7, <1>1, <1>8, Zenon DEF Own, Leaves

LEMMA ExtractOwn ==
    ASSUME IInv, NEW t \in Thread, Extract(t)
    PROVE  Own(t)
<1>1. tpc[t] = "inject" /\ UNCHANGED <<work, wire, owner>>
  BY Zenon DEF Extract
<1>2. At(t, "append", pkt[t], pq[t], flags[t])
  BY SameAt, Zenon DEF Extract, At, recycler, main
<1>3. Good(t, "append", pkt[t], pq[t], flags[t])
  BY <1>1, SameAt, Zenon DEF Good, Fits, PlaceOk, Place, WithPacket
<1>4. work' \in [Thread -> 0..MaxWork] /\ wire' \in Nat /\ wire' <= wire
      /\ owner' \in [Flow -> FlowWorkers \cup {None}]
  BY <1>1 DEF IInv, Types
<1>5. Types' /\ Others(t) /\ Self(t) /\ tpc'[t] = "append"
  BY <1>1, AtWork, <1>2, <1>3, <1>4, Local, Zenon DEF Extract, Moved, Loc, Queues, IInv, Types, WithPacket
<1>6. ASSUME NEW g \in Flow PROVE FlowMove(t, g)
  BY <1>1, <1>5, Zenon DEF FlowMove, Extract, Moved, In
<1>. QED
  BY <1>5, <1>1, <1>6, Zenon DEF Own, Leaves

LEMMA AppendWorkOwn ==
    ASSUME IInv, NEW t \in Thread, AppendWork(t)
    PROVE  Own(t)
<1>1. tpc[t] = "append" /\ UNCHANGED <<work, wire, owner>>
  BY Zenon DEF AppendWork
<1>2. At(t, "work", pkt[t], pq[t], flags[t])
  BY SameAt, Zenon DEF AppendWork, At, recycler, main
<1>3. Good(t, "work", pkt[t], pq[t], flags[t])
  BY <1>1, SameAt, Zenon DEF Good, Fits, PlaceOk, Place, WithPacket
<1>4. work' \in [Thread -> 0..MaxWork] /\ wire' \in Nat /\ wire' <= wire
      /\ owner' \in [Flow -> FlowWorkers \cup {None}]
  BY <1>1 DEF IInv, Types
<1>5. Types' /\ Others(t) /\ Self(t) /\ tpc'[t] = "work"
  BY <1>1, AtWork, <1>2, <1>3, <1>4, Local, Zenon DEF AppendWork, Moved, Loc, Queues, IInv, Types, WithPacket
<1>6. ASSUME NEW g \in Flow PROVE FlowMove(t, g)
  BY <1>1, <1>5, Zenon DEF FlowMove, AppendWork, Moved, In
<1>. QED
  BY <1>5, <1>1, Places, <1>6, Zenon DEF Own, Leaves, AppendWork, Moved, In

LEMMA WorkTakeOwn ==
    ASSUME IInv, NEW t \in Thread, NEW f \in Flow, WorkTake(t, f)
    PROVE  Own(t)
<1>1. tpc[t] = "work" /\ loc[f] = <<"work", t>> /\ UNCHANGED <<wire, owner>> /\ tpc' = tpc
  BY Zenon DEF WorkTake
<1>2. loc'[f] = <<"hand", t>> /\ (\A g \in Flow : g # f => loc'[g] = loc[g])
      /\ loc' \in [Flow -> Loc]
  BY <1>1, AtWork, Zenon DEF WorkTake, Loc, Queues, IInv, Types, WithPacket
<1>3. At(t, tpc[t], pkt[t], pq[t], flags[t])
  BY SameAt, Zenon DEF WorkTake, At, recycler, main
<1>4. work' \in [Thread -> 0..MaxWork]
  BY Consts DEF WorkTake, IInv, Types
<1>5. wire' \in Nat /\ wire' <= wire /\ owner' \in [Flow -> FlowWorkers \cup {None}]
  BY <1>1 DEF IInv, Types
<1>6. Types' /\ Others(t) /\ Self(t)
  BY <1>1, <1>2, <1>3, <1>4, <1>5, Stay, Local, Zenon
<1>. QED
  BY <1>6, <1>1, <1>2, Zenon DEF Own, Leaves, FlowMove

LEMMA WorkFinishOwn ==
    ASSUME IInv, NEW t \in Thread, NEW f \in Flow, WorkFinish(t, f)
    PROVE  Own(t)
<1>1. tpc[t] = "work" /\ loc[f] = <<"hand", t>> /\ UNCHANGED <<work, wire>> /\ tpc' = tpc
  BY Zenon DEF WorkFinish, threads
<1>2. loc'[f] = Spare /\ (\A g \in Flow : g # f => loc'[g] = loc[g]) /\ loc' \in [Flow -> Loc]
  BY Zenon DEF WorkFinish, Loc, IInv, Types
<1>3. owner'[f] = None /\ (\A g \in Flow : g # f => owner'[g] = owner[g])
      /\ owner' \in [Flow -> FlowWorkers \cup {None}]
  BY Zenon DEF WorkFinish, IInv, Types
<1>4. At(t, tpc[t], pkt[t], pq[t], flags[t])
  BY SameAt, Zenon DEF WorkFinish, threads, At, recycler, main
<1>5. work' \in [Thread -> 0..MaxWork] /\ wire' \in Nat /\ wire' <= wire
  BY <1>1 DEF IInv, Types
<1>6. Types' /\ Others(t) /\ Self(t)
  BY <1>1, <1>2, <1>3, <1>4, <1>5, Stay, Local, Zenon
<1>. QED
  BY <1>6, <1>1, <1>2, <1>3, Zenon DEF Own, Leaves, FlowMove

LEMMA OutputOwn ==
    ASSUME IInv, NEW t \in Thread, Output(t)
    PROVE  Own(t)
<1>1. tpc[t] = "work" /\ UNCHANGED <<flows, wire>> /\ UNCHANGED <<tvs, recycler, main>> /\ pq' = pq
      /\ pkt' = [pkt EXCEPT ![t] = None]
  BY Zenon DEF Output
<1>2. \E p, s : At(t, p, None, pq[t], s) /\ Good(t, p, None, pq[t], s) /\ p # "work"
  <2>1. CASE "FLOW_LOOP" \in flags[t] \/ t \in Receive
    <3>. DEFINE p == IF t \in Receive THEN "handle" ELSE "loop"
    <3>1. At(t, p, None, pq[t], flags[t])
      BY <2>1, <1>1, SameAt, Zenon DEF Output, HasInq, At, recycler, main
    <3>2. Good(t, p, None, pq[t], flags[t])
      BY <2>1, <1>1, SameAt, Consts, Zenon DEF Good, Fits, Place, PlaceOk, WithPacket, LiveOk
    <3>. QED
      BY <3>1, <3>2, Zenon
  <2>2. CASE "FLOW_LOOP" \notin flags[t] /\ t \notin Receive
    BY <2>2, <1>1, CheckRunGood, Zenon DEF Output, HasInq
  <2>. QED
    BY <2>1, <2>2, Zenon
<1>3. PICK p, s : At(t, p, None, pq[t], s) /\ Good(t, p, None, pq[t], s) /\ p # "work"
  BY <1>2, Zenon
<1>4. work' \in [Thread -> 0..MaxWork]
  BY Consts DEF Output, IInv, Types
<1>5. wire' \in Nat /\ wire' <= wire /\ loc' \in [Flow -> Loc] /\ owner' \in [Flow -> FlowWorkers \cup {None}]
  BY <1>1 DEF IInv, Types, flows
<1>. QED
  BY <1>3, <1>4, <1>5, Local, <1>1, Zenon DEF Own, Leaves, Output, In, flows, FlowMove

-----------------------------------------------------------------------------
(* Signals, and steps of the flow manager, the flow recycler and of the main thread within a *)
(* part of PostRunDeinit.                                                                     *)

\* Threads that wait for a packet may be woken up.
Woken == \A u \in Thread : tpc'[u] = tpc[u] \/ (tpc[u] = "wait" /\ tpc'[u] = "woken")

LEMMA SignalledWakes ==
    ASSUME IInv, NEW t \in Thread, tpc' = Signalled(t)
    PROVE  Woken /\ tpc' \in [Thread -> Place]
  BY Zenon DEF Woken, Signalled, IInv, Types, Place

LEMMA WokenFits ==
    ASSUME IInv, Woken, NEW u \in Thread
    PROVE  /\ Fits(u, tpc'[u], pkt[u], pq[u], flags[u])
           /\ tpc'[u] = "off" <=> tpc[u] = "off"
           /\ \A p \in {"append", "work"} : tpc[u] = p => tpc'[u] = p
<1>1. CASE tpc'[u] = tpc[u]
  BY SameAt, <1>1, Zenon
<1>2. CASE tpc[u] = "wait" /\ tpc'[u] = "woken"
  BY SameAt, <1>2, Zenon DEF Fits, PlaceOk, WithPacket
<1>. QED
  BY <1>1, <1>2, Zenon DEF Woken

\* A flow that stays where it is.
LEMMA WokenFlow ==
    ASSUME IInv, Woken, NEW f \in Flow, loc'[f] = loc[f], owner'[f] = owner[f]
    PROVE  FlowOk(f)'
<1>1. FlowOk(f) /\ owner[f] \in Thread \cup {None}
  BY Consts, Zenon DEF IInv, Types
<1>. QED
  BY <1>1, WokenFits, Zenon DEF FlowOk

\* What these steps do to a flow.
OtherMove(f) ==
    \/ loc'[f] = loc[f] /\ owner'[f] = owner[f]
    \/ /\ loc[f] \in {InHash, Evicted} /\ f \in Needs /\ stage \notin Forced
       /\ loc'[f] = <<"queue", owner[f]>> /\ owner'[f] = owner[f]
    \/ /\ loc[f] \in {InHash, Evicted} /\ stage \notin NoRecycle
       /\ loc'[f] = Recycle /\ owner'[f] = owner[f]
    \/ loc[f] = Recycle /\ loc'[f] = Listed /\ owner'[f] = owner[f]
    \/ loc[f] = Listed /\ loc'[f] = Spare /\ owner'[f] = None

Elsewhere ==
    /\ Types' /\ RecyclerOk' /\ Woken
    /\ UNCHANGED <<tvs, stage, idx, step, pq, pkt, wire>>
    /\ \A u \in Thread : flags'[u] = flags[u]
    /\ \A m \in {FM, FR} : flags[m] \subseteq flags'[m]
    /\ \A f \in Flow : OtherMove(f)

LEMMA OtherFlow ==
    ASSUME IInv, Woken, NEW f \in Flow, OtherMove(f)
    PROVE  FlowOk(f)'
<1>1. FlowOk(f) /\ owner[f] \in Thread \cup {None}
  BY Consts, Zenon DEF IInv, Types
<1>2. CASE loc'[f] = loc[f] /\ owner'[f] = owner[f]
  BY <1>2, WokenFlow
<1>3. CASE loc[f] \in {InHash, Evicted} /\ f \in Needs /\ loc'[f] = <<"queue", owner[f]>> /\ owner'[f] = owner[f]
  <2>1. owner[f] # None
    BY <1>1, <1>3, Consts, Places, Zenon DEF FlowOk
  <2>2. \A t \in Thread : \A q \in Queues : loc'[f] = <<q, t>> => q = "queue" /\ t = owner[f]
    BY <1>3
  <2>3. \A t \in Thread : loc'[f] # <<"injected", t>> /\ loc'[f] # <<"hand", t>>
    BY <1>3
  <2>4. owner'[f] = None <=> loc'[f] = Spare \/ f \notin Tcp
    BY <1>3, <2>1, Consts, Places, Zenon
  <2>. QED
    BY <1>1, WokenFits, <1>3, <2>1, <2>2, <2>3, <2>4, Zenon DEF FlowOk
<1>4. CASE loc'[f] \in {Recycle, Listed, Spare} /\ loc[f] \in {InHash, Evicted, Recycle, Listed}
           /\ owner'[f] = IF loc'[f] = Spare THEN None ELSE owner[f]
  <2>1. \A t \in Thread : \A q \in Queues : loc'[f] # <<q, t>>
    BY <1>4, Places, Zenon DEF Queues
  <2>2. owner'[f] = None <=> loc'[f] = Spare \/ f \notin Tcp
    BY <1>1, <1>4, Places, Zenon DEF FlowOk
  <2>. QED
    BY <1>1, WokenFits, <1>4, <2>1, <2>2, Zenon DEF FlowOk, Queues
<1>. QED
  BY <1>2, <1>3, <1>4, Places, Zenon DEF OtherMove

LEMMA ElsewhereKeeps ==
    ASSUME IInv, Elsewhere
    PROVE  Keeps
<1>1. ASSUME NEW u \in Thread
      PROVE  /\ tpc'[u] = "off" <=> tpc[u] = "off"
             /\ (InLoop(u) => InLoop(u)') /\ (OutOfLoop(u) => OutOfLoop(u)')
             /\ \A p \in {"append", "work"} : tpc[u] = p => tpc'[u] = p
  BY WokenFits, Zenon DEF Elsewhere, InLoop, OutOfLoop
<1>2. ASSUME NEW u \in Thread PROVE Len(pq'[u]) + wire' <= Len(pq[u]) + wire
  BY DEF IInv, Types, Elsewhere
<1>3. ASSUME NEW u \in Thread, stage \in Forced, WorkLeft(u) PROVE WorkLeft(u)'
  BY <1>3, Places, <1>1, Zenon DEF WorkLeft, Elsewhere, OtherMove
<1>4. ASSUME NEW u \in Thread, stage \in Forced, Settled(u) PROVE Settled(u)'
  BY <1>4, <1>3, Places, Zenon DEF Settled, Elsewhere, OtherMove
<1>5. ASSUME NEW f \in Flow
      PROVE  /\ stage \in Forced /\ f \in Needs /\ loc[f] # InHash => loc'[f] # InHash
             /\ stage \in NoHash /\ loc[f] # InHash /\ loc[f] # Evicted => loc'[f] # InHash /\ loc'[f] # Evicted
             /\ stage \in NoRecycle /\ loc[f] # Recycle => loc'[f] # Recycle
  BY Places, Zenon DEF Elsewhere, OtherMove
<1>. QED
  BY <1>1, <1>2, <1>3, <1>4, <1>5, Zenon DEF Keeps, Elsewhere

LEMMA ElsewhereStep ==
    ASSUME IInv, Elsewhere
    PROVE  IInv'
<1>1. ASSUME NEW u \in Thread PROVE ThreadOk(u)'
  BY WokenFits, Zenon DEF Elsewhere, ThreadOk, Fits, AskedOk
<1>. QED
  BY ElsewhereKeeps, KeepsPosition, KeepsPhase, KeepsScan, KeepsRoom, OtherFlow, <1>1, Zenon DEF IInv, Elsewhere

\* The recycler is left alone, and no flow gets on its list.
LEMMA RecyclerSame ==
    ASSUME IInv, UNCHANGED <<rpc, busy, bail, stage>>, flags'[FR] = flags[FR],
           \A f \in Flow : loc'[f] = Listed => loc[f] = Listed
    PROVE  RecyclerOk'
  BY Zenon DEF IInv, RecyclerOk

LEMMA InjectStep ==
    ASSUME IInv, NEW f \in Needs, loc[f] \in {InHash, Evicted}, stage \notin Forced, Inject(f),
           UNCHANGED <<tvs, flags, pq, pkt, work, owner, wire, recycler, main>>
    PROVE  IInv'
<1>1. f \in Flow /\ FlowOk(f) /\ f \in Tcp
  BY Consts, Zenon DEF IInv
<1>2. owner[f] \in FlowWorkers /\ owner[f] \in Thread
  BY <1>1, Places, Consts, Zenon DEF IInv, Types, FlowOk
<1>3. loc'[f] = <<"queue", owner[f]>> /\ (\A g \in Flow : g # f => loc'[g] = loc[g])
      /\ loc' \in [Flow -> Loc]
  BY <1>1, <1>2, Zenon DEF Inject, Loc, Queues, IInv, Types
<1>4. RecyclerOk'
  BY <1>1, <1>3, Places, RecyclerSame, Zenon DEF recycler, main
<1>5. Elsewhere
  BY <1>2, SignalledWakes, <1>3, <1>4, Zenon DEF Elsewhere, main, Inject, Woken, IInv, Types, recycler,
     OtherMove
<1>. QED
  BY <1>5, ElsewhereStep

\* A flow of the hash goes to the recycler.
LEMMA RecycleStep ==
    ASSUME IInv, NEW f \in Flow, loc[f] \in {InHash, Evicted}, stage \notin NoRecycle,
           loc' = [loc EXCEPT ![f] = Recycle],
           UNCHANGED <<tvs, flags, threads, owner, wire, recycler, main>>
    PROVE  IInv'
<1>1. Elsewhere
  BY Places, RecyclerSame, Zenon DEF Elsewhere, main, threads, Woken, IInv, Types, recycler, Loc, OtherMove
<1>. QED
  BY <1>1, ElsewhereStep

LEMMA ManagerTimeoutStep ==
    ASSUME IInv, NEW f \in Flow, ManagerTimeout(f)
    PROVE  IInv'
<1>1. stage \notin Forced /\ stage \notin NoRecycle
  BY StageSets, Zenon DEF ManagerTimeout, IInv, Phase, PhaseAt
<1>2. CASE f \in Needs
  BY <1>2, <1>1, InjectStep, Zenon DEF ManagerTimeout
<1>3. CASE f \notin Needs
  BY <1>3, <1>1, RecycleStep, Zenon DEF ManagerTimeout, threads
<1>. QED
  BY <1>2, <1>3

\* The flags of the flow manager, and THV_CLOSED.
LEMMA MgmtFlags ==
    ASSUME IInv, NEW m \in {FM, FR}, NEW s \in SUBSET Flags, SetFlags(m, s),
           m = FR => s \cap {"KILL", "RUNNING_DONE"} = {},
           UNCHANGED <<tvs, threads, flows, wire, recycler, main>>
    PROVE  IInv'
<1>1. (\A u \in Thread : flags'[u] = flags[u]) /\ (\A n \in {FM, FR} : flags[n] \subseteq flags'[n])
      /\ (\A x \in {"KILL", "RUNNING_DONE"} : x \in flags'[FR] <=> x \in flags[FR])
  BY Consts DEF IInv, Types, SetFlags
<1>2. RecyclerOk'
  BY <1>1, Zenon DEF IInv, RecyclerOk, recycler, main, flows
<1>3. \A f \in Flow : OtherMove(f)
  BY Zenon DEF OtherMove, flows
<1>4. Elsewhere
  BY Consts, <1>1, <1>2, <1>3, Zenon DEF Elsewhere, Woken, threads, main, IInv, Types, flows, recycler, SetFlags
<1>. QED
  BY <1>4, ElsewhereStep

LEMMA ManagerEndStep ==
    ASSUME IInv, ManagerEnd
    PROVE  IInv'
  BY MgmtFlags DEF ManagerEnd, Flags, FM, FR

LEMMA ManagementDeinitStep ==
    ASSUME IInv, NEW m \in {FM, FR}, ManagementDeinit(m)
    PROVE  IInv'
  BY MgmtFlags, Zenon DEF ManagementDeinit, Flags

LEMMA RecyclerStep ==
    ASSUME IInv, Recycler
    PROVE  IInv'
<1>1. UNCHANGED <<tvs, pq, tpc, pkt, work, wire, stage, idx, step>>
  BY Zenon DEF Recycler, RecyclerBusy, RecyclerExtract, RecyclerFlag, RecyclerDone, RecyclerLog, threads, main
<1>2. FR \in All /\ FR \notin Thread /\ FM # FR /\ Thread \subseteq All /\ FM \in All
  BY Consts
<1>3. flags' = flags \/ flags' = [flags EXCEPT ![FR] = flags[FR] \cup {"RUNNING_DONE"}]
  BY <1>2, Zenon DEF Recycler, RecyclerBusy, RecyclerExtract, RecyclerFlag, RecyclerDone, RecyclerLog, SetFlags,
     IInv, Types
<1>4. flags' \in [All -> SUBSET Flags] /\ (\A u \in Thread : flags'[u] = flags[u])
      /\ (\A n \in {FM, FR} : flags[n] \subseteq flags'[n])
  <2>1. flags \in [All -> SUBSET Flags] /\ "RUNNING_DONE" \in Flags
    BY Zenon DEF IInv, Types, Flags
  <2>. QED
    BY <1>2, <1>3, <2>1
<1>5. ASSUME NEW f \in Flow PROVE OtherMove(f)
  <2>1. CASE RecyclerBusy \/ RecyclerFlag \/ RecyclerDone
    BY <2>1, Zenon DEF OtherMove, RecyclerBusy, RecyclerFlag, RecyclerDone, flows
  <2>2. CASE RecyclerExtract
    BY <2>2, Zenon DEF RecyclerExtract, Moved, OtherMove
  <2>3. ASSUME NEW g \in Flow, RecyclerLog(g) PROVE OtherMove(f)
    BY <2>3, Zenon DEF RecyclerLog, IInv, Types, OtherMove
  <2>. QED
    BY <2>1, <2>2, <2>3 DEF Recycler
<1>6. loc' \in [Flow -> Loc] /\ owner' \in [Flow -> FlowWorkers \cup {None}]
  BY Zenon DEF Recycler, RecyclerBusy, RecyclerExtract, RecyclerFlag, RecyclerDone, RecyclerLog, Moved, flows,
     IInv, Types, Loc
<1>7. RecyclerOk /\ rpc \in {"top", "extract", "flag", "log", "end"} /\ bail \in BOOLEAN
  BY Zenon DEF IInv, Types
<1>8. /\ rpc' \in {"top", "extract", "flag", "log", "end"} /\ bail' \in BOOLEAN
      /\ busy' = IF rpc' \in {"extract", "flag", "log"} THEN 1 ELSE 0
      /\ (bail' \/ rpc' = "end" => "KILL" \in flags'[FR])
      /\ (rpc' = "end" <=> "RUNNING_DONE" \in flags'[FR])
      /\ ("KILL" \in flags'[FR] => "KILL" \in flags[FR])
  <2>1. CASE RecyclerBusy
    BY <1>7, <2>1 DEF RecyclerBusy, RecyclerOk
  <2>2. CASE RecyclerExtract
    BY <1>7, <2>2, Zenon DEF RecyclerExtract, RecyclerOk
  <2>3. CASE RecyclerFlag
    BY <1>7, <2>3 DEF RecyclerFlag, RecyclerOk
  <2>4. CASE RecyclerDone
    <3>1. CASE bail
      <4>1. flags'[FR] = flags[FR] \cup {"RUNNING_DONE"} /\ rpc' = "end" /\ busy' = busy - 1 /\ bail' = bail /\ rpc = "log"
        BY <1>2, <2>4, <3>1, Zenon DEF RecyclerDone, SetFlags, IInv, Types
      <4>. QED
        BY <1>7, <3>1, <4>1 DEF RecyclerOk
    <3>2. CASE ~bail
      BY <1>7, <2>4, <3>2 DEF RecyclerDone, RecyclerOk
    <3>. QED
      BY <3>1, <3>2, Zenon
  <2>5. CASE \E f \in Flow : RecyclerLog(f)
    BY <1>7, <2>5 DEF RecyclerLog, RecyclerOk, recycler
  <2>. QED
    BY <2>1, <2>2, <2>3, <2>4, <2>5, Zenon DEF Recycler
<1>9. ASSUME NEW f \in Flow, loc'[f] = Listed PROVE rpc' \in {"flag", "log"}
  BY <1>7, <1>9, Zenon DEF RecyclerOk, RecyclerBusy, RecyclerFlag, RecyclerDone, flows, RecyclerExtract,
     RecyclerLog, recycler, Recycler
<1>10. RecyclerOk' /\ busy' \in 0..1
  BY <1>1, <1>7, <1>8, <1>9 DEF RecyclerOk
<1>11. Types'
  BY <1>1, <1>4, <1>6, <1>8, <1>10, Zenon DEF IInv, Types
<1>. QED
  BY <1>1, <1>4, <1>5, <1>10, <1>11, ElsewhereStep, Zenon DEF Elsewhere, Woken

LEMMA CaptureSendStep ==
    ASSUME IInv, NEW c \in Thread, NEW w \in Thread, CaptureSend(c, w)
    PROVE  IInv'
<1>1. w \in FlowWorkers /\ w \notin Receive /\ tpc[w] # "off"
  BY Consts, Zenon DEF CaptureSend, HasInq
<1>2. stage \notin NoCapture
  BY SameAt, Zenon DEF CaptureSend, Fits, PlaceOk, IInv, Phase, PhaseAt, InLoop
<1>3. Woken /\ tpc' \in [Thread -> Place]
  BY SignalledWakes, Zenon DEF CaptureSend
<1>4. pq[w] \in Seq({"live", "flush"}) /\ wire \in Nat /\ wire > 0 /\ wire' = wire - 1
      /\ wire <= MaxLive /\ MaxLive \in Nat
  BY Consts, Zenon DEF CaptureSend, IInv, Types
<1>5. pq' = [pq EXCEPT ![w] = Append(pq[w], "live")] /\ Append(pq[w], "live") \in Seq({"live", "flush"})
      /\ Len(Append(pq[w], "live")) = Len(pq[w]) + 1 /\ Len(pq[w]) \in Nat
  BY <1>4, QueueAppend, Zenon DEF CaptureSend, IInv, Types
<1>6. UNCHANGED <<tvs, flags, pkt, work, loc, owner, rpc, busy, bail, stage, idx, step>>
  BY Zenon DEF CaptureSend, flows, recycler, main
<1>7. pq \in [Thread -> Seq({"live", "flush"})]
  BY Zenon DEF IInv, Types
<1>8. Types'
  <2>1. pq' \in [Thread -> Seq({"live", "flush"})]
    BY <1>5, <1>7
  <2>2. wire' \in Nat /\ wire' <= MaxLive
    BY <1>4
  <2>. QED
    BY <1>3, <1>6, <2>1, <2>2, Zenon DEF IInv, Types
<1>9. Keeps
  <2>1. ASSUME NEW u \in Thread
        PROVE  /\ tpc'[u] = "off" <=> tpc[u] = "off"
               /\ (InLoop(u) => InLoop(u)') /\ (OutOfLoop(u) => OutOfLoop(u)')
    BY <1>3, <1>6, WokenFits, Zenon DEF InLoop, OutOfLoop
  <2>2. ASSUME NEW u \in Thread PROVE Len(pq'[u]) + wire' <= Len(pq[u]) + wire
    BY <1>7, <1>4, <1>5
  <2>. QED
    BY <1>2, <1>6, <2>1, <2>2, StageSets, Zenon DEF Keeps
<1>10. Position' /\ Phase' /\ Scan' /\ \A u \in Thread : Room(u)'
  BY <1>8, <1>9, KeepsPosition, KeepsPhase, KeepsScan, KeepsRoom
<1>11. \A f \in Flow : FlowOk(f)'
  BY <1>3, <1>6, WokenFlow, Zenon
<1>12. ASSUME NEW u \in Thread PROVE ThreadOk(u)'
  BY <1>3, WokenFits, <1>1, <1>5, <1>7, <1>6, Zenon DEF Fits, PlaceOk, LiveOk, ThreadOk, AskedOk
<1>. QED
  BY <1>8, <1>10, <1>11, <1>12, <1>6, RecyclerSame, Zenon DEF IInv

-----------------------------------------------------------------------------
(* The main thread goes on. *)

\* What the steps of the main thread do to the others: signals and flags.
Asks ==
    /\ Woken /\ tpc' \in [Thread -> Place]
    /\ flags' \in [All -> SUBSET Flags] /\ \A m \in All : flags[m] \subseteq flags'[m]
    /\ UNCHANGED <<tvs, pq, pkt, work, loc, owner, wire, rpc, busy, bail>>

LEMMA AsksGrow ==
    ASSUME IInv, Asks, NEW u \in Thread
    PROVE  /\ tpc'[u] = "off" <=> tpc[u] = "off"
           /\ (InLoop(u) => InLoop(u)') /\ (OutOfLoop(u) => OutOfLoop(u)')
           /\ (WorkLeft(u) => WorkLeft(u)') /\ (Settled(u) => Settled(u)')
  BY WokenFits, Consts, Zenon DEF InLoop, OutOfLoop, Asks, WorkLeft, Settled

LEMMA AsksPhase ==
    ASSUME IInv, Asks, NEW s, PhaseAt(s)
    PROVE  PhaseAt(s)'
<1>1. s \in NoCapture => \A t \in Receive : InLoop(t)'
  BY Consts, AsksGrow, Zenon DEF PhaseAt
<1>2. s \in Drained => \A t \in FlowWorkers : Settled(t)'
  BY Consts, AsksGrow, Zenon DEF PhaseAt
<1>3. s \in Killed => \A t \in Thread : OutOfLoop(t)'
  BY AsksGrow, Zenon DEF PhaseAt
<1>. QED
  BY Consts, <1>1, AsksGrow, <1>2, <1>3, Zenon DEF PhaseAt, Asks

LEMMA AsksScan ==
    ASSUME IInv, Asks, NEW s, NEW i, NEW w, ScanAt(s, i, w)
    PROVE  ScanAt(s, i, w)'
<1>1. ASSUME NEW u \in Thread
      PROVE  (Passed(s, u) => Passed(s, u)') /\ (Seen(s, w, u) => Seen(s, w, u)')
  BY AsksGrow, Zenon DEF Passed, Seen, Asks
<1>2. \A j \in 1..Len(tvs) : tvs[j] \in Thread
  BY DEF IInv, Position
<1>. QED
  BY <1>1, <1>2, Zenon DEF ScanAt, Asks

\* The step as a whole: what it is in the old state decides about the new one.
LEMMA AsksStep ==
    ASSUME IInv, Asks, PhaseAt(stage'), ScanAt(stage', idx', step'), Position', RecyclerOk',
           \A t \in Thread : AskedOk(t, flags[t])',
           \A t \in Thread : "FLOW_LOOP" \in flags'[t] <=> "FLOW_LOOP" \in flags[t],
           \A t \in Thread : "RUNNING_DONE" \in flags'[t] <=> "RUNNING_DONE" \in flags[t],
           Looking' /\ step' # "packets" => Len(pq[tvs[idx']]) + wire <= MaxLive
    PROVE  IInv'
<1>1. Phase' /\ Scan'
  <2>1. PICK s, i, w : s = stage' /\ i = idx' /\ w = step'
    BY Zenon
  <2>2. PhaseAt(s)' /\ ScanAt(s, i, w)'
    BY <2>1, AsksPhase, AsksScan, Zenon
  <2>. QED
    BY <2>1, <2>2 DEF Phase, Scan, PhaseAt, ScanAt, Passed, Seen
<1>2. ASSUME NEW t \in Thread PROVE ThreadOk(t)'
  BY WokenFits, Zenon DEF Asks, Fits, PlaceOk, LiveOk, ThreadOk
<1>3. ASSUME NEW t \in Thread PROVE Room(t)'
  BY Zenon DEF Asks, IInv, Room
<1>. QED
  BY <1>1, <1>2, WokenFlow, <1>3, Zenon DEF IInv, Asks, Types

\* PostRunDeinit only goes forward.
Onwards ==
    /\ stage \in Asked => stage' \in Asked
    /\ stage = "kill" \/ stage \in Killed => stage' = "kill" \/ stage' \in Killed
    /\ stage \in NoRecycle => stage' \in NoRecycle

\* The flags that the main thread sets for m, if any.
Adds(m, add) ==
    /\ m \in All /\ add \subseteq {"REQ_FLOW_LOOP", "KILL", "DEINIT", "DEAD"}
    /\ flags' = [flags EXCEPT ![m] = @ \cup add]
    /\ Woken /\ tpc' \in [Thread -> Place]
    /\ UNCHANGED <<tvs, pq, pkt, work, loc, owner, wire, rpc, busy, bail>>
    /\ add # {} /\ m \in Thread \ Receive => stage' \in Asked
    /\ "KILL" \in add /\ m \in Thread => stage' = "kill" \/ stage' \in Killed
    /\ "KILL" \in add /\ m = FR => stage' \in NoRecycle

LEMMA AddsAsks ==
    ASSUME IInv, NEW m, NEW add, Adds(m, add)
    PROVE  /\ Asks
           /\ \A t \in All : flags'[t] = IF t = m THEN flags[t] \cup add ELSE flags[t]
  BY Zenon DEF Adds, Asks, IInv, Types, Flags

LEMMA AddsStep ==
    ASSUME IInv, NEW m, NEW add, Adds(m, add), Onwards, PhaseAt(stage'),
           ScanAt(stage', idx', step'), Position',
           Looking' /\ step' # "packets" => Len(pq[tvs[idx']]) + wire <= MaxLive
    PROVE  IInv'
<1>1. Asks /\ \A t \in All : flags'[t] = IF t = m THEN flags[t] \cup add ELSE flags[t]
  BY AddsAsks, Zenon
<1>2. \A t \in All : /\ "FLOW_LOOP" \in flags'[t] <=> "FLOW_LOOP" \in flags[t]
                     /\ "RUNNING_DONE" \in flags'[t] <=> "RUNNING_DONE" \in flags[t]
                     /\ "KILL" \in flags[t] => "KILL" \in flags'[t]
  BY <1>1 DEF Adds
<1>3. ASSUME NEW t \in Thread PROVE AskedOk(t, flags[t])'
  <2>1. AskedOk(t, flags[t]) /\ t \in All
    BY SameAt, Zenon DEF Fits
  <2>2. CASE t # m
    BY <1>1, <2>1, <2>2, Zenon DEF AskedOk, Onwards
  <2>3. CASE t = m
    <3>1. flags'[t] = flags[t] \cup add
      BY <1>1, <2>1, <2>3, Zenon
    <3>. QED
      BY <2>1, <2>3, <3>1, <1>2, Zenon DEF AskedOk, Onwards, Adds
  <2>. QED
    BY <2>2, <2>3, Zenon
<1>4. RecyclerOk'
  <2>1. FR \in All /\ RecyclerOk
    BY Consts, Zenon DEF IInv
  <2>2. "KILL" \in flags'[FR] => stage' \in NoRecycle
    BY <1>1, <2>1 DEF RecyclerOk, Onwards, Adds
  <2>. QED
    BY <2>1, <2>2, <1>2, Zenon DEF RecyclerOk, Adds
<1>. QED
  BY <1>1, <1>2, <1>3, <1>4, Consts, AsksStep, Zenon

\* No flags at all.
LEMMA NoFlags ==
    ASSUME IInv, UNCHANGED <<tvs, flags, threads, flows, wire, recycler>>
    PROVE  Adds(FM, {})
  BY Consts DEF Adds, Woken, IInv, Types, threads, flows, recycler

\* The start of a part.
LEMMA ScanStart ==
    ASSUME NEW s
    PROVE  ScanAt(s, 1, "packets")
  BY DEF ScanAt, Seen

LEMMA GotoPosition ==
    ASSUME IInv, Asks, stage # "done", NEW s \in Stages \ {"done"}, Goto(s)
    PROVE  Position'
<1>1. tvs \in Setups /\ tvs \in Seq(Thread) /\ tvs # <<>>
  BY ShutdownAssumption, Zenon DEF IInv, Position
<1>2. \A t \in Thread : tpc'[t] # "off" <=> tpc[t] # "off"
  BY AsksGrow
<1>3. \A t \in Thread : tpc[t] # "off" <=> \E j \in 1..Len(tvs) : tvs[j] = t
  BY Zenon DEF IInv, Position
<1>. QED
  BY <1>1, <1>2, <1>3 DEF Position, Asks, Goto

LEMMA GotoStep ==
    ASSUME IInv, NEW m, NEW add, Adds(m, add), Onwards, stage # "done",
           NEW s \in Stages \ {"done"}, Goto(s), PhaseAt(s)
    PROVE  IInv'
  BY AddsAsks, GotoPosition, ScanStart, AddsStep, Zenon DEF Goto

LEMMA AgainStep ==
    ASSUME IInv, NEW m, NEW add, Adds(m, add), stage # "done", Again
    PROVE  IInv'
<1>1. Goto(stage) /\ stage \in Stages /\ PhaseAt(stage)
  BY Zenon DEF Again, IInv, Position, Phase
<1>. QED
  BY <1>1, GotoStep, Zenon DEF Goto, Onwards

\* A thread that does not run has nothing, and what it has not to do it has not to be asked.
LEMMA OffThread ==
    ASSUME IInv, NEW t \in Thread, tpc[t] = "off"
    PROVE  pq[t] = <<>> /\ InLoop(t) /\ OutOfLoop(t) /\ Settled(t)
  BY SameAt, Zenon DEF InLoop, OutOfLoop, Settled, WorkLeft, Fits, PlaceOk, IInv, FlowOk, Queues

\* What the main thread has seen of every thread is what the next part relies on.
LEMMA PhaseNext ==
    ASSUME IInv, stage \in Scanning, \A t \in Thread : tpc[t] = "off" \/ Passed(stage, t)
    PROVE  PhaseAt(After[stage]) /\ After[stage] \in Stages \ {"done"} /\ After[stage] # "killmgmt"
<1>. DEFINE Off(t) == tpc[t] = "off" => pq[t] = <<>> /\ InLoop(t) /\ OutOfLoop(t) /\ Settled(t)
<1>1. \A t \in Thread : Off(t)
  BY OffThread
<1>2. Receive \subseteq Thread /\ FlowWorkers \subseteq Thread /\ PhaseAt(stage)
  BY Consts, Zenon DEF IInv, Phase
<1>3. CASE stage = "receive"
  <2>1. \A t \in Receive : InLoop(t)
    BY <1>1, <1>2, <1>3, Zenon DEF Passed
  <2>. QED
    BY <1>2, <1>3, <2>1, Zenon DEF PhaseAt, After, Stages, Freed, NoRecycle, NoHash, Killed, Drained, Forced,
       Looping, Asked, NoCapture, NoManager
<1>4. CASE stage \in {"drain1", "drain2"}
  <2>1. \A t \in Thread : pq[t] = <<>> /\ NoLive(pq[t])
    BY <1>1, <1>4, QueueEmpty, Zenon DEF Passed
  <2>2. CASE stage = "drain1"
    BY <1>2, <2>1, <2>2, Zenon DEF PhaseAt, After, Stages, Freed, NoRecycle, NoHash, Killed, Drained, Forced,
       Looping, Asked, NoCapture, NoManager
  <2>3. CASE stage = "drain2"
    BY <1>2, <2>1, <2>3, Zenon DEF PhaseAt, After, Stages, Freed, NoRecycle, NoHash, Killed, Drained, Forced,
       Looping, Asked, NoCapture, NoManager
  <2>. QED
    BY <1>4, <2>2, <2>3, Zenon
<1>5. CASE stage \in {"validate1", "validate2", "killppt"}
  <2>1. CASE stage = "validate1"
    BY <1>2, <2>1, Zenon DEF PhaseAt, After, Stages, Freed, NoRecycle, NoHash, Killed, Drained, Forced,
       Looping, Asked, NoCapture, NoManager
  <2>2. CASE stage = "validate2"
    BY <1>2, <2>2, Zenon DEF PhaseAt, After, Stages, Freed, NoRecycle, NoHash, Killed, Drained, Forced,
       Looping, Asked, NoCapture, NoManager
  <2>3. CASE stage = "killppt"
    BY <1>2, <2>3, Zenon DEF PhaseAt, After, Stages, Freed, NoRecycle, NoHash, Killed, Drained, Forced,
       Looping, Asked, NoCapture, NoManager
  <2>. QED
    BY <1>5, <2>1, <2>2, <2>3, Zenon
<1>6. CASE stage = "flowloop"
  <2>1. \A t \in Thread : InLoop(t)
    BY <1>1, <1>6, Zenon DEF Passed
  <2>. QED
    BY <1>2, <1>6, <2>1, Zenon DEF PhaseAt, After, Stages, Freed, NoRecycle, NoHash, Killed, Drained, Forced,
       Looping, Asked, NoCapture, NoManager
<1>7. CASE stage = "drain3"
  <2>1. (\A t \in Thread : pq[t] = <<>>) /\ \A t \in FlowWorkers : Settled(t)
    BY <1>1, <1>2, <1>7, Zenon DEF Passed
  <2>. QED
    BY <1>2, <1>7, <2>1, Zenon DEF PhaseAt, After, Stages, Freed, NoRecycle, NoHash, Killed, Drained, Forced,
       Looping, Asked, NoCapture, NoManager
<1>8. CASE stage = "kill"
  <2>1. \A t \in Thread : OutOfLoop(t)
    BY <1>1, <1>8, Zenon DEF Passed
  <2>. QED
    BY <1>2, <1>8, <2>1, Zenon DEF PhaseAt, After, Stages, Freed, NoRecycle, NoHash, Killed, Drained, Forced,
       Looping, Asked, NoCapture, NoManager
<1>. QED
  BY <1>3, <1>4, <1>5, <1>6, <1>7, <1>8, Zenon DEF Scanning

LEMMA NextOnwards ==
    ASSUME stage \in Scanning, NextOf(tvs)
    PROVE  Onwards
<1>1. stage' = stage \/ stage' = After[stage]
  BY DEF NextOf, Goto
<1>. QED
  BY <1>1 DEF Scanning, Onwards, After, Freed, NoRecycle, NoHash, Killed, Drained, Forced, Looping, Asked

LEMMA NextOfStep ==
    ASSUME IInv, NEW m, NEW add, Adds(m, add), stage \in Scanning, NextOf(tvs), Passed(stage, tvs[idx])
    PROVE  IInv'
<1>1. Onwards /\ Asks
  BY NextOnwards, AddsAsks
<1>2. stage # "done" /\ idx \in 1..Len(tvs) /\ tvs \in Seq(Thread) /\ ScanAt(stage, idx, step)
  BY Zenon DEF Scanning, IInv, Position, Scan
<1>3. CASE idx < Len(tvs)
  <2>1. idx' = idx + 1 /\ step' = "packets" /\ stage' = stage /\ tvs' = tvs
    BY <1>1, <1>3, Zenon DEF NextOf, Asks
  <2>2. ScanAt(stage, idx + 1, "packets")
    BY <1>2 DEF ScanAt, Seen
  <2>3. \A t \in Thread : tpc'[t] # "off" <=> tpc[t] # "off"
    BY <1>1, AsksGrow, Zenon
  <2>4. Position'
    BY <1>2, <1>3, <2>1, <2>3 DEF IInv, Position, Scanning
  <2>5. PhaseAt(stage)
    BY DEF IInv, Phase
  <2>. QED
    BY <1>1, <2>1, <2>2, <2>4, <2>5, AddsStep, Zenon
<1>4. CASE idx = Len(tvs)
  <2>1. Goto(After[stage])
    BY <1>2, <1>4 DEF NextOf
  <2>2. ASSUME NEW t \in Thread, tpc[t] # "off" PROVE Passed(stage, t)
    <3>1. PICK j \in 1..Len(tvs) : tvs[j] = t
      BY <1>2, <2>2, Zenon DEF IInv, Position
    <3>. QED
      BY <1>2, <3>1, <1>4 DEF ScanAt
  <2>3. PhaseAt(After[stage]) /\ After[stage] \in Stages \ {"done"}
    BY <2>2, PhaseNext, Zenon
  <2>. QED
    BY <1>1, <1>2, <2>1, <2>3, GotoStep, Zenon
<1>. QED
  BY <1>2, <1>3, <1>4

-----------------------------------------------------------------------------
(* The steps of PostRunDeinit. *)

LEMMA StopStep ==
    ASSUME IInv, Stop
    PROVE  IInv'
<1>1. SetFlags(FM, {"KILL"}) /\ Goto("fmwait") /\ UNCHANGED <<tvs, threads, flows, wire, recycler>> /\ stage = "run"
  BY DEF Stop
<1>2. Adds(FM, {"KILL"})
  BY <1>1, Consts, Zenon DEF Adds, SetFlags, Woken, IInv, Types, threads, flows, recycler
<1>3. Onwards /\ stage # "done" /\ "fmwait" \in Stages \ {"done"} /\ PhaseAt("fmwait")
  BY <1>1, Zenon DEF Onwards, Stages, PhaseAt, Freed, NoRecycle, NoHash, Killed, Drained, Forced, Looping,
     Asked, NoCapture, NoManager
<1>. QED
  BY <1>1, <1>2, <1>3, GotoStep

LEMMA ManagerGoneStep ==
    ASSUME IInv, ManagerGone
    PROVE  IInv'
<1>1. Goto("receive") /\ stage = "fmwait" /\ "RUNNING_DONE" \in flags[FM] /\ Adds(FM, {})
  BY NoFlags DEF ManagerGone
<1>2. Onwards /\ stage # "done" /\ "receive" \in Stages \ {"done"}
  BY <1>1, Zenon DEF Onwards, Stages, After, Freed, NoRecycle, NoHash, Killed, Drained, Forced, Looping, Asked
<1>3. PhaseAt("receive")
  BY <1>1, Zenon DEF PhaseAt, Freed, NoRecycle, NoHash, Killed, Drained, Forced, Looping, Asked, NoCapture
<1>. QED
  BY <1>1, <1>2, <1>3, GotoStep

LEMMA SkipStep ==
    ASSUME IInv, SkipThread \/ Validate
    PROVE  IInv'
  BY NoFlags, NextOfStep, Zenon DEF SkipThread, Validate, Scanning, Passed

\* The thread the main thread looks at.
LEMMA Looked ==
    ASSUME IInv, stage \in Scanning
    PROVE  /\ stage # "done" /\ idx \in 1..Len(tvs) /\ tvs[idx] \in Thread /\ tpc[tvs[idx]] # "off"
           /\ Seen(stage, step, tvs[idx]) /\ ScanAt(stage, idx, step) /\ PhaseAt(stage)
<1>1. stage # "done" /\ idx \in 1..Len(tvs) /\ tvs \in Seq(Thread)
  BY Zenon DEF IInv, Position, Scanning
<1>2. tpc[tvs[idx]] # "off"
  BY <1>1 DEF IInv, Position
<1>. QED
  BY <1>1, <1>2 DEF IInv, Scan, Phase, ScanAt

LEMMA ThreadIdleStep ==
    ASSUME IInv, Looking, ThreadIdle, UNCHANGED <<tvs, threads, flows, wire, recycler>>,
           stage = "receive" => tvs[idx] \in Receive,
           stage # "receive" => Passed(stage, tvs[idx])
    PROVE  IInv'
<1>1. stage \in Scanning
  BY DEF Looking, Scanning
<1>2. CASE stage # "receive"
  BY <1>2, NoFlags, <1>1, NextOfStep, Zenon DEF ThreadIdle
<1>3. CASE stage = "receive"
  <2>. DEFINE t == tvs[idx]
  <2>1. t \in Thread /\ t \in All /\ t \in Receive /\ FM \notin Thread /\ FR \notin Thread
    BY <1>1, <1>3, Looked, Consts, Zenon
  <2>2. Adds(t, {"REQ_FLOW_LOOP"})
    BY <2>1, <1>3, Zenon DEF Adds, SetFlags, Woken, IInv, Types, threads, flows, recycler, ThreadIdle
  <2>3. CASE "FLOW_LOOP" \in flags[t]
    BY <1>3, <2>3, <1>1, <2>2, NextOfStep, Zenon DEF ThreadIdle, Passed, InLoop
  <2>4. CASE "FLOW_LOOP" \notin flags[t]
    BY <1>3, <2>4, <2>2, AgainStep, Zenon DEF ThreadIdle
  <2>. QED
    BY <2>3, <2>4
<1>. QED
  BY <1>2, <1>3

\* On to the next look at the same thread.
LEMMA LookOn ==
    ASSUME IInv, Looking, NEW w \in {"work", "qlen"}, step' = w,
           UNCHANGED <<tvs, flags, threads, flows, wire, recycler>>, UNCHANGED <<stage, idx>>,
           tvs[idx] \in FlowWorkers, stage = "receive" => tvs[idx] \in Receive,
           Seen(stage, w, tvs[idx]),
           Len(pq[tvs[idx]]) + wire <= MaxLive
    PROVE  IInv'
<1>1. ScanAt(stage, idx, step) /\ PhaseAt(stage)
  BY Looked, Zenon DEF Looking, Scanning
<1>2. Position'
  BY Zenon DEF threads, IInv, Position, Looking
<1>. QED
  BY <1>1, NoFlags, <1>2, AddsStep, Zenon DEF ScanAt, Onwards

LEMMA LookPacketsStep ==
    ASSUME IInv, LookPackets
    PROVE  IInv'
<1>. DEFINE t == tvs[idx]
<1>1. Looking /\ stage \in Scanning /\ (stage = "receive" => t \in Receive)
      /\ UNCHANGED <<tvs, threads, flows, wire, recycler>>
  BY Zenon DEF LookPackets, Looking, Scanning
<1>2. CASE pq[t] # <<>>
  BY <1>2, NoFlags, <1>1, Looked, AgainStep, Zenon DEF LookPackets
<1>3. CASE pq[t] = <<>> /\ t \in FlowWorkers
  <2>1. Len(pq[t]) + wire <= MaxLive
    BY <1>3 DEF IInv, Types
  <2>. QED
    BY <1>1, <1>3, <2>1, LookOn, Zenon DEF LookPackets, Seen
<1>4. CASE pq[t] = <<>> /\ t \notin FlowWorkers
  BY <1>4, <1>1, ThreadIdleStep, Zenon DEF LookPackets, Passed, Looking
<1>. QED
  BY <1>2, <1>3, <1>4

\* A busy thread gets a packet that flushes its queues.
LEMMA FlushStep ==
    ASSUME IInv, Looking, step # "packets", NEW t, t = tvs[idx],
           pq' = [pq EXCEPT ![t] = Append(@, "flush")], tpc' = Signalled(t), Again,
           UNCHANGED <<tvs, flags, pkt, work, flows, wire, recycler>>
    PROVE  IInv'
<1>1. t \in Thread /\ tpc[t] # "off" /\ stage # "done" /\ stage \in {"receive", "drain1", "drain2", "drain3"}
  BY Looked, Zenon DEF Looking, Scanning
<1>2. t \in FlowWorkers /\ Len(pq[t]) + wire <= MaxLive
  BY <1>1, Zenon DEF IInv, Position, Room
<1>3. pq \in [Thread -> Seq({"live", "flush"})] /\ wire \in Nat
  BY Zenon DEF IInv, Types
<1>4. /\ Append(pq[t], "flush") \in Seq({"live", "flush"}) /\ Len(Append(pq[t], "flush")) = Len(pq[t]) + 1
      /\ Len(pq[t]) \in Nat /\ (NoLive(pq[t]) => NoLive(Append(pq[t], "flush")))
  BY <1>1, <1>3, QueueAppend, Zenon
<1>5. pq'[t] = Append(pq[t], "flush") /\ (\A u \in Thread : u # t => pq'[u] = pq[u])
      /\ pq' \in [Thread -> Seq({"live", "flush"})]
  BY <1>1, <1>3, <1>4, Zenon
<1>6. \A u \in Thread : NoLive(pq[u]) => NoLive(pq'[u])
  BY <1>4, <1>5, Zenon
<1>7. Woken /\ tpc' \in [Thread -> Place]
  BY <1>1, SignalledWakes, Zenon
<1>8. UNCHANGED <<loc, owner, rpc, busy, bail, stage>> /\ idx' = 1 /\ step' = "packets"
  BY Zenon DEF flows, recycler, Again, Goto
<1>9. Types'
  BY <1>5, <1>7, <1>8, Zenon DEF IInv, Types
<1>10. ASSUME NEW u \in Thread
       PROVE  /\ tpc'[u] = "off" <=> tpc[u] = "off"
              /\ (InLoop(u) => InLoop(u)') /\ (tpc[u] = "work" => tpc'[u] = "work")
  BY <1>7, WokenFits, Zenon DEF InLoop
<1>11. Phase'
  <2>1. PhaseAt(stage) /\ Receive \subseteq Thread
    BY Consts, Zenon DEF IInv, Phase
  <2>2. stage \notin Drained /\ stage \notin Killed /\ stage \notin NoHash /\ stage \notin NoRecycle /\ stage \notin Freed
        /\ stage \notin {"validate1", "flowloop", "cleanup"}
    BY <1>1, Zenon DEF Freed, NoRecycle, NoHash, Killed, Drained
  <2>3. /\ stage \in NoCapture => \A u \in Receive : InLoop(u)'
        /\ stage \in Looping => \A u \in Thread : InLoop(u)'
    BY <1>10, <2>1, Zenon DEF PhaseAt
  <2>4. stage \in {"drain2", "drain3"} => \A u \in Thread : NoLive(pq'[u])
    BY <1>6, <2>1, Zenon DEF PhaseAt
  <2>. QED
    BY <1>8, <2>1, <2>2, <2>3, <2>4, Zenon DEF Phase, PhaseAt
<1>12. Scan'
  BY <1>8 DEF Scan, ScanAt, Seen
<1>13. Position'
  <2>1. tvs' = tvs /\ tvs \in Setups /\ tvs \in Seq(Thread) /\ tvs # <<>>
    BY <1>1, ShutdownAssumption, Zenon DEF IInv, Position
  <2>2. 1 \in 1..Len(tvs)
    BY <2>1
  <2>3. \A u \in Thread : tpc'[u] # "off" <=> \E j \in 1..Len(tvs) : tvs[j] = u
    BY <1>1, <1>10, Zenon DEF IInv, Position
  <2>. QED
    BY <1>1, <1>8, <2>1, <2>2, <2>3 DEF IInv, Position
<1>14. ASSUME NEW u \in Thread PROVE ThreadOk(u)' /\ Room(u)'
  <2>1. Fits(u, tpc'[u], pkt[u], pq[u], flags[u]) /\ (tpc'[u] = "off" <=> tpc[u] = "off")
    BY <1>7, WokenFits, Zenon
  <2>2. Fits(u, tpc'[u], pkt[u], pq'[u], flags[u])
    BY <2>1, <1>1, <1>2, <1>5, <1>6, Zenon DEF Fits, PlaceOk, LiveOk
  <2>3. Len(pq'[u]) + wire <= MaxLive + 1
    <3>1. CASE u = t
      BY <1>2, <1>3, <1>4, <1>5, <3>1, Consts
    <3>2. CASE u # t
      BY <1>5, <3>2, Zenon DEF IInv, Room
    <3>. QED
      BY <3>1, <3>2, Zenon
  <2>. QED
    BY <1>8, <2>2, <2>3, Zenon DEF Room, ThreadOk, Fits, AskedOk
<1>15. \A f \in Flow : FlowOk(f)'
  BY <1>7, <1>8, WokenFlow, Zenon
<1>16. RecyclerOk'
  BY <1>8, RecyclerSame, Zenon
<1>. QED
  BY <1>9, <1>11, <1>12, <1>13, <1>14, <1>15, <1>16, Zenon DEF IInv

LEMMA LookBusyStep ==
    ASSUME IInv, LookBusy
    PROVE  IInv'
<1>. DEFINE t == tvs[idx]
            empty == IF step = "work" THEN In("work", t) = {} ELSE In("queue", t) = {}
<1>1. /\ Looking /\ step \in {"work", "qlen"} /\ stage \in Scanning
      /\ \/ /\ empty /\ step = "work"
            /\ step' = "qlen" /\ UNCHANGED <<pq, tpc, stage, idx, flags>>
         \/ empty /\ step = "qlen" /\ ThreadIdle /\ UNCHANGED <<pq, tpc>>
         \/ /\ pq' = [pq EXCEPT ![t] = Append(@, "flush")]
            /\ tpc' = Signalled(t)
            /\ Again /\ UNCHANGED flags
      /\ UNCHANGED <<tvs, pkt, work, flows, wire, recycler>>
  BY Zenon DEF LookBusy, Looking, Scanning
<1>2. t \in FlowWorkers /\ t \in Thread /\ (stage = "receive" => t \in Receive)
  BY <1>1, Looked, Zenon DEF IInv, Position
<1>3. Seen(stage, step, t) /\ Len(pq[t]) + wire <= MaxLive
  BY <1>1, <1>2, Looked, Zenon DEF IInv, Room
<1>4. CASE empty /\ step = "work" /\ step' = "qlen" /\ UNCHANGED <<pq, tpc, stage, idx, flags>>
  <2>1. Seen(stage, "qlen", t)
    BY <1>3, <1>4, Zenon DEF Seen, In, WorkLeft
  <2>2. UNCHANGED <<tvs, flags, threads, flows, wire, recycler>> /\ UNCHANGED <<stage, idx>>
    BY <1>1, <1>4, Zenon DEF threads
  <2>. QED
    BY <1>1, <1>2, <1>3, <1>4, <2>1, <2>2, LookOn, Zenon
<1>5. CASE empty /\ step = "qlen" /\ ThreadIdle /\ UNCHANGED <<pq, tpc>>
  <2>1. stage # "receive" => Passed(stage, t)
    BY <1>1, <1>3, <1>5, Zenon DEF Seen, Passed, Settled, Looking, In
  <2>2. UNCHANGED <<tvs, threads, flows, wire, recycler>>
    BY <1>1, <1>5, Zenon DEF threads
  <2>. QED
    BY <1>1, <1>2, <1>5, <2>1, <2>2, ThreadIdleStep, Zenon
<1>6. CASE pq' = [pq EXCEPT ![t] = Append(@, "flush")] /\ tpc' = Signalled(t) /\ Again /\ UNCHANGED flags
  BY <1>1, <1>6, FlushStep, Zenon
<1>. QED
  BY <1>1, <1>4, <1>5, <1>6, Zenon

LEMMA DisableThreadStep ==
    ASSUME IInv, DisableThread
    PROVE  IInv'
<1>. DEFINE t == tvs[idx]
            add == {IF stage = "kill" THEN "KILL" ELSE "REQ_FLOW_LOOP"}
<1>1. stage \in {"flowloop", "kill"} /\ stage \in Scanning
  BY Zenon DEF DisableThread, Scanning
<1>2. t \in Thread /\ stage # "done" /\ t # FM /\ t # FR /\ t \in All
  BY <1>1, Looked, Consts, Zenon
<1>3. SetFlags(t, add) /\ tpc' = Signalled(t)
  BY Zenon DEF DisableThread
<1>4. Woken /\ tpc' \in [Thread -> Place]
  BY <1>2, <1>3, SignalledWakes, Zenon
<1>5. UNCHANGED <<tvs, pq, pkt, work, loc, owner, wire, rpc, busy, bail>>
  BY Zenon DEF DisableThread, flows, recycler
<1>6. CASE (IF stage = "kill" THEN "RUNNING_DONE" ELSE "FLOW_LOOP") \in flags[t]
  <2>1. NextOf(tvs)
    BY <1>6 DEF DisableThread
  <2>2. Onwards
    BY <1>1, <2>1, NextOnwards
  <2>3. Passed(stage, t)
    BY <1>1, <1>6, Zenon DEF Passed, InLoop, OutOfLoop
  <2>4. Adds(t, add)
    BY <1>1, <1>2, <1>3, <1>4, <1>5, <2>2, Zenon DEF Adds, SetFlags, Onwards, Asked, Looping, Forced, Drained
  <2>. QED
    BY <1>1, <2>1, <2>3, <2>4, NextOfStep
<1>7. CASE (IF stage = "kill" THEN "RUNNING_DONE" ELSE "FLOW_LOOP") \notin flags[t]
  <2>1. Again
    BY <1>7 DEF DisableThread
  <2>2. Adds(t, add)
    BY <1>1, <1>2, <1>3, <1>4, <1>5, <2>1, Zenon DEF Adds, SetFlags, Again, Goto, Asked, Looping, Forced,
       Drained
  <2>. QED
    BY <1>2, <2>1, <2>2, AgainStep
<1>. QED
  BY <1>6, <1>7

LEMMA FlowRemoveHashStep ==
    ASSUME IInv, FlowRemoveHash
    PROVE  IInv'
<1>1. stage = "cleanup" /\ stage \notin Forced
  BY StageSets, Zenon DEF FlowRemoveHash
<1>2. ASSUME NEW f \in Needs, loc[f] = InHash, Inject(f), UNCHANGED main PROVE IInv'
  BY <1>2, <1>1, InjectStep, Zenon DEF FlowRemoveHash
<1>3. CASE (\A f \in Needs : loc[f] # InHash) /\ Goto("drain3") /\ UNCHANGED <<loc, tpc>>
  <2>1. Adds(FM, {})
    BY <1>3, NoFlags, Zenon DEF FlowRemoveHash, threads, flows
  <2>2. Onwards /\ stage # "done" /\ "drain3" \in Stages \ {"done"}
    BY <1>1, <1>3, Zenon DEF Onwards, Goto, Stages, After, Freed, NoRecycle, NoHash, Killed, Drained, Forced,
       Looping, Asked
  <2>3. PhaseAt("cleanup")
    BY <1>1 DEF IInv, Phase
  <2>4. \A t \in Thread : NoLive(pq[t])
    BY <2>3, QueueEmpty, Zenon DEF PhaseAt
  <2>5. PhaseAt("drain3")
    BY <1>3, <2>3, <2>4, Zenon DEF PhaseAt, Freed, NoRecycle, NoHash, Killed, Drained, Forced, Looping, Asked,
       NoCapture, NoManager
  <2>. QED
    BY <1>3, <2>1, <2>2, <2>5, GotoStep
<1>. QED
  BY <1>2, <1>3, Zenon DEF FlowRemoveHash

LEMMA FlowCleanupHashStep ==
    ASSUME IInv, FlowCleanupHash
    PROVE  IInv'
<1>1. stage = "hash" /\ stage \notin NoRecycle
  BY StageSets, Zenon DEF FlowCleanupHash
<1>2. ASSUME NEW f \in Flow, loc[f] \in {InHash, Evicted}, loc' = [loc EXCEPT ![f] = Recycle], UNCHANGED main
      PROVE  IInv'
  BY <1>2, <1>1, RecycleStep, Zenon DEF FlowCleanupHash
<1>3. CASE (\A f \in Flow : loc[f] \notin {InHash, Evicted}) /\ Goto("recwait") /\ UNCHANGED loc
  <2>1. Adds(FM, {})
    BY <1>3, NoFlags, Zenon DEF FlowCleanupHash, flows
  <2>2. Onwards /\ stage # "done" /\ "recwait" \in Stages \ {"done"}
    BY <1>1, <1>3 DEF Onwards, Goto, Stages, Freed, NoRecycle, NoHash, Killed, Drained, Forced, Looping, Asked
  <2>3. PhaseAt("hash") /\ \A f \in Flow : loc[f] # InHash /\ loc[f] # Evicted
    BY <1>1, <1>3 DEF IInv, Phase
  <2>4. PhaseAt("recwait")
    BY <2>3, Zenon DEF PhaseAt, Freed, NoRecycle, NoHash, Killed, Drained, Forced, Looping, Asked, NoCapture,
       NoManager
  <2>. QED
    BY <1>3, <2>1, <2>2, <2>4, GotoStep
<1>. QED
  BY <1>2, <1>3, Zenon DEF FlowCleanupHash

LEMMA RecyclerReadyStep ==
    ASSUME IInv, RecyclerReady
    PROVE  IInv'
<1>1. stage = "recwait" /\ PhaseAt("recwait") /\ UNCHANGED <<tvs, threads, flows, wire, recycler>>
  BY Zenon DEF RecyclerReady, IInv, Phase
<1>2. CASE step' = "qlen" /\ UNCHANGED <<stage, idx, flags>>
  <2>1. Adds(FM, {}) /\ Onwards
    BY <1>1, <1>2, NoFlags DEF Onwards
  <2>2. stage' = "recwait" /\ idx' = idx /\ step' = "qlen" /\ tvs' = tvs /\ tpc' = tpc
    BY <1>1, <1>2 DEF threads
  <2>3. ScanAt("recwait", idx, "qlen")
    BY DEF ScanAt, Passed, Seen
  <2>4. Position'
    BY <1>1, <2>2 DEF IInv, Position, Looking, Scanning
  <2>5. ~Looking'
    BY <2>2 DEF Looking
  <2>. QED
    BY <1>1, <2>1, <2>2, <2>3, <2>4, <2>5, AddsStep, Zenon
<1>3. CASE Again /\ UNCHANGED flags
  BY <1>1, <1>3, NoFlags, AgainStep
<1>4. CASE (\A f \in Flow : loc[f] # Recycle) /\ SetFlags(FR, {"KILL"}) /\ Goto("recend")
  <2>1. Onwards /\ stage # "done" /\ "recend" \in Stages \ {"done"} /\ stage' \in NoRecycle
    BY <1>1, <1>4 DEF Onwards, Goto, Stages, Freed, NoRecycle, NoHash, Killed, Drained, Forced, Looping, Asked
  <2>2. Adds(FR, {"KILL"})
    BY <1>1, <1>4, <2>1, Consts, Zenon DEF Adds, SetFlags, Woken, IInv, Types, threads, flows, recycler
  <2>3. PhaseAt("recend")
    BY <1>1, <1>4, Zenon DEF PhaseAt, Freed, NoRecycle, NoHash, Killed, Drained, Forced, Looping, Asked,
       NoCapture, NoManager
  <2>. QED
    BY <1>4, <2>1, <2>2, <2>3, GotoStep
<1>. QED
  BY <1>2, <1>3, <1>4, Zenon DEF RecyclerReady

LEMMA RecyclerGoneStep ==
    ASSUME IInv, RecyclerGone
    PROVE  IInv'
<1>1. stage = "recend" /\ PhaseAt("recend") /\ "RUNNING_DONE" \in flags[FR] /\ Goto("killmgmt") /\ Adds(FM, {})
  BY NoFlags, Zenon DEF RecyclerGone, IInv, Phase
<1>2. Onwards /\ stage # "done" /\ "killmgmt" \in Stages \ {"done"}
  BY <1>1, Zenon DEF Onwards, Goto, Stages, After, Freed, NoRecycle, NoHash, Killed, Drained, Forced, Looping,
     Asked
<1>3. PhaseAt("killmgmt")
  BY <1>1, Zenon DEF PhaseAt, Freed, NoRecycle, NoHash, Killed, Drained, Forced, Looping, Asked, NoCapture,
     NoManager
<1>. QED
  BY <1>1, <1>2, <1>3, GotoStep

\* TmThreadKillThread goes through the management threads, then the packet threads.
LEMMA KillThreadStep ==
    ASSUME IInv, KillThread
    PROVE  IInv'
<1>. DEFINE list == IF stage = "killmgmt" THEN Mgmt ELSE tvs
            t == list[idx]
            add == IF "CLOSED" \in flags[t] THEN {"DEAD"} ELSE {"KILL", "DEINIT"}
<1>1. stage \in {"killmgmt", "killppt"} /\ UNCHANGED <<tvs, threads, flows, wire, recycler>>
  BY Zenon DEF KillThread
<1>2. t \in All /\ stage # "done"
  <2>1. CASE stage = "killmgmt"
    <3>1. idx \in 1..2
      BY <2>1 DEF IInv, Position
    <3>. QED
      BY <2>1, <3>1, Consts DEF Mgmt
  <2>2. CASE stage = "killppt"
    BY <2>2, Looked, Consts, Zenon DEF Scanning
  <2>. QED
    BY <1>1, <2>1, <2>2
<1>3. SetFlags(t, add) /\ IF "CLOSED" \in flags[t] THEN NextOf(list) ELSE Again
  BY Zenon DEF KillThread
<1>4. ASSUME stage' \in Freed PROVE Adds(t, add)
  <2>1. /\ add \subseteq {"REQ_FLOW_LOOP", "KILL", "DEINIT", "DEAD"}
        /\ flags' = [flags EXCEPT ![t] = @ \cup add]
    BY <1>3, Zenon DEF SetFlags
  <2>2. stage' \in Asked /\ stage' \in Killed /\ stage' \in NoRecycle
    BY <1>4 DEF NoRecycle, NoHash, Killed, Drained, Forced, Looping, Asked
  <2>3. Woken /\ tpc' \in [Thread -> Place]
    BY <1>1, Zenon DEF Woken, IInv, Types, threads
  <2>4. UNCHANGED <<tvs, pq, pkt, work, loc, owner, wire, rpc, busy, bail>>
    BY <1>1 DEF threads, flows, recycler
  <2>. HIDE DEF add, t
  <2>. QED
    BY <1>2, <2>1, <2>2, <2>3, <2>4, Zenon DEF Adds
<1>. HIDE DEF add, t
<1>5. CASE "CLOSED" \notin flags[t]
  <2>1. Again /\ stage' \in Freed
    BY <1>1, <1>3, <1>5 DEF Again, Goto, Freed
  <2>. QED
    BY <1>2, <1>4, <2>1, AgainStep
<1>6. CASE "CLOSED" \in flags[t] /\ stage = "killppt"
  BY <1>3, <1>6, <1>4, NextOfStep, Zenon DEF Scanning, Passed, NextOf, Goto, After, Freed
<1>7. CASE "CLOSED" \in flags[t] /\ stage = "killmgmt"
  <2>1. NextOf(Mgmt) /\ Len(Mgmt) = 2 /\ PhaseAt("killmgmt") /\ idx \in 1..2
    BY <1>3, <1>7, Zenon DEF Mgmt, IInv, Phase, Position
  <2>2. CASE idx < 2
    <3>1. idx' = 2 /\ step' = "packets" /\ stage' = "killmgmt" /\ stage' \in Freed /\ tvs' = tvs /\ tpc' = tpc
      BY <1>1, <1>7, <2>1, <2>2 DEF NextOf, Freed, threads
    <3>2. Onwards /\ Adds(t, add)
      BY <1>4, <1>7, <3>1 DEF Onwards
    <3>3. ScanAt("killmgmt", 2, "packets")
      BY DEF ScanAt, Passed, Seen
    <3>4. Position'
      BY <1>7, <3>1 DEF IInv, Position, Looking, Scanning
    <3>. QED
      BY <2>1, <3>1, <3>2, <3>3, <3>4, AddsStep, Zenon
  <2>3. CASE idx = 2
    <3>1. Goto("killppt") /\ stage' \in Freed
      BY <1>7, <2>1, <2>3 DEF NextOf, Goto, After, Freed
    <3>2. Onwards /\ "killppt" \in Stages \ {"done"}
      BY <1>7, <3>1, Zenon DEF Goto, Onwards, Stages, After, Freed, NoRecycle, NoHash, Killed, Drained, Forced,
         Looping, Asked
    <3>3. PhaseAt("killppt")
      BY <2>1, Zenon DEF PhaseAt, Freed, NoRecycle, NoHash, Killed, Drained, Forced, Looping, Asked, NoCapture,
         NoManager
    <3>. QED
      BY <1>2, <1>4, <3>1, <3>2, <3>3, GotoStep
  <2>. QED
    BY <2>1, <2>2, <2>3
<1>. QED
  BY <1>1, <1>5, <1>6, <1>7

\* The list of threads is empty from here on; everything else stays as it is.
LEMMA ClearThreadsStep ==
    ASSUME IInv, ClearThreads
    PROVE  IInv'
<1>1. /\ stage = "clear" /\ tvs' = <<>> /\ stage' = "done" /\ idx' = 1 /\ step' = "packets"
      /\ UNCHANGED <<flags, pq, tpc, pkt, work, loc, owner, wire, rpc, busy, bail>>
  BY DEF ClearThreads, Goto, threads, flows, recycler
<1>2. Types' /\ \A f \in Flow : FlowOk(f)'
  BY <1>1, Zenon DEF IInv, Types, FlowOk
<1>3. Position'
  BY <1>1 DEF Position, Stages, Looking, Scanning
<1>4. Phase'
  <2>1. PhaseAt("clear")
    BY <1>1 DEF IInv, Phase
  <2>2. PhaseAt("done")
    BY <2>1, Zenon DEF PhaseAt, Freed, NoRecycle, NoHash, Killed, Drained, Forced, Looping, Asked, NoCapture,
       NoManager
  <2>. QED
    BY <1>1, <2>2 DEF Phase, PhaseAt, InLoop, OutOfLoop, Settled, WorkLeft
<1>5. Scan'
  BY <1>1 DEF Scan, ScanAt
<1>6. stage' \in NoRecycle /\ stage' \in Asked /\ stage' \in Killed
  BY <1>1 DEF Freed, NoRecycle, NoHash, Killed, Drained, Forced, Looping, Asked
<1>7. RecyclerOk'
  BY <1>1, <1>6, Zenon DEF IInv, RecyclerOk
<1>8. ASSUME NEW t \in Thread PROVE ThreadOk(t)' /\ Room(t)'
  <2>1. ThreadOk(t) /\ Len(pq[t]) + wire <= MaxLive + 1
    BY DEF IInv, Room
  <2>2. ThreadOk(t)'
    BY <1>1, <1>6, <2>1, Zenon DEF ThreadOk, Fits, PlaceOk, LiveOk, AskedOk
  <2>. QED
    BY <1>1, <2>1, <2>2 DEF Room, Looking
<1>. QED
  BY <1>2, <1>3, <1>4, <1>5, <1>7, <1>8 DEF IInv

-----------------------------------------------------------------------------
(* Theorems. *)

LEMMA InitIInv == Init => IInv
<1>. SUFFICES ASSUME Init PROVE IInv
  OBVIOUS
<1>1. /\ tvs \in Setups /\ flags = [t \in All |-> {}] /\ pq = [t \in Thread |-> <<>>]
      /\ pkt = [t \in Thread |-> None] /\ work = [t \in Thread |-> 0]
      /\ tpc = [t \in Thread |-> IF \A i \in 1..Len(tvs) : tvs[i] # t THEN "off"
                                 ELSE IF t \in Receive THEN "acq" ELSE "in"]
  BY Zenon DEF Init
<1>2. /\ loc \in [Flow -> {InHash, Spare}]
      /\ owner \in [Flow -> {t \in FlowWorkers : tpc[t] # "off"} \cup {None}]
      /\ \A f \in Flow : owner[f] = None <=> loc[f] = Spare \/ f \notin Tcp
  BY Zenon DEF Init
<1>3. /\ wire = MaxLive /\ rpc = "top" /\ busy = 0 /\ bail = FALSE
      /\ stage = "run" /\ idx = 1 /\ step = "packets"
  BY Zenon DEF Init
<1>4. \A t \in Thread : /\ tpc[t] = IF \A i \in 1..Len(tvs) : tvs[i] # t THEN "off"
                                    ELSE IF t \in Receive THEN "acq" ELSE "in"
                        /\ pq[t] = <<>> /\ pkt[t] = None /\ flags[t] = {}
  BY <1>1, Consts, Zenon
<1>5. Types
  <2>1. flags \in [All -> SUBSET Flags] /\ pq \in [Thread -> Seq({"live", "flush"})]
    BY <1>1
  <2>2. tpc \in [Thread -> Place]
    BY <1>1 DEF Place
  <2>3. pkt \in [Thread -> {None, "live", "flush", "timeout"}] /\ work \in [Thread -> 0..MaxWork]
    BY Consts, <1>1
  <2>4. loc \in [Flow -> Loc] /\ owner \in [Flow -> FlowWorkers \cup {None}]
    BY <1>2 DEF Loc
  <2>5. wire \in Nat /\ wire <= MaxLive /\ busy \in 0..1
    BY <1>3, Consts
  <2>. QED
    BY <1>3, <2>1, <2>2, <2>3, <2>4, <2>5, Zenon DEF Types
<1>6. Position
  BY <1>1, ShutdownAssumption, <1>4, <1>3, Zenon DEF Position, Stages, Looking, Scanning
<1>7. RecyclerOk
  <2>1. \A f \in Flow : loc[f] # Listed
    BY <1>2, Places, Zenon
  <2>. QED
    BY <1>3, <1>1, Consts, <2>1, Zenon DEF RecyclerOk
<1>8. Phase
  BY <1>3, Zenon DEF Phase, PhaseAt, Freed, NoRecycle, NoHash, Killed, Drained, Forced, Looping, Asked,
     NoCapture, NoManager
<1>9. Scan
  BY <1>3, ScanStart DEF Scan
<1>10. ASSUME NEW t \in Thread PROVE ThreadOk(t) /\ Room(t)
  <2>1. pq[t] = <<>> /\ pkt[t] = None /\ flags[t] = {} /\ NoLive(<<>>) /\ (t \in Receive \/ t \in FlowWorkers)
    BY <1>4, QueueEmpty, Consts, Zenon
  <2>2. Fits(t, tpc[t], None, <<>>, {})
    BY <1>4, <2>1, Consts, Zenon DEF Fits, PlaceOk, LiveOk, AskedOk, WithPacket
  <2>3. Room(t)
    BY <1>3, <2>1, Consts, QueueEmpty DEF Room
  <2>. QED
    BY <2>1, <2>2, <2>3 DEF ThreadOk
<1>11. ASSUME NEW f \in Flow PROVE FlowOk(f)
  BY <1>2, Places, Zenon DEF Queues, FlowOk
<1>. QED
  BY <1>5, <1>6, <1>7, <1>8, <1>9, <1>10, <1>11 DEF IInv

LEMMA NextIInv == IInv /\ [Next]_vars => IInv'
<1>. SUFFICES ASSUME IInv, [Next]_vars PROVE IInv'
  OBVIOUS
<1>1. CASE UNCHANGED vars \/ Done
  <2>1. UNCHANGED <<tvs, flags, pq, tpc, pkt, work, loc, owner, wire, rpc, busy, bail, stage, idx, step>>
    BY <1>1, Zenon DEF vars, threads, flows, recycler, main, Done
  <2>2. Types' /\ RecyclerOk'
    BY <2>1, Zenon DEF IInv, Types, RecyclerOk
  <2>3. Position'
    BY <2>1, Zenon DEF IInv, Position, Looking
  <2>4. Phase'
    BY <2>1, Zenon DEF IInv, Phase, PhaseAt, InLoop, OutOfLoop, Settled, WorkLeft
  <2>7. Scan'
    BY <2>1, Zenon DEF IInv, Scan, ScanAt, Passed, Seen, InLoop, OutOfLoop, Settled, WorkLeft
  <2>5. \A t \in Thread : ThreadOk(t)' /\ Room(t)'
    BY <2>1, Zenon DEF IInv, ThreadOk, Fits, PlaceOk, LiveOk, AskedOk, Room, Looking
  <2>6. \A f \in Flow : FlowOk(f)'
    BY <2>1, Zenon DEF IInv, FlowOk
  <2>. QED
    BY <2>2, <2>3, <2>4, <2>7, <2>5, <2>6, Zenon DEF IInv
<1>2. CASE Stop \/ Main
  BY <1>2, StopStep, ManagerGoneStep, SkipStep, LookPacketsStep, LookBusyStep, DisableThreadStep,
     FlowRemoveHashStep, FlowCleanupHashStep, RecyclerReadyStep, RecyclerGoneStep, KillThreadStep,
     ClearThreadsStep, Zenon DEF Main
<1>3. ASSUME NEW t \in Thread, PacketThread(t) PROVE IInv'
  <2>1. CASE \E f \in Flow : WorkTake(t, f) \/ WorkFinish(t, f)
    BY <2>1, WorkTakeOwn, WorkFinishOwn, OwnStep
  <2>2. CASE ~\E f \in Flow : WorkTake(t, f) \/ WorkFinish(t, f)
    BY <1>3, <2>2, CaptureTimeoutOwn, CaptureEndOwn, InputOwn, LookupDoneOwn, ExtractOwn, AppendWorkOwn,
       OutputOwn, HandleInjectedOwn, TmThreadTimeoutLoopOwn, DeinitOwn, OwnStep, Zenon DEF PacketThread
  <2>. QED
    BY <2>1, <2>2
<1>4. ASSUME NEW t \in Thread, Arrival(t) PROVE IInv'
  BY <1>4, CaptureSendStep, ReceiveOwnOwn, LookupEvictOwn, LookupNewOwn, OwnStep, Zenon DEF Arrival
<1>5. CASE (\E f \in Flow : ManagerTimeout(f)) \/ ManagerEnd \/ \E t \in {FM, FR} : ManagementDeinit(t)
  BY <1>5, ManagerTimeoutStep, ManagerEndStep, ManagementDeinitStep
<1>6. CASE Recycler
  BY <1>6, RecyclerStep
<1>. QED
  BY <1>1, <1>2, <1>3, <1>4, <1>5, <1>6, Zenon DEF Next

\* The inductive invariant holds throughout a graceful stop.
THEOREM Invariance == Spec => []IInv
  BY InitIInv, NextIInv, PTL DEF Spec

\* A flow worker that has left its loops was told to by the main thread, which had seen
\* its queues empty; flows that are on their way are only in a thread that still runs.
LEMMA OutOfLoopEmpty ==
    ASSUME IInv, NEW t \in FlowWorkers, "RUNNING_DONE" \in flags[t]
    PROVE  pq[t] = <<>> /\ \A f \in Flow : \A q \in Queues : loc[f] # <<q, t>>
<1>1. t \in Thread /\ PlaceOk(t, tpc[t], pkt[t], pq[t], flags[t]) /\ AskedOk(t, flags[t])
  BY Consts, SameAt, Zenon DEF Fits
<1>2. stage \in Drained
  BY <1>1, Zenon DEF AskedOk, Drained
<1>3. pq[t] = <<>> /\ Settled(t)
  BY <1>1, <1>2, Zenon DEF IInv, Phase, PhaseAt
<1>4. ASSUME NEW f \in Flow PROVE \A q \in Queues : loc[f] # <<q, t>>
  <2>1. (loc[f] = <<"injected", t>> => tpc[t] = "append") /\ (loc[f] = <<"hand", t>> => tpc[t] = "work")
    BY <1>1, Zenon DEF IInv, FlowOk
  <2>. QED
    BY <1>1, <2>1, <1>3, Zenon DEF Queues, PlaceOk, Settled, WorkLeft
<1>. QED
  BY <1>3, <1>4

\* No flow is lost: when TmThreadClearThreadsFamily runs, every flow has been through
\* CheckWorkQueue or the recycler, and is spare.
THEOREM AllFlowsEnd == Spec => []NoFlowLost
<1>1. IInv => NoFlowLost
  <2>. SUFFICES ASSUME IInv PROVE NoFlowLost
    OBVIOUS
  <2>1. TypeOK
    <3>1. Types /\ tvs \in Setups \cup {<<>>} /\ stage \in Stages
      BY DEF IInv, Position
    <3>2. ASSUME NEW t \in Thread PROVE pq[t] \in Seq({"live", "flush"}) /\ Len(pq[t]) <= MaxLive + 1
      <4>1. Len(pq[t]) + wire <= MaxLive + 1
        BY DEF IInv, Room
      <4>. QED
        BY <3>1, Consts, <4>1 DEF Types
    <3>. QED
      BY <3>1, <3>2, Zenon DEF Types, TypeOK, Flags, Loc, Queues
  <2>2. ASSUME stage \in {"clear", "done"}, NEW f \in Flow PROVE loc[f] = Spare
    <3>1. stage \in Freed /\ stage \in Killed /\ stage \in NoHash /\ stage \in NoRecycle
      BY <2>2 DEF Freed, Killed, NoHash, NoRecycle
    <3>2. loc[f] # InHash /\ loc[f] # Evicted /\ loc[f] # Recycle /\ "RUNNING_DONE" \in flags[FR]
      BY <3>1, Zenon DEF IInv, Phase, PhaseAt
    <3>3. loc[f] # Listed
      BY <3>2 DEF IInv, RecyclerOk
    <3>4. ASSUME NEW q \in Queues, NEW t \in FlowWorkers, loc[f] = <<q, t>> PROVE FALSE
      <4>1. t \in Thread
        BY Consts
      <4>2. tpc[t] # "off"
        BY <3>4, <4>1, Zenon DEF IInv, FlowOk
      <4>3. "RUNNING_DONE" \in flags[t]
        BY <3>1, <4>1, <4>2, Zenon DEF IInv, Phase, PhaseAt, OutOfLoop
      <4>. QED
        BY <3>4, <4>3, OutOfLoopEmpty
    <3>5. loc[f] \in Loc
      BY DEF IInv, Types
    <3>. QED
      BY <3>2, <3>3, <3>4, <3>5 DEF Loc
  <2>. QED
    BY <2>1, <2>2 DEF NoFlowLost
<1>. QED
  BY <1>1, Invariance, PTL

\* What TmThreadDebugValidateNoMorePackets asserts, both times it is called.
THEOREM NoPacketsLeft == Spec => []NoMorePackets
<1>1. IInv => NoMorePackets
  BY Looked, Zenon DEF NoMorePackets, Scanning, Drained, PhaseAt
<1>. QED
  BY <1>1, Invariance, PTL

\* FlowWorkToDoCleanup meets no packet from the wire, and its work is not undone.
THEOREM ForcedAfterLive == Spec => []LiveBeforeForced
<1>1. IInv => LiveBeforeForced
  <2>. SUFFICES ASSUME IInv PROVE LiveBeforeForced
    OBVIOUS
  <2>1. ASSUME stage \in {"cleanup", "drain3", "validate2", "kill", "hash"}, NEW t \in Thread
        PROVE  pkt[t] # "live" /\ NoLive(pq[t])
    <3>1. stage \in Looping /\ (stage = "drain3" \/ stage \in {"validate1", "flowloop", "cleanup"} \cup Drained)
      BY <2>1 DEF Looping, Forced, Drained, Killed
    <3>2. InLoop(t) /\ NoLive(pq[t])
      BY <3>1, QueueEmpty, Zenon DEF IInv, Phase, PhaseAt
    <3>. QED
      BY <3>2, SameAt, Consts, Zenon DEF InLoop, PlaceOk, LiveOk, WithPacket, Fits
  <2>2. stage \in {"drain3", "validate2", "kill", "hash"} => \A f \in Needs : loc[f] # InHash
    BY Zenon DEF IInv, Phase, PhaseAt, Forced, Drained, Killed
  <2>. QED
    BY <2>1, <2>2, Zenon DEF LiveBeforeForced, NoLive
<1>. QED
  BY <1>1, Invariance, PTL

\* The BUG_ONs of TmThreadFree: a thread out of its loops has no packets and no flows.
THEOREM DoneThreadsHaveNothing == Spec => []DoneThreadsEmpty
<1>1. IInv => DoneThreadsEmpty
  BY OutOfLoopEmpty, Zenon DEF DoneThreadsEmpty, In, Queues
<1>. QED
  BY <1>1, Invariance, PTL
=============================================================================
