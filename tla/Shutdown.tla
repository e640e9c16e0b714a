------------------------------ MODULE Shutdown ------------------------------
(* The graceful stop of a packet run mode: PostRunDeinit in the main thread, the packet   *)
(* threads (TmThreadsSlotVar, TmThreadsSlotPktAcqLoop and the flow loop that follows), the *)
(* flow manager and the flow recycler, with the flows they hand to each other.            *)
(*                                                                                        *)
(* A flow is in the hash ("head"), on the evicted list of its row, on the flow_queue of a *)
(* thread ("queue"), in the local variable it is moved with ("injected"), on the          *)
(* work_queue ("work"), being finished by CheckWorkQueue ("hand"), on flow_recycle_q, on  *)
(* the list of the recycler, or ended and spare.  Lists of flows are sets.                *)
(* The limits of 60 seconds of the waiting loops are taken not to be reached.  Every      *)
(* packet thread captures or has a flow worker: the verdict threads of an inline autofp   *)
(* mode, which have neither, are left out.                                                *)
EXTENDS Naturals, Sequences

CONSTANTS
    Thread,         \* packet threads
    Receive,        \* those with TM_FLAG_RECEIVE_TM
    FlowWorkers,    \* those with TM_FLAG_FLOWWORKER_TM
    Setups,         \* run modes: the sequences tv_root[TVT_PPT] can be
    Flow,
    Tcp,            \* flows with a TCP session
    Needs,          \* those for which FlowNeedsReassembly holds
    MaxLive,        \* bound: packets that still arrive
    MaxWork,        \* flows CheckWorkQueue finishes for a packet (2)
    None

ASSUME ShutdownAssumption ==
    /\ Receive \subseteq Thread /\ FlowWorkers \subseteq Thread
    /\ Thread \subseteq Receive \cup FlowWorkers
    /\ Setups \subseteq Seq(Thread) \ {<<>>}
    /\ Needs \subseteq Tcp /\ Tcp \subseteq Flow
    /\ MaxLive \in Nat /\ MaxWork \in Nat \ {0}
    /\ None \notin Thread /\ None \notin {"live", "flush", "timeout"}
    /\ "FlowManager" \notin Thread /\ "FlowRecycler" \notin Thread

VARIABLES
    tvs,            \* tv_root[TVT_PPT]
    flags,          \* THV_* of each thread
    pq,             \* stream_pq: the input queue of a worker, or its stream_pq_local
    tpc, pkt, work, \* packet threads: where, pkt_src of the packet, flows finished for it
    loc, owner,     \* of each flow: where it is, thread_id[0] (of interest for TCP only)
    wire,           \* packets still to arrive
    rpc, busy, bail,\* flow recycler: where, flowrec_busy, the local bail
    stage, idx, step \* main thread: part of PostRunDeinit, thread it looks at, where

threads == <<pq, tpc, pkt, work>>
flows   == <<loc, owner>>
recycler == <<rpc, busy, bail>>
main    == <<stage, idx, step>>
vars    == <<tvs, flags, threads, flows, wire, recycler, main>>

FM == "FlowManager"
FR == "FlowRecycler"
Mgmt == <<FM, FR>>
All == Thread \cup {FM, FR}

\* A thread of autofp that reads packets from the queue of the capture threads.
HasInq(t) == t \notin Receive

InHash  == <<"head", None>>
Evicted == <<"evicted", None>>
Recycle == <<"recycle", None>>
Listed  == <<"list", None>>
Spare   == <<"spare", None>>

In(where, t) == {f \in Flow : loc[f] = <<where, t>>}

Moved(fs, to) == [f \in Flow |-> IF f \in fs THEN to ELSE loc[f]]

\* SCCondSignal on the input queue: it wakes up the thread only if it waits.
Signalled(t) == IF tpc[t] = "wait" THEN [tpc EXCEPT ![t] = "woken"] ELSE tpc

SetFlags(t, s) == flags' = [flags EXCEPT ![t] = @ \cup s]

\* THV_* flags start out clear; all threads run, the flows in the hash were created before.
Init ==
    /\ tvs \in Setups
    /\ flags = [t \in All |-> {}]
    /\ pq = [t \in Thread |-> <<>>]
    /\ tpc = [t \in Thread |-> IF \A i \in 1..Len(tvs) : tvs[i] # t THEN "off"
                               ELSE IF t \in Receive THEN "acq" ELSE "in"]
    /\ pkt = [t \in Thread |-> None] /\ work = [t \in Thread |-> 0]
    /\ loc \in [Flow -> {InHash, Spare}]
    /\ owner \in [Flow -> {t \in FlowWorkers : tpc[t] # "off"} \cup {None}]
    /\ \A f \in Flow : owner[f] = None <=> loc[f] = Spare \/ f \notin Tcp
    /\ wire = MaxLive
    /\ rpc = "top" /\ busy = 0 /\ bail = FALSE
    /\ stage = "run" /\ idx = 1 /\ step = "packets"

-----------------------------------------------------------------------------
(* Packet threads.                                                          *)

\* SCTmThreadsSlotPacketLoopFinish, up to TmThreadTimeoutLoop.
LoopFinish(t) ==
    /\ SetFlags(t, {"FLOW_LOOP"})
    /\ tpc' = [tpc EXCEPT ![t] = "loop"]

\* Only a packet from the wire wants a flow.
Process(t, p) ==
    /\ pkt' = [pkt EXCEPT ![t] = p]
    /\ tpc' = [tpc EXCEPT ![t] = IF p = "live" THEN "flow" ELSE "inject"]

Dequeue(t) == Process(t, Head(pq[t])) /\ pq' = [pq EXCEPT ![t] = Tail(@)]

\* The end of the loop of TmThreadsSlotVar.
CheckRun(t) ==
    IF flags[t] \cap {"KILL", "REQ_FLOW_LOOP"} # {} THEN LoopFinish(t)
    ELSE tpc' = [tpc EXCEPT ![t] = "in"] /\ UNCHANGED flags

\* The capture thread of autofp passes a packet on.
CaptureSend(c, w) ==
    /\ tpc[c] = "acq" /\ c \notin FlowWorkers /\ wire > 0
    /\ tpc[w] # "off" /\ HasInq(w)
    /\ wire' = wire - 1
    /\ pq' = [pq EXCEPT ![w] = Append(@, "live")]
    /\ tpc' = Signalled(w)
    /\ UNCHANGED <<tvs, flags, pkt, work, flows, recycler, main>>

\* A thread of the workers run mode gets a packet itself.
ReceiveOwn(t) ==
    /\ tpc[t] = "acq" /\ t \in FlowWorkers /\ wire > 0
    /\ wire' = wire - 1
    /\ Process(t, "live")
    /\ UNCHANGED <<tvs, flags, pq, work, flows, recycler, main>>

\* TmThreadsCaptureHandleTimeout: injected packets, or a packet for the flow queue.
CaptureTimeout(t) ==
    /\ tpc[t] = "acq" /\ t \in FlowWorkers
    /\ \/ /\ pq[t] # <<>>
          /\ tpc' = [tpc EXCEPT ![t] = "handle"] /\ UNCHANGED pkt
       \/ pq[t] = <<>> /\ In("queue", t) # {} /\ Process(t, "timeout")
    /\ UNCHANGED <<tvs, flags, pq, work, flows, wire, recycler, main>>

\* The capture loop ends: suricata_ctl_flags is set since the engine was told to stop.
CaptureEnd(t) ==
    /\ tpc[t] = "acq" /\ stage # "run"
    /\ LoopFinish(t)
    /\ UNCHANGED <<tvs, pq, pkt, work, flows, wire, recycler, main>>

\* TmqhInputFlow: wait if there is nothing.  After the wait there may still be nothing;
\* TmThreadsSlotVar then makes a packet if flow_queue has flows.
Input(t) ==
    /\ \/ /\ tpc[t] \in {"in", "woken"} /\ pq[t] # <<>>
          /\ Dequeue(t) /\ UNCHANGED flags
       \/ /\ tpc[t] = "in" /\ pq[t] = <<>>
          /\ tpc' = [tpc EXCEPT ![t] = "wait"] /\ UNCHANGED <<flags, pq, pkt>>
       \/ /\ tpc[t] = "woken" /\ pq[t] = <<>>
          /\ IF In("queue", t) # {} THEN Process(t, "timeout") /\ UNCHANGED flags
             ELSE CheckRun(t) /\ UNCHANGED pkt
          /\ UNCHANGED pq
    /\ UNCHANGED <<tvs, work, flows, wire, recycler, main>>

\* FlowHandlePacket of a packet from the wire: MoveToWorkQueue of timed out flows of the
\* row, and a new flow.
LookupEvict(t, f) ==
    /\ tpc[t] = "flow" /\ pkt[t] = "live" /\ loc[f] = InHash
    /\ loc' = [loc EXCEPT ![f] = IF f \notin Tcp \/ owner[f] = t THEN <<"work", t>>
                                 ELSE Evicted]
    /\ UNCHANGED <<tvs, flags, threads, owner, wire, recycler, main>>

LookupNew(t, f) ==
    /\ tpc[t] = "flow" /\ pkt[t] = "live" /\ loc[f] = Spare
    /\ loc' = [loc EXCEPT ![f] = InHash]
    /\ owner' = IF f \in Tcp THEN [owner EXCEPT ![f] = t] ELSE owner
    /\ tpc' = [tpc EXCEPT ![t] = "inject"]
    /\ UNCHANGED <<tvs, flags, pq, pkt, work, wire, recycler, main>>

\* A packet of a flow that exists, or one that wants none.
LookupDone(t) ==
    /\ tpc[t] = "flow"
    /\ tpc' = [tpc EXCEPT ![t] = "inject"]
    /\ UNCHANGED <<tvs, flags, pq, pkt, work, flows, wire, recycler, main>>

\* FlowWorkerProcessInjectedFlows: FlowQueueExtractPrivate, then append to work_queue.
Extract(t) ==
    /\ tpc[t] = "inject"
    /\ loc' = Moved(In("queue", t), <<"injected", t>>)
    /\ tpc' = [tpc EXCEPT ![t] = "append"]
    /\ UNCHANGED <<tvs, flags, pq, pkt, work, owner, wire, recycler, main>>

AppendWork(t) ==
    /\ tpc[t] = "append"
    /\ loc' = Moved(In("injected", t), <<"work", t>>)
    /\ tpc' = [tpc EXCEPT ![t] = "work"]
    /\ UNCHANGED <<tvs, flags, pq, pkt, work, owner, wire, recycler, main>>

\* CheckWorkQueue: max_work is 0, no limit, for packets made to flush the queues.
WorkTake(t, f) ==
    /\ tpc[t] = "work" /\ loc[f] = <<"work", t>> /\ In("hand", t) = {}
    /\ pkt[t] = "live" => work[t] < MaxWork
    /\ loc' = [loc EXCEPT ![f] = <<"hand", t>>]
    /\ work' = IF pkt[t] = "live" THEN [work EXCEPT ![t] = @ + 1] ELSE work
    /\ UNCHANGED <<tvs, flags, pq, tpc, pkt, owner, wire, recycler, main>>

\* The flow is inspected, logged and spare.
WorkFinish(t, f) ==
    /\ tpc[t] = "work" /\ loc[f] = <<"hand", t>>
    /\ loc' = [loc EXCEPT ![f] = Spare] /\ owner' = [owner EXCEPT ![f] = None]
    /\ UNCHANGED <<tvs, flags, threads, wire, recycler, main>>

\* The packet is returned to its pool; what comes next depends on the loop the thread is in.
Output(t) ==
    /\ tpc[t] = "work" /\ In("hand", t) = {}
    /\ In("work", t) = {} \/ (pkt[t] = "live" /\ work[t] = MaxWork)
    /\ pkt' = [pkt EXCEPT ![t] = None] /\ work' = [work EXCEPT ![t] = 0]
    /\ IF "FLOW_LOOP" \in flags[t] \/ ~HasInq(t)
       THEN tpc' = [tpc EXCEPT ![t] = IF HasInq(t) THEN "loop" ELSE "handle"] /\ UNCHANGED flags
       ELSE CheckRun(t)
    /\ UNCHANGED <<tvs, pq, flows, wire, recycler, main>>

\* TmThreadsHandleInjectedPackets: until stream_pq_local is empty.
HandleInjected(t) ==
    /\ tpc[t] = "handle"
    /\ \/ pq[t] # <<>> /\ Dequeue(t)
       \/ /\ pq[t] = <<>>
          /\ tpc' = [tpc EXCEPT ![t] = IF "FLOW_LOOP" \in flags[t] THEN "loop" ELSE "acq"]
          /\ UNCHANGED <<pq, pkt>>
    /\ UNCHANGED <<tvs, flags, work, flows, wire, recycler, main>>

\* TmThreadTimeoutLoop: packets first, then THV_KILL.  A thread without flow worker has
\* nothing to do in it.
TmThreadTimeoutLoop(t) ==
    /\ tpc[t] = "loop"
    /\ \/ pq[t] # <<>> /\ Dequeue(t) /\ UNCHANGED flags
       \/ /\ pq[t] = <<>> /\ ("KILL" \in flags[t] \/ t \notin FlowWorkers)
          /\ SetFlags(t, {"RUNNING_DONE"})
          /\ tpc' = [tpc EXCEPT ![t] = "done"] /\ UNCHANGED <<pq, pkt>>
    /\ UNCHANGED <<tvs, work, flows, wire, recycler, main>>

Deinit(t) ==
    /\ tpc[t] = "done" /\ "DEINIT" \in flags[t]
    /\ SetFlags(t, {"CLOSED"})
    /\ tpc' = [tpc EXCEPT ![t] = "closed"]
    /\ UNCHANGED <<tvs, pq, pkt, work, flows, wire, recycler, main>>

\* What a packet thread does by itself, whatever arrives.
PacketThread(t) ==
    \/ CaptureTimeout(t) \/ CaptureEnd(t) \/ Input(t) \/ LookupDone(t) \/ Extract(t)
    \/ AppendWork(t) \/ Output(t) \/ HandleInjected(t) \/ TmThreadTimeoutLoop(t) \/ Deinit(t)
    \/ \E f \in Flow : WorkTake(t, f) \/ WorkFinish(t, f)

Arrival(t) ==
    \/ \E w \in Thread : CaptureSend(t, w)
    \/ ReceiveOwn(t)
    \/ \E f \in Flow : LookupEvict(t, f) \/ LookupNew(t, f)

-----------------------------------------------------------------------------
(* Flow manager and flow recycler.                                          *)

\* TmThreadsInjectFlowById: to the owner of the flow, with a wake up call.
Inject(f) ==
    /\ loc' = [loc EXCEPT ![f] = <<"queue", owner[f]>>]
    /\ tpc' = IF HasInq(owner[f]) THEN Signalled(owner[f]) ELSE tpc

\* A flow times out or is found on an evicted list: ProcessAsideQueue.
ManagerTimeout(f) ==
    /\ "RUNNING_DONE" \notin flags[FM] /\ loc[f] \in {InHash, Evicted}
    /\ IF f \in Needs THEN Inject(f)
       ELSE loc' = [loc EXCEPT ![f] = Recycle] /\ UNCHANGED tpc
    /\ UNCHANGED <<tvs, flags, pq, pkt, work, owner, wire, recycler, main>>

\* TmThreadsManagement: the flow manager ends its loop after a pass that finds THV_KILL.
ManagerEnd ==
    /\ "KILL" \in flags[FM] /\ "RUNNING_DONE" \notin flags[FM]
    /\ SetFlags(FM, {"RUNNING_DONE"})
    /\ UNCHANGED <<tvs, threads, flows, wire, recycler, main>>

\* Deinit of a management thread.
ManagementDeinit(t) ==
    /\ {"RUNNING_DONE", "DEINIT"} \subseteq flags[t] /\ "CLOSED" \notin flags[t]
    /\ SetFlags(t, {"CLOSED"})
    /\ UNCHANGED <<tvs, threads, flows, wire, recycler, main>>

\* FlowRecycler: count in, extract the queue, look at THV_KILL, log the flows, count out.
RecyclerBusy ==
    /\ rpc = "top"
    /\ busy' = busy + 1 /\ rpc' = "extract"
    /\ UNCHANGED <<tvs, flags, threads, flows, wire, bail, main>>

RecyclerExtract ==
    /\ rpc = "extract"
    /\ loc' = Moved({f \in Flow : loc[f] = Recycle}, Listed)
    /\ rpc' = "flag"
    /\ UNCHANGED <<tvs, flags, threads, owner, wire, busy, bail, main>>

\* Mutant: THV_KILL ends the thread at once, with the flows it has just taken.
RecyclerFlagEnds ==
    /\ rpc = "flag"
    /\ bail' = ("KILL" \in flags[FR])
    /\ IF bail' THEN rpc' = "end" /\ SetFlags(FR, {"RUNNING_DONE"})
       ELSE rpc' = "log" /\ UNCHANGED flags
    /\ UNCHANGED <<tvs, threads, flows, wire, busy, main>>

RecyclerFlag ==
    /\ rpc = "flag"
    /\ bail' = ("KILL" \in flags[FR])
    /\ rpc' = "log"
    /\ UNCHANGED <<tvs, flags, threads, flows, wire, busy, main>>

RecyclerLog(f) ==
    /\ rpc = "log" /\ loc[f] = Listed
    /\ loc' = [loc EXCEPT ![f] = Spare] /\ owner' = [owner EXCEPT ![f] = None]
    /\ UNCHANGED <<tvs, flags, threads, wire, recycler, main>>

\* The end of the pass; without bail the thread sleeps for a second at most.
RecyclerDone ==
    /\ rpc = "log" /\ \A f \in Flow : loc[f] # Listed
    /\ busy' = busy - 1
    /\ IF bail THEN rpc' = "end" /\ SetFlags(FR, {"RUNNING_DONE"})
       ELSE rpc' = "top" /\ UNCHANGED flags
    /\ UNCHANGED <<tvs, threads, flows, wire, bail, main>>

Recycler ==
    \/ RecyclerBusy \/ RecyclerExtract \/ RecyclerFlag \/ RecyclerDone
    \/ \E f \in Flow : RecyclerLog(f)

-----------------------------------------------------------------------------
(* The main thread: PostRunDeinit.                                          *)

\* The parts of PostRunDeinit that go through the packet threads, and what follows them.
After ==
    [receive |-> "drain1", drain1 |-> "drain2", drain2 |-> "validate1",
     validate1 |-> "flowloop", flowloop |-> "cleanup", drain3 |-> "validate2",
     validate2 |-> "kill", kill |-> "hash", killmgmt |-> "killppt", killppt |-> "clear"]

Goto(s) == stage' = s /\ idx' = 1 /\ step' = "packets"

\* On to the next thread of the list, or to the next part.
NextOf(list) ==
    IF idx < Len(list) THEN idx' = idx + 1 /\ step' = "packets" /\ UNCHANGED stage
    ELSE Goto(After[stage])

Again == Goto(stage)

\* suricata_ctl_flags and FlowDisableFlowManagerThread.
Stop ==
    /\ stage = "run"
    /\ SetFlags(FM, {"KILL"})
    /\ Goto("fmwait")
    /\ UNCHANGED <<tvs, threads, flows, wire, recycler>>

ManagerGone ==
    /\ stage = "fmwait" /\ "RUNNING_DONE" \in flags[FM]
    /\ Goto("receive")
    /\ UNCHANGED <<tvs, flags, threads, flows, wire, recycler>>

Looking == stage \in {"receive", "drain1", "drain2", "drain3"}

\* TmThreadDisableReceiveThreads passes over the threads without capture.
SkipThread ==
    /\ stage = "receive" /\ tvs[idx] \notin Receive
    /\ NextOf(tvs)
    /\ UNCHANGED <<tvs, flags, threads, flows, wire, recycler>>

\* A thread with nothing to do.  TmThreadDisableReceiveThreads ends its capture and waits
\* for it to enter the flow loop.
ThreadIdle ==
    IF stage # "receive" THEN NextOf(tvs) /\ UNCHANGED flags
    ELSE /\ SetFlags(tvs[idx], {"REQ_FLOW_LOOP"})
         /\ IF "FLOW_LOOP" \in flags[tvs[idx]] THEN NextOf(tvs) ELSE Again

\* Mutant: the loop goes on to the next thread instead of starting again.
LookPacketsOn ==
    LET t == tvs[idx]
    IN  /\ Looking /\ step = "packets" /\ ~(stage = "receive" /\ t \notin Receive)
        /\ IF pq[t] # <<>> THEN NextOf(tvs) /\ UNCHANGED flags
           ELSE IF t \in FlowWorkers THEN step' = "work" /\ UNCHANGED <<stage, idx, flags>>
           ELSE ThreadIdle
        /\ UNCHANGED <<tvs, threads, flows, wire, recycler>>

\* ThreadStillHasPackets, then ThreadBusy (FlowWorkerIsBusy), which reads fw->pq and
\* work_queue, then flow_queue.  A busy thread gets a packet that flushes them.
LookPackets ==
    LET t == tvs[idx]
    IN  /\ Looking /\ step = "packets" /\ ~(stage = "receive" /\ t \notin Receive)
        /\ IF pq[t] # <<>> THEN Again /\ UNCHANGED flags
           ELSE IF t \in FlowWorkers THEN step' = "work" /\ UNCHANGED <<stage, idx, flags>>
           ELSE ThreadIdle
        /\ UNCHANGED <<tvs, threads, flows, wire, recycler>>

\* Mutant: FlowWorkerIsBusy does not look at flow_queue.
LookBusyNoQueue ==
    LET t == tvs[idx]
    IN  /\ Looking /\ step = "work"
        /\ \/ In("work", t) = {} /\ ThreadIdle /\ UNCHANGED <<pq, tpc>>
           \/ /\ In("work", t) # {}
              /\ pq' = [pq EXCEPT ![t] = Append(@, "flush")]
              /\ tpc' = Signalled(t)
              /\ Again /\ UNCHANGED flags
        /\ UNCHANGED <<tvs, pkt, work, flows, wire, recycler>>

\* A worker that follows a TCP stream, of a packet or of a flow it finishes, may have
\* pseudo packets of its own in fw->pq.
MayHavePseudo(t) ==
    \/ tpc[t] = "flow" /\ pkt[t] = "live"
    \/ In("hand", t) # {}

LookBusy ==
    LET t     == tvs[idx]
        empty == IF step = "work" THEN In("work", t) = {} ELSE In("queue", t) = {}
    IN  /\ Looking /\ step \in {"work", "qlen"}
        /\ \/ /\ empty /\ step = "work"
              /\ step' = "qlen" /\ UNCHANGED <<pq, tpc, stage, idx, flags>>
           \/ empty /\ step = "qlen" /\ ThreadIdle /\ UNCHANGED <<pq, tpc>>
           \/ /\ ~empty \/ (step = "work" /\ MayHavePseudo(t))
              /\ pq' = [pq EXCEPT ![t] = Append(@, "flush")]
              /\ tpc' = Signalled(t)
              /\ Again /\ UNCHANGED flags
        /\ UNCHANGED <<tvs, pkt, work, flows, wire, recycler>>

\* TmThreadDebugValidateNoMorePackets: nothing but an assertion.
Validate ==
    /\ stage \in {"validate1", "validate2"}
    /\ NextOf(tvs)
    /\ UNCHANGED <<tvs, flags, threads, flows, wire, recycler>>

\* Mutant: the thread is not waited for.
DisableThreadNoWait ==
    /\ stage \in {"flowloop", "kill"}
    /\ SetFlags(tvs[idx], {IF stage = "kill" THEN "KILL" ELSE "REQ_FLOW_LOOP"})
    /\ tpc' = Signalled(tvs[idx])
    /\ NextOf(tvs)
    /\ UNCHANGED <<tvs, pq, pkt, work, flows, wire, recycler>>

\* Mutant: the thread is nudged only once, when the flag is set.
DisableThreadOneSignal ==
    LET t   == tvs[idx]
        set == IF stage = "kill" THEN "KILL" ELSE "REQ_FLOW_LOOP"
    IN  /\ stage \in {"flowloop", "kill"}
        /\ SetFlags(t, {set})
        /\ tpc' = IF set \in flags[t] THEN tpc ELSE Signalled(t)
        /\ IF (IF stage = "kill" THEN "RUNNING_DONE" ELSE "FLOW_LOOP") \in flags[t]
           THEN NextOf(tvs) ELSE Again
        /\ UNCHANGED <<tvs, pq, pkt, work, flows, wire, recycler>>

\* TmThreadDisablePacketThreads: the flag, the nudge, and again until the thread has
\* reached the expected state.
DisableThread ==
    LET t == tvs[idx]
    IN  /\ stage \in {"flowloop", "kill"}
        /\ SetFlags(t, {IF stage = "kill" THEN "KILL" ELSE "REQ_FLOW_LOOP"})
        /\ tpc' = Signalled(t)
        /\ IF (IF stage = "kill" THEN "RUNNING_DONE" ELSE "FLOW_LOOP") \in flags[t]
           THEN NextOf(tvs) ELSE Again
        /\ UNCHANGED <<tvs, pq, pkt, work, flows, wire, recycler>>

\* FlowWorkToDoCleanup, a flow at a time.  It goes through fb->head only.
FlowRemoveHash ==
    /\ stage = "cleanup"
    /\ \/ \E f \in Needs : loc[f] = InHash /\ Inject(f) /\ UNCHANGED main
       \/ /\ \A f \in Needs : loc[f] # InHash
          /\ Goto("drain3") /\ UNCHANGED <<loc, tpc>>
    /\ UNCHANGED <<tvs, flags, pq, pkt, work, owner, wire, recycler>>

\* FlowCleanupHash.
FlowCleanupHash ==
    /\ stage = "hash"
    /\ \/ \E f \in Flow : /\ loc[f] \in {InHash, Evicted}
                          /\ loc' = [loc EXCEPT ![f] = Recycle] /\ UNCHANGED main
       \/ /\ \A f \in Flow : loc[f] \notin {InHash, Evicted}
          /\ Goto("recwait") /\ UNCHANGED loc
    /\ UNCHANGED <<tvs, flags, threads, owner, wire, recycler>>

\* FlowRecyclerReadyToShutdown: the counter first, then the queue; then THV_KILL.
RecyclerReady ==
    /\ stage = "recwait"
    /\ \/ step = "packets" /\ busy = 0 /\ step' = "qlen" /\ UNCHANGED <<stage, idx, flags>>
       \/ /\ step = "qlen" /\ \E f \in Flow : loc[f] = Recycle
          /\ Again /\ UNCHANGED flags
       \/ /\ step = "qlen" /\ \A f \in Flow : loc[f] # Recycle
          /\ SetFlags(FR, {"KILL"})
          /\ Goto("recend")
    /\ UNCHANGED <<tvs, threads, flows, wire, recycler>>

RecyclerGone ==
    /\ stage = "recend" /\ "RUNNING_DONE" \in flags[FR]
    /\ Goto("killmgmt")
    /\ UNCHANGED <<tvs, flags, threads, flows, wire, recycler>>

\* TmThreadKillThreadsFamily: TmThreadKillThread until each thread has closed.
KillThread ==
    LET list == IF stage = "killmgmt" THEN Mgmt ELSE tvs
        t    == list[idx]
    IN  /\ stage \in {"killmgmt", "killppt"}
        /\ IF "CLOSED" \in flags[t]
           THEN SetFlags(t, {"DEAD"}) /\ NextOf(list)
           ELSE SetFlags(t, {"KILL", "DEINIT"}) /\ Again
        /\ UNCHANGED <<tvs, threads, flows, wire, recycler>>

\* TmThreadClearThreadsFamily: TmThreadFree of each.
ClearThreads ==
    /\ stage = "clear"
    /\ tvs' = <<>>
    /\ Goto("done")
    /\ UNCHANGED <<flags, threads, flows, wire, recycler>>

\* SuricataShutdown has returned.
Done == stage = "done" /\ UNCHANGED vars

Main ==
    \/ ManagerGone \/ SkipThread \/ LookPackets \/ LookBusy \/ Validate \/ DisableThread
    \/ FlowRemoveHash \/ FlowCleanupHash \/ RecyclerReady
    \/ RecyclerGone \/ KillThread \/ ClearThreads

Next ==
    \/ Stop \/ Main \/ Done
    \/ \E t \in Thread : PacketThread(t) \/ Arrival(t)
    \/ (\E f \in Flow : ManagerTimeout(f)) \/ ManagerEnd
    \/ \E t \in {FM, FR} : ManagementDeinit(t)
    \/ Recycler

Spec == Init /\ [][Next]_vars

\* Threads keep running.  A packet on its way through FlowHandlePacket gets through it, the
\* capture loops see suricata_ctl_flags, and the recycler sleeps for a second at most.  It is
\* asleep most of the time, so the main thread, which looks every 10 microseconds, finds
\* flowrec_busy at 0.
FairSpec ==
    /\ Spec
    /\ WF_vars(Main) /\ SF_vars(RecyclerReady)
    /\ \A t \in Thread : WF_vars(PacketThread(t))
    /\ WF_vars(ManagerEnd) /\ WF_vars(Recycler)
    /\ \A t \in {FM, FR} : WF_vars(ManagementDeinit(t))

-----------------------------------------------------------------------------
(* Properties.                                                              *)

Stages == {"run", "fmwait", "cleanup", "hash", "recwait", "recend", "done"}
          \cup DOMAIN After \cup {"clear"}

\* The variables have their types: every flow is at one known place.
TypeOK ==
    /\ tvs \in Setups \cup {<<>>}
    /\ \A t \in All : flags[t] \subseteq
          {"REQ_FLOW_LOOP", "FLOW_LOOP", "KILL", "RUNNING_DONE", "DEINIT", "CLOSED", "DEAD"}
    /\ \A t \in Thread : pq[t] \in Seq({"live", "flush"}) /\ Len(pq[t]) <= MaxLive + 1
    /\ pkt \in [Thread -> {None, "live", "flush", "timeout"}]
    /\ work \in [Thread -> 0..MaxWork]
    /\ \A f \in Flow : loc[f] \in {InHash, Evicted, Recycle, Listed, Spare}
                                  \cup ({"queue", "injected", "work", "hand"} \X FlowWorkers)
    /\ owner \in [Flow -> FlowWorkers \cup {None}]
    /\ busy \in 0..1 /\ bail \in BOOLEAN
    /\ stage \in Stages

\* Every flow is at one known place all the time (TypeOK), and when the packet threads are
\* freed none is left anywhere: all of them have been through CheckWorkQueue or Recycler,
\* which log them.
NoFlowLost == TypeOK /\ (stage \in {"clear", "done"} => \A f \in Flow : loc[f] = Spare)

\* TmThreadDebugValidateNoMorePackets: "since all the threads possibly able to produce more
\* packets are now gone or inactive, we should see no packets anywhere anymore".
NoMorePackets == stage \in {"validate1", "validate2"} => pq[tvs[idx]] = <<>>

\* TmThreadDisableReceiveThreads waits "so we don't process the last live packets together
\* with FFR packets": once FlowWorkToDoCleanup runs no thread has a packet from the wire, so
\* it leaves no flow with work to do in the hash, and none comes back.
LiveBeforeForced ==
    /\ stage \in {"cleanup", "drain3", "validate2", "kill", "hash"} =>
          \A t \in Thread : pkt[t] # "live" /\ \A i \in 1..Len(pq[t]) : pq[t][i] # "live"
    /\ stage \in {"drain3", "validate2", "kill", "hash"} => \A f \in Needs : loc[f] # InHash

\* A thread that has left its loops has no flow on its queues and is given none, so the
\* BUG_ONs of TmThreadFree on flow_queue and stream_pq_local hold.
DoneThreadsEmpty ==
    \A t \in FlowWorkers : "RUNNING_DONE" \in flags[t] =>
        /\ pq[t] = <<>>
        /\ \A q \in {"queue", "injected", "work", "hand"} : In(q, t) = {}

\* Told to stop, the engine stops.
ShutdownEnds == stage # "run" ~> stage = "done"
=============================================================================
