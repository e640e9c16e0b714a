---------------------------- MODULE DetectReload ----------------------------
(* The rule reload: the main loop takes requests (SIGUSR2, the unix socket's   *)
(* reload-rules), loads a new detection engine context (de_ctx), gives every   *)
(* worker a thread context (det_ctx) on it and frees the old ones once every   *)
(* worker has been seen using its new one.  A det_ctx is a pair <<worker,      *)
(* de_ctx>>.  A worker reads fw->detect_thread without a lock.                 *)
EXTENDS Integers, FiniteSets

CONSTANTS
    NWorkers,   \* threads with a flow worker, in the order of tv_root[TVT_PPT]
    Ctx,        \* detection engine contexts
    None,
    MaxSignals, \* bound on pending SIGUSR2
    Autofp,     \* the workers read a queue; otherwise they capture
    UnixReload, \* reload commands come over the unix socket
    MayStop     \* a thread may call EngineStop

ASSUME NWorkersAssumption == NWorkers \in Nat \ {0}
ASSUME CtxAssumption == Ctx # {}
ASSUME NoneAssumption == None \notin Ctx
ASSUME SignalsAssumption == MaxSignals \in Nat

Worker == 1 .. NWorkers

VARIABLES
    wpc, ctx, wake,         \* worker: where, the det_ctx it uses, pseudo packet waiting
    slot,                   \* fw->detect_thread
    det, used,              \* thread contexts that exist, so_far_used_by_detect
    loaded,                 \* contexts in memory
    current, list, freeList,\* head of master->list, its members, master->free_list
    refCnt,                 \* ref_cnt of each context
    sync, sigusr2, stop,    \* detect_sync.state, sigusr2_count, suricata_ctl_flags
    main, signalled,        \* main thread; it serves a signal
    old, new, oldDet, i, threadsDone, \* the locals of its reload
    unix                    \* unix socket thread

workerVars == <<wpc, ctx, wake>>
masterVars == <<loaded, current, list, freeList>>
requestVars == <<sync, sigusr2, stop>>
reloadVars == <<old, new, oldDet, i, threadsDone>>
vars == <<workerVars, slot, det, used, masterVars, refCnt, requestVars,
          main, signalled, reloadVars, unix>>

\* The engine runs and every worker has had a packet.
Init ==
    LET c == CHOOSE d \in Ctx : TRUE
    IN /\ wpc = [w \in Worker |-> "idle"] /\ ctx = [w \in Worker |-> None]
       /\ wake = [w \in Worker |-> FALSE]
       /\ slot = [w \in Worker |-> c] /\ det = Worker \X {c} /\ used = det
       /\ loaded = {c} /\ current = c /\ list = {c} /\ freeList = {}
       /\ refCnt = [d \in Ctx |-> IF d = c THEN NWorkers ELSE 0]
       /\ sync = "IDLE" /\ sigusr2 = 0 /\ stop = FALSE
       /\ main = "loop" /\ signalled = FALSE
       /\ old = None /\ new = None /\ oldDet = [w \in Worker |-> None]
       /\ i = 0 /\ threadsDone = 0
       /\ unix = "idle"

AddRef(c, n) == refCnt' = [refCnt EXCEPT ![c] = @ + n]

(* Workers: FlowWorker *)

\* A packet starts: the thread context is read once for it.
FlowWorkerStart(w) ==
    /\ wpc[w] = "idle"
    /\ \/ wpc' = [wpc EXCEPT ![w] = "packet"] /\ UNCHANGED wake
       \/ /\ wake[w]
          /\ wpc' = [wpc EXCEPT ![w] = "pseudo"] /\ wake' = [wake EXCEPT ![w] = FALSE]
    /\ ctx' = [ctx EXCEPT ![w] = slot[w]]
    /\ UNCHANGED <<slot, det, used, masterVars, refCnt, requestVars, main, signalled,
                   reloadVars, unix>>

Detect(w) ==
    /\ wpc[w] \in {"packet", "pseudo"}
    /\ used' = used \cup {<<w, ctx[w]>>}
    /\ wpc' = [wpc EXCEPT ![w] = "detect"]
    /\ UNCHANGED <<ctx, wake, slot, det, masterVars, refCnt, requestVars, main,
                   signalled, reloadVars, unix>>

\* The worker is done with the context: after Detect or, a real packet, without it (its
\* flow is dropped or bypassed).
FlowWorkerHousekeeping(w) ==
    /\ wpc[w] \in {"packet", "detect"}
    /\ wpc' = [wpc EXCEPT ![w] = "idle"] /\ ctx' = [ctx EXCEPT ![w] = None]
    /\ UNCHANGED <<wake, slot, det, used, masterVars, refCnt, requestVars, main,
                   signalled, reloadVars, unix>>

\* Housekeeping finishes a flow of the work queue: the context is read again.
CheckWorkQueue(w) ==
    /\ wpc[w] = "idle"
    /\ wpc' = [wpc EXCEPT ![w] = "pseudo"] /\ ctx' = [ctx EXCEPT ![w] = slot[w]]
    /\ UNCHANGED <<wake, slot, det, used, masterVars, refCnt, requestVars, main,
                   signalled, reloadVars, unix>>

\* THV_KILL seen: RUNNING_DONE.
RunningDone(w) ==
    /\ wpc[w] = "idle" /\ main = "kill"
    /\ wpc' = [wpc EXCEPT ![w] = "done"]
    /\ UNCHANGED <<ctx, wake, slot, det, used, masterVars, refCnt, requestVars, main,
                   signalled, reloadVars, unix>>

(* Requests *)

SignalHandlerSigusr2 ==
    /\ sigusr2 < MaxSignals
    /\ sigusr2' = sigusr2 + 1
    /\ UNCHANGED <<workerVars, slot, det, used, masterVars, refCnt, sync, stop, main,
                   signalled, reloadVars, unix>>

\* A thread other than main ends the engine; main does it for SIGTERM and SIGINT.
EngineStop ==
    /\ MayStop /\ ~stop
    /\ stop' = TRUE
    /\ UNCHANGED <<workerVars, slot, det, used, masterVars, refCnt, sync, sigusr2, main,
                   signalled, reloadVars, unix>>

\* DetectEngineReloadStart, and the command waits for it or not.
UnixManagerReloadRules ==
    /\ UnixReload /\ unix = "idle"
    /\ sync = "IDLE"
    /\ sync' = "RELOAD" /\ unix' \in {"wait", "idle"}
    /\ UNCHANGED <<workerVars, slot, det, used, masterVars, refCnt, sigusr2, stop, main,
                   signalled, reloadVars>>

\* DetectEngineReloadIsIdle.
UnixManagerReloadDone ==
    /\ unix = "wait" /\ sync = "IDLE"
    /\ unix' = "idle"
    /\ UNCHANGED <<workerVars, slot, det, used, masterVars, refCnt, requestVars, main,
                   signalled, reloadVars>>

(* The main thread: SuricataMainLoop, DetectEngineReload *)

\* A signal is served unless the unix socket has asked; the signal stays.
MainLoopSignal ==
    /\ main = "loop" /\ ~stop
    /\ sigusr2 > 0 /\ sync = "IDLE"
    /\ main' = "start"
    /\ UNCHANGED <<workerVars, slot, det, used, masterVars, refCnt, requestVars,
                   signalled, reloadVars, unix>>

DetectEngineReloadStart ==
    /\ main = "start"
    /\ sync' = "RELOAD" /\ signalled' = TRUE /\ main' = "config"
    /\ UNCHANGED <<workerVars, slot, det, used, masterVars, refCnt, sigusr2, stop,
                   reloadVars, unix>>

MainLoopRequest ==
    /\ main = "loop" /\ ~stop
    /\ sigusr2 = 0 /\ sync = "RELOAD"
    /\ signalled' = FALSE /\ main' = "config"
    /\ UNCHANGED <<workerVars, slot, det, used, masterVars, refCnt, requestVars,
                   reloadVars, unix>>

\* The configuration is read, or not; a reference to the current context is taken.
GetCurrent ==
    /\ main = "config"
    /\ \/ main' = "finish" /\ UNCHANGED <<old, refCnt>>
       \/ /\ old' = current /\ AddRef(current, 1)
          /\ main' = "load"
    /\ UNCHANGED <<workerVars, slot, det, used, masterVars, requestVars, signalled, new,
                   oldDet, i, threadsDone, unix>>

\* DetectEngineCtxInitWithPrefix and SigLoadSignatures: any context not in memory.
LoadSignatures ==
    /\ main = "load" /\ loaded # Ctx
    /\ LET c == CHOOSE d \in Ctx \ loaded : TRUE
       IN  /\ new' = c /\ loaded' = loaded \cup {c}
           /\ refCnt' = [refCnt EXCEPT ![c] = 0]
    /\ main' = "add"
    /\ UNCHANGED <<workerVars, slot, det, used, current, list, freeList, requestVars, signalled,
                   old, oldDet, i, threadsDone, unix>>

\* Mutant: the reference is kept.
LoadFailsKeepsRef ==
    /\ main = "load"
    /\ UNCHANGED refCnt /\ old' = None /\ main' = "finish"
    /\ UNCHANGED <<workerVars, slot, det, used, masterVars, requestVars, signalled, new,
                   oldDet, i, threadsDone, unix>>

LoadFails ==
    /\ main = "load"
    /\ AddRef(old, -1) /\ old' = None /\ main' = "finish"
    /\ UNCHANGED <<workerVars, slot, det, used, masterVars, requestVars, signalled, new,
                   oldDet, i, threadsDone, unix>>

DetectEngineAddToMaster ==
    /\ main = "add"
    /\ current' = new /\ list' = list \cup {new} /\ main' = "move"
    /\ UNCHANGED <<workerVars, slot, det, used, loaded, freeList, refCnt, requestVars,
                   signalled, reloadVars, unix>>

DetectEngineMoveToFreeList ==
    /\ main = "move"
    /\ list' = list \ {old} /\ freeList' = freeList \cup {old}
    /\ main' = "dereference"
    /\ UNCHANGED <<workerVars, slot, det, used, loaded, current, refCnt, requestVars,
                   signalled, reloadVars, unix>>

DeReferenceOld ==
    /\ main = "dereference"
    /\ AddRef(old, -1) /\ old' = None
    /\ main' = "init" /\ i' = 1
    /\ UNCHANGED <<workerVars, slot, det, used, masterVars, requestVars, signalled, new,
                   oldDet, threadsDone, unix>>

(* DetectEngineReloadThreads *)

\* A thread context for each worker,
ThreadCtxInitForReload ==
    /\ main = "init" /\ ~stop
    /\ oldDet' = [oldDet EXCEPT ![i] = slot[i]]
    /\ det' = det \cup {<<i, new>>}
    /\ AddRef(new, 1)
    /\ IF i < NWorkers THEN i' = i + 1 /\ UNCHANGED main ELSE i' = 1 /\ main' = "swap"
    /\ UNCHANGED <<workerVars, slot, used, masterVars, requestVars, signalled, old, new,
                   threadsDone, unix>>

\* unless the engine stops or there is no memory.
ReloadThreadsError ==
    /\ main = "init"
    /\ main' = "error" /\ i' = 1
    /\ UNCHANGED <<workerVars, slot, det, used, masterVars, refCnt, requestVars,
                   signalled, old, new, oldDet, threadsDone, unix>>

\* Each worker's pointer is set on its own.
ReplaceDetectCtx ==
    /\ main = "swap" /\ i \in Worker
    /\ slot' = [slot EXCEPT ![i] = new] /\ i' = i + 1
    /\ UNCHANGED <<workerVars, det, used, masterVars, refCnt, requestVars, main, signalled,
                   old, new, oldDet, threadsDone, unix>>

\* Mutant: looks at all workers and has a packet for the first only.
InjectPacketsOne ==
    /\ main = "swap" /\ i > NWorkers
    /\ wake' = [w \in Worker |-> wake[w] \/ (Autofp /\ w = 1 /\ <<w, new>> \notin used)]
    /\ main' = "wait" /\ i' = 1 /\ threadsDone' = 0
    /\ UNCHANGED <<wpc, ctx, slot, det, used, masterVars, refCnt, requestVars,
                   signalled, old, new, oldDet, unix>>

\* A pseudo packet for the queue of each worker that has not used its context yet.
InjectPackets ==
    /\ main = "swap" /\ i > NWorkers
    /\ wake' = [w \in Worker |-> wake[w] \/ (Autofp /\ <<w, new>> \notin used)]
    /\ main' = "wait" /\ i' = 1 /\ threadsDone' = 0
    /\ UNCHANGED <<wpc, ctx, slot, det, used, masterVars, refCnt, requestVars,
                   signalled, old, new, oldDet, unix>>

\* Mutant: an idle capture loop is left alone.
WaitThreadNoBreak ==
    /\ main = "wait" /\ i \in Worker /\ ~stop
    /\ IF <<i, new>> \in used
       THEN threadsDone' = threadsDone + 1 /\ UNCHANGED wake
       ELSE UNCHANGED <<wake, threadsDone>>
    /\ i' = i + 1
    /\ UNCHANGED <<wpc, ctx, slot, det, used, masterVars, refCnt, requestVars, main,
                   signalled, old, new, oldDet, unix>>

\* The waiting loop looks at one worker; TmThreadsCaptureBreakLoop for the others.
WaitThread ==
    /\ main = "wait" /\ i \in Worker /\ ~stop
    /\ IF <<i, new>> \in used
       THEN threadsDone' = threadsDone + 1 /\ UNCHANGED wake
       ELSE wake' = [wake EXCEPT ![i] = @ \/ ~Autofp] /\ UNCHANGED threadsDone
    /\ i' = i + 1
    /\ UNCHANGED <<wpc, ctx, slot, det, used, masterVars, refCnt, requestVars, main,
                   signalled, old, new, oldDet, unix>>

\* Mutant: a round counts on from the last one.
WaitRoundNoReset ==
    /\ main = "wait" /\ i > NWorkers
    /\ i' = 1
    /\ main' = IF threadsDone < NWorkers THEN "wait" ELSE "free"
    /\ UNCHANGED <<workerVars, slot, det, used, masterVars, refCnt, requestVars,
                   signalled, old, new, oldDet, threadsDone, unix>>

\* The end of a round: retry from 0, or all workers have switched.
WaitRound ==
    /\ main = "wait" /\ i > NWorkers
    /\ i' = 1
    /\ IF threadsDone < NWorkers
       THEN threadsDone' = 0 /\ UNCHANGED main
       ELSE main' = "free" /\ UNCHANGED threadsDone
    /\ UNCHANGED <<workerVars, slot, det, used, masterVars, refCnt, requestVars,
                   signalled, old, new, oldDet, unix>>

\* The engine stops: the loop ends early.
WaitStopped ==
    /\ main = "wait" /\ i \in Worker /\ stop
    /\ main' = "drain" /\ i' = 1
    /\ UNCHANGED <<workerVars, slot, det, used, masterVars, refCnt, requestVars,
                   signalled, old, new, oldDet, threadsDone, unix>>

\* The old contexts go; if the engine stops, only after RUNNING_DONE of every worker.
FreeOldDetCtx ==
    /\ main \in {"free", "drain"}
    /\ main = "drain" => \A w \in Worker : wpc[w] = "done"
    /\ i \in Worker
    /\ det' = det \ {<<i, oldDet[i]>>} /\ used' = used \ {<<i, oldDet[i]>>}
    /\ AddRef(oldDet[i], -1)
    /\ i' = i + 1
    /\ UNCHANGED <<workerVars, slot, masterVars, requestVars, main, signalled, old, new,
                   oldDet, threadsDone, unix>>

\* The error path frees the new ones.
FreeNewDetCtx ==
    /\ main = "error" /\ i \in Worker
    /\ det' = det \ {<<i, new>>} /\ used' = used \ {<<i, new>>}
    /\ IF <<i, new>> \in det THEN AddRef(new, -1) ELSE UNCHANGED refCnt
    /\ i' = i + 1
    /\ UNCHANGED <<workerVars, slot, masterVars, requestVars, main, signalled,
                   old, new, oldDet, threadsDone, unix>>

\* Mutant: the references are not looked at.
UnreferencedAll == freeList

Unreferenced == {c \in freeList : refCnt[c] = 0}

\* Both paths end here.
DetectEnginePruneFreeList ==
    /\ main \in {"free", "drain", "error"} /\ i > NWorkers
    /\ freeList' = freeList \ Unreferenced /\ loaded' = loaded \ Unreferenced
    /\ new' = None /\ oldDet' = [w \in Worker |-> None] /\ i' = 0 /\ threadsDone' = 0
    /\ main' = "finish"
    /\ UNCHANGED <<workerVars, slot, det, used, current, list, refCnt, requestVars, signalled,
                   old, unix>>

\* DetectEngineReloadSetIdle, and the signal is served.
ReloadSetIdle ==
    /\ main = "finish"
    /\ sync' = "IDLE"
    /\ sigusr2' = IF signalled THEN sigusr2 - 1 ELSE sigusr2
    /\ main' = "loop" /\ signalled' = FALSE
    /\ UNCHANGED <<workerVars, slot, det, used, masterVars, refCnt, stop, reloadVars,
                   unix>>

(* The end: SuricataShutdown, GlobalsDestroy *)

MainLoopStop ==
    /\ main = "loop" /\ stop
    /\ main' = "killunix"
    /\ UNCHANGED <<workerVars, slot, det, used, masterVars, refCnt, requestVars,
                   signalled, reloadVars, unix>>

\* Waits until the unix socket thread is closed; then THV_KILL to the workers.
UnixSocketKillSocketThread ==
    /\ main = "killunix" /\ unix = "idle"
    /\ unix' = "closed" /\ main' = "kill"
    /\ UNCHANGED <<workerVars, slot, det, used, masterVars, refCnt, requestVars,
                   signalled, reloadVars>>

\* TmThreadKillThreadsFamily: one worker after the other frees its context.
FlowWorkerThreadDeinit(w) ==
    /\ main = "kill" /\ \A v \in Worker : wpc[v] \in {"done", "closed"}
    /\ wpc[w] = "done" /\ \A v \in 1 .. w - 1 : wpc[v] = "closed"
    /\ wpc' = [wpc EXCEPT ![w] = "closed"]
    /\ det' = det \ {<<w, slot[w]>>} /\ used' = used \ {<<w, slot[w]>>}
    /\ AddRef(slot[w], -1)
    /\ UNCHANGED <<ctx, wake, slot, masterVars, requestVars, main, signalled,
                   reloadVars, unix>>

\* The current context to the free list; DetectEngineClearMaster adds the rest of the
\* list, with ref_cnt 0, and prunes.
GlobalsDestroy ==
    /\ main = "kill" /\ \A w \in Worker : wpc[w] = "closed"
    /\ LET cleared == [c \in Ctx |-> IF c \in list \ {current} THEN 0 ELSE refCnt[c]]
           all == freeList \cup list
       IN  /\ refCnt' = cleared
           /\ freeList' = {c \in all : cleared[c] # 0}
           /\ loaded' = loaded \ {c \in all : cleared[c] = 0}
    /\ list' = {} /\ current' = None /\ main' = "exit"
    /\ UNCHANGED <<workerVars, slot, det, used, requestVars, signalled, reloadVars,
                   unix>>

MainNext ==
    \/ MainLoopSignal \/ DetectEngineReloadStart \/ MainLoopRequest
    \/ GetCurrent \/ LoadSignatures \/ LoadFails
    \/ DetectEngineAddToMaster \/ DetectEngineMoveToFreeList \/ DeReferenceOld
    \/ ThreadCtxInitForReload \/ ReloadThreadsError
    \/ ReplaceDetectCtx \/ InjectPackets \/ WaitThread \/ WaitRound \/ WaitStopped
    \/ FreeOldDetCtx \/ FreeNewDetCtx
    \/ DetectEnginePruneFreeList \/ ReloadSetIdle
    \/ MainLoopStop \/ UnixSocketKillSocketThread
    \/ (\E w \in Worker : FlowWorkerThreadDeinit(w)) \/ GlobalsDestroy

WorkerNext(w) ==
    \/ FlowWorkerStart(w) \/ Detect(w) \/ FlowWorkerHousekeeping(w)
    \/ CheckWorkQueue(w) \/ RunningDone(w)

UnixNext ==
    UnixManagerReloadRules \/ UnixManagerReloadDone

Next ==
    \/ MainNext \/ UnixNext \/ SignalHandlerSigusr2 \/ EngineStop
    \/ \E w \in Worker : WorkerNext(w)

Spec == Init /\ [][Next]_vars

\* Threads keep running.  A waiting command sees an idle
\* state: it looks every 100 us, the main loop sleeps 10 ms.  The queues of a worker are
\* finite: a pseudo packet gets its turn and a packet its end.  Nobody has to send a
\* request.
FairSpec ==
    /\ Spec
    /\ WF_vars(MainNext) /\ SF_vars(UnixManagerReloadDone)
    /\ \A w \in Worker :
          /\ WF_vars(Detect(w) \/ FlowWorkerHousekeeping(w))
          /\ SF_vars(RunningDone(w) \/ (FlowWorkerStart(w) /\ wake'[w] # wake[w]))
-----------------------------------------------------------------------------
\* The variables have their types: no pending signal is served that was not sent.
TypeOK ==
    /\ wpc \in [Worker -> {"idle", "packet", "pseudo", "detect", "done", "closed"}]
    /\ ctx \in [Worker -> Ctx \cup {None}] /\ wake \in [Worker -> BOOLEAN]
    /\ slot \in [Worker -> Ctx] /\ det \subseteq Worker \X Ctx /\ used \subseteq Worker \X Ctx
    /\ loaded \subseteq Ctx /\ list \subseteq Ctx /\ freeList \subseteq Ctx
    /\ current \in Ctx \cup {None}
    /\ refCnt \in [Ctx -> Int]
    /\ sync \in {"IDLE", "RELOAD"} /\ sigusr2 \in 0 .. MaxSignals /\ stop \in BOOLEAN
    /\ main \in {"loop", "start", "config", "load", "add", "move", "dereference",
                 "init", "swap", "wait", "free", "drain", "error", "finish",
                 "killunix", "kill", "exit"}
    /\ signalled \in BOOLEAN /\ old \in Ctx \cup {None} /\ new \in Ctx \cup {None}
    /\ oldDet \in [Worker -> Ctx \cup {None}]
    /\ i \in 0 .. NWorkers + 1 /\ threadsDone \in 0 .. NWorkers
    /\ unix \in {"idle", "wait", "closed"}

\* A worker never uses a freed thread context: the reload frees the old ones only when
\* so_far_used_by_detect is set in every new one (detect-engine.c, the retry loop).
UsedContextsAlive ==
    \A w \in Worker : ctx[w] # None => <<w, ctx[w]>> \in det

\* The rules of a thread context that exists are in memory: DetectEnginePruneFreeList
\* frees a context only when nothing refers to it.
ThreadContextsLoaded ==
    \A d \in det : d[2] \in loaded

\* Between two reloads nothing stays in memory but the current context and what a
\* worker still has, and at the end nothing does: no reload path loses a reference, and
\* none serves a signal that was not sent (TypeOK).
NothingLeft ==
    /\ TypeOK
    /\ main = "loop" =>
          \A c \in loaded : c = current \/ \E w \in Worker : slot[w] = c
    /\ main = "exit" => loaded = {} /\ det = {}

\* A reload ends: every worker comes to use its new context, woken by a pseudo packet
\* or by a broken capture loop.  (When the engine stops meanwhile, see StopCompletes.)
ReloadEnds ==
    main = "config" ~> (main = "loop" \/ stop)

\* "caller loops this until it returns 1": a reload-rules command gets its answer.
RequestAnswered ==
    unix = "wait" ~> unix # "wait"

\* The engine that is told to stop stops.
StopCompletes ==
    stop ~> main = "exit"
=============================================================================
