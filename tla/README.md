# A TLA+ model of Suricata's packet, flow and transaction engine

## The system

Suricata turns packets into flows, flows into application layer transactions,
and both into alerts and log records. The parts that share state between
threads, or carry it from packet to packet, are modelled here:

- **Flow engine.** Packet threads (`flow-worker.c`) look the flow of each packet
  up in a hash table (`flow-hash.c`), or make one from a pool of spare flows
  (`flow-spare-pool.c`). The flow manager (`flow-manager.c`) takes timed out
  flows off the table and hands them to the recycler or, when a TCP session has
  data left to inspect, back to their packet thread. Row locks (`FBLOCK`)
  protect the lists of a row, flow locks (`FLOWLOCK`) the contents of a flow.
- **Emergency mode.** A packet thread that finds no flow declares an emergency;
  the flow managers scan faster until the spare pool has recovered.
- **Packet pools.** Each capture thread owns a pool (`tmqh-packetpool.c`); the
  threads that finish with its packets return them in batches. Tunnels make
  packets inside packets, which share a verdict (`decode.c`, `decode.h`).
- **Rule reload.** The main thread replaces the detection engine under running
  packet threads (`detect-engine.c`), on a signal or a unix socket command.
- **Shutdown.** `PostRunDeinit` stops the threads one family after the other
  while flows are still on the way between them (`tm-threads.c`, `suricata.c`).
- **Transactions.** The parser, detection, the loggers and the cleanup work on
  the transactions of a flow at their own pace, tracked by `inspect_id`,
  `log_id` and `min_id` (`app-layer-parser.c`, `output-tx.c`, `detect.c`).

`PROJECT.json` lists every part of the program with what is modelled of it, the
source lines behind each definition, the hazards of the code with the
properties that would catch them, the runs, the mutants and the theorems.

## Modules

| Module | Models | Proofs |
| --- | --- | --- |
| `FlowSparePool` | the spare pool and `flow_memuse` | `FlowSparePoolProof` |
| `FlowTable` | hash, locks, queues, flow manager pass, recycler, lookup by id | `FlowTableInv`, `FlowTableProof` |
| `FlowLifecycle` | what the flow engine promises, implemented by `FlowTable` | |
| `FlowManager` | sections, work units and emergency mode | `FlowManagerProof` |
| `PacketPool` | pools, return batches, tunnel packets and verdicts | |
| `DetectReload` | rule reload, requests, reference counts | `DetectReloadProof` |
| `Shutdown` | the stop of the engine, from the request to the last join | `ShutdownProof` |
| `AppLayerTx` | the transactions of one flow | `AppLayerTxInv`, `AppLayerTxProof` |

`MC*.tla` and `*.cfg` instantiate them. Operators whose comment begins with
"Mutant" are changed forms of the definition that follows them, for the
mutation runs that `PROJECT.json` lists; no specification uses them.

### FlowSparePool

A block of the pool is the length of its queue, memory is counted in flows.
Each turn of a loop that takes and drops the pool's mutex is a step; the test
of `FLOW_CHECK_MEMCAP` and the addition to `flow_memuse` in `FlowAlloc` are two.
`FlowSetMemcap` and restarts of the engine in unix socket mode are included.
That a worker in an emergency looks at the pool at most once a second after it
found nothing is left open (`FlowSpareSyncNotYet`). The overshoot is measured
against the largest memcap: a memcap lowered at run time binds later allocations only.

### FlowTable and FlowLifecycle

Lists are sets, and a walk works from the list it found when it took the row
lock. Whether a flow has timed out is left open; of `next_ts` only "due",
"later" and "never" (`UINT_MAX`) are kept. The spare queues and the pool are one
set, so a thread may find its own empty at any moment. Waiting for a lock is a
step that is not enabled; `TRYLOCK` failing is a disjunct. A flow has one owner,
`thread_id[0]`; there is one flow manager (its instances have disjoint rows, see
`FlowManager`); its local list and `flow_recycle_q` are one set; `max_work` and
the emergency flag seen by a lookup are left open. `FlowLifecycle` has one state
per flow (free, serving a tuple, ending); the refinement mapping is at the end
of `FlowTable`.

### FlowManager

The rows of an instance, the size of a work unit from `GetWorkUnitSizing`, the
wrap around in `FlowTimeoutHashInChunks`, and `FlowManager`'s loop step by step
with the emergency flag, the timeouts and the condition it sleeps on. What a
scan does to a row is `FlowTable`. The variable `setup` has the configuration,
chosen at the start. The engine reads live traffic: offline (`!time_is_live`) a
manager polls instead of waiting on the condition.

### PacketPool

The stacks of a pool are sets, the queues between capture and release one set,
`inflight`. A releaser has a pending list for one pool; the steps around the
mutex of the return stack, `return_threshold` and `PacketPoolWait` are separate.
There is at least one flow worker (without one `PacketPoolPostRunmodes` returns early).
The pools of the releasers, and the pseudo packets of defragmentation, are left
out. Sizes are scaled: 2 packets per pool for 1024, 5 for 32 in a batch.

### DetectReload

A thread context is a pair of a worker and an engine context. The main thread's
`DetectEngineReloadThreads` visits the workers one step each: new context,
swap, wait, free. A worker reads `fw->detect_thread` once per packet, without a
lock. Loads fail, signals and commands come at any time, and any thread may stop
the engine. Reloads of tenants are left out.

### Shutdown

Main thread, packet threads, flow manager and recycler, with the `THV_*` flags
and the queues between them. A flow is at one place (hash, evicted list, flow
queue, work queue, recycle queue...). Packet threads run either capture and
worker apart (autofp) or together (workers). The time limits of 60 seconds are
taken not to be reached; condition variables have no spurious wakeups; statistics
and bypass threads and the verdict threads of an inline autofp mode are left out. Of
`fw->pq` only that it may have packets while the worker follows a stream is kept. `ClearThreads` stands for both calls
of `TmThreadClearThreadsFamily`.

### AppLayerTx

One TCP flow in IDS mode, from the first parsed byte. A packet goes through the
steps parse, detect, log and cleanup under the flow lock; `todo` has the packets
in hand, because a parser that wants no more inspection has two pseudo packets
go through detection and logging first, and the end of the flow brings up to two
more. Progress is the set of complete directions. A transaction also records
which updates detection has not seen (`unseen`) and how often each logger wrote
it (`written`); no guard reads those two. The parsers are an environment, of which
the FTP parser is the example `PROJECT.json` points at: they
create transactions for both directions or for one, mark the direction they
parse or both, one transaction per call (a parser that touches more is so many calls),
and do not update a direction after its end. A `LogCondition` is
taken to look at the parser's progress. Transactions are walked as
`AppLayerDefaultGetTxIterator` does; the iterator of the Rust parsers
(`applayer.rs:215`) gives the second loop of `TagInspectId` the same transaction
again, which matters for flows with a pass rule only.

## Model checking

| Run | Instance | Shows |
| --- | --- | --- |
| `spare_pool` | 2 workers, recycler, manager; blocks of 2 flows, prealloc 3, memcap 4 or 5 | counter, blocks and list agree; no flow is lost or returned twice; memuse passes memcap by less than the number of allocating threads |
| `flow_table` | 2 workers, 2 flows, one TCP and one UDP session in one row, with manager, recycler and a unix socket lookup | every flow on one list, in place and locked while a packet uses it, unique for its tuple, finished by its owner, logged once, spare only when clean; rows marked empty are; `FlowTable` implements `FlowLifecycle` |
| `flow_table_live` | 2 workers, one flow, 2 rows | a flow taken off its row is reported and spare again in the end; every packet gets through |
| `manager` | 2 managers with sections of 10 and 11 rows; or 1 manager and 2 packet threads | no row left out or shared; no emergency slept over, missed, counted twice or cut short; emergencies end |
| `reload` | 2 workers, 3 engine contexts, one pending signal | no freed thread context in use, no rules freed under one, nothing left behind, reloads end |
| `reload_autofp` | the same, with workers that read a queue | reloads end: the packet injected for each worker is enough |
| `reload_requests`, `reload_stop` | 1 worker | findings 1 and 2 |
| `packet_pool` | 1 capture thread with 2 releasing threads, up to 2 packets inside a packet; or 2 with 1 | packets are neither lost nor on two lists, a root outlives what is inside it, one verdict at most, batches never starve a pool, waits end |
| `packet_verdict` | the first of these | finding 3 |
| `shutdown` | autofp and workers mode with 2 threads; a TCP flow with work left and a UDP flow; one packet from the wire | every flow logged before its thread is freed, no live packet beside forced flows, stopped threads stay empty, the stop completes |
| `transactions` | 2 transactions, 2 loggers that become ready at different times, 3 events or transactions in all | nothing is passed over by a tracker, written twice, freed too early, left unseen by detection or unwritten at the end |

In the modules where `TypeOK` is not a property of its own, it is a conjunct of
the invariant about the same state.

**Why these bounds.** The hazards are between two threads, so two of each kind
that competes are enough to meet them. No more flows than sessions, some of them
still in a queue, make memory run out; one row makes every walk meet the other session; two rows are
needed only where a worker takes a flow from another row. 21 rows over two managers give
the unequal sections and the rounding of work units; a pressure of 120 asks
for more than a full pass. Packet pools have fewer packets than there are threads, so
batches can hold all of them and the unsigned share wraps around. Three contexts are the one in
use, the one being replaced and one still held by a slow worker. With two
transactions, one can complete before the other. The bounds in guards are
`MaxBlocks` (blocks of the pool), `MaxDeclared` (emergencies), `OverPasses` (2
for the 30 quiet passes of the code), `MaxSignals`, `MaxLive` and `MaxWork` (packets from
the wire, and the flows those may evict), `MaxTx` and `Budget`.

Deadlock checking is off in the runs of `MCDetectReload` (the engine exits) and
in `transactions` (the flow ends).

**Why the two setups of `manager` are separate.** `prev_emerg` and
`emerg_over_cnt` belong to one manager. With several managers the one that did
not end an emergency keeps its count for the next one, and each counts the
emergency as entered. `EmergencyNotCutShort` and `EnteredCounted` are therefore
claims about one manager, which is the default (`managers: 1`). With fewer than
10 rows a unit is empty unless the pressure is 100, hence that value.

### Fairness

- `FlowTable`: threads keep running; the work queues and the recycler's queue
  are FIFO, so each flow gets its turn; a row's mutex is obtained in the
  end; the capture timeout makes an idle worker look at its queues.
- `FlowManager`: threads keep running, and time passes, so a wait times out.
- `DetectReload`: threads keep running; a waiting command looks every 100 us
  while the main loop sleeps for 10 ms, so it sees an idle state; a worker's
  queues are finite, so a pseudo packet gets its turn.
- `PacketPool`: releasing threads keep running and a satisfied condition
  wakes its waiter. Nothing is assumed of the arrival of packets. `WaitEnds` is for one
  capture thread: with two, `inflight` would have to be a queue.
- `Shutdown`: threads keep running; the recycler is asleep most of the time, so
  the main thread, which polls, finds it idle.

Nobody has to send a packet, a signal or a command in any of them.

## Proofs

TLAPS checks these for every value of the constants.

**FlowSparePoolProof**, from `SizesAssumption` and `ThreadsAssumption` (a positive block size, a largest memcap, finitely
many workers, the threads distinct). `TypeCorrect`: blocks never outgrow the block size and the
unsigned counters of `FlowSparePoolUpdate` never go below zero. `OvershootBounded`:
memuse stays below the largest memcap plus the number of allocating threads. The
bound alone is not inductive; `OvershootInv` counts the threads that have
passed the memcap test and not yet added to memuse. `MemuseAccounted`: every flow charged to
memuse is in one of the lists, in use or being allocated. The number of flows in a list of blocks is the
cardinality of a set (`Total`, `Slots`), so that moving a block needs no induction over the
list; `AccountInv` adds that the two counters agree with their blocks, and `QuietInv`
what is empty when nobody is at work on it. `SparePoolValid`: the counter of the pool is right and
no block is empty, if no memcap is below prealloc. Without that hypothesis
`FlowSparePoolInit` makes empty blocks (see below).

**FlowTableInv, FlowTableProof**, from `ThreadAssumption`, `KeyAssumption` and
`StatusAssumption` (the threads and the null value are distinct; every tuple has a row; the two
states of a flow without a tuple, which the refinement mapping writes as "free" and "ending",
are not tuples). The inductive invariant `IInv` has

- `ListInv`: the lists are disjoint and complete, and `fb` names the row of a
  flow on a row list;
- `RowsLocked`, `FlowsLocked`: who holds which lock at which step;
- `Found`: what a walk still has to visit is in the row, what it wants has not been passed by,
  and the packet's flow is in the row it was looked up in;
- `Owned`, `EvictedInHand`, `SpareUnused`, `OneFlowPerKey`.

The locks are needed for every other part: a flow leaves its list only in the
hands of a thread that has the row, and that no other thread finds it is what `Found` says
of the rest. `OneFlowPerKey` needs `NonePassedBy`: a worker that creates a flow
has seen every flow of the row. `FlowTableInv` has the invariant and the preservation of
the first three parts, `FlowTableProof` the rest. From `IInv` follow `EveryFlowOnOneList`,
`PacketFlowStays`, `FbReachesRow`, `NoDuplicateFlows`, `WalksStay`,
`SparesClean`, `FinishedBySelf`, `OneRecordPerLife` and `EmptyRowsOnly`.

`ImplementsLifecycle` is the refinement: every step of `FlowTable` is a step of
`FlowLifecycle` or leaves it alone, under the mapping `stBar`. `NonePassedBy` gives the start
of a life its guard (no other flow serves the tuple), and the places where a
flow leaves its row are the steps that end a life.

**FlowManagerProof**, from `SetupsAssumption` and `BoundsAssumption`. `SectionsKept`: for any
number of managers and rows the sections are disjoint and no unit leaves its section; this rests
on the rounding of `FlowManagerThreadInit` and on `Unit`, which says that the
rows left of a pass never exceed the section. `EmergencyAlwaysHeard`: no emergency is slept
over, because a manager looks at the flag under the mutex of the condition before it waits.
With one manager (`OneManager`, the default configuration) `EmergenciesCounted` and
`EmergencyRunsItsPasses`: emergencies are counted exactly, and none ends before its
passes are over. They need that the count of passes belongs to the emergency in progress, which is
false with several managers (see above), so `OneManager` is a hypothesis and not
an assumption on the constants.

**DetectReloadProof**, from `NWorkersAssumption`, `CtxAssumption`,
`NoneAssumption` and `SignalsAssumption`. `NoFreedContextUsed`: a worker's thread context has not been
freed. `RulesOutliveContexts`: nor have its rules. The invariant says which
contexts the reload owns at each of its steps, that the threads it has counted
off have switched, and that `ref_cnt` is the number of thread contexts plus the
reload's own reference. `NothingIsLeft` adds the converse, that what is loaded is accounted
for by the current context, the free list, a thread or the reload under way.

**ShutdownProof**, from `ShutdownAssumption` (what the thread families of a run mode are). The
invariant is about what the main thread may rely on. `Phase` says for every
part of `PostRunDeinit` what the earlier parts have established; `Scan` says
the same, within a part that goes through the threads, of the threads passed and of
the one looked at. Each was seen at another moment; it is still true because
nothing undoes it (`Keeps`): a thread in the flow loop makes no packets, flows come to a
queue only from the flow manager and the forced cleanup, and a thread that
has work on its queues gets a packet to finish it. `ThreadOk`, `FlowOk`, `Room` and `RecyclerOk` tie
the place of a thread to its packet, queue and flags, a flow to a thread that
runs, and `flowrec_busy` to the recycler. From it follow `AllFlowsEnd`, `NoPacketsLeft`,
`ForcedAfterLive` and `DoneThreadsHaveNothing`.

**AppLayerTxInv, AppLayerTxProof**, from `LoggersAssumption`, `RuleSetsAssumption` and
`BoundsAssumption`. The invariant follows a transaction through the four steps of a
packet: what is marked as logged was written once, what is marked as inspected
is complete and was seen, an update that detection is owed is one it can find, and
each tracker has only finished transactions below it. `DisabledEnded` says that a disabled
parser has both directions ended, without which a transaction it left open could go
unwritten. From it follow `LoggersWriteOnce`,
`TrackersPassNothing`, `UpdatesReachDetection`, `FlowEndLogsAll` and, for the step that
frees transactions, `FreedOnlyWhenDone`.

**Only model-checked:**

- all liveness: reasoning about fairness is beyond this prover;
- `PacketPool`: `PacketsAccounted`, `RootOutlivesInside`, `VerdictOnce` and `BatchesNeverStarve`;
  no proof has been written. The last one would also need that a releaser's unsigned share of the threshold
  wraps around only when the pool is empty.

## Findings

Each has a run in which TLC finds the property violated.

1. `reload_requests` / `RequestAnswered`. When a SIGUSR2 arrives while a
   `reload-rules` command is pending, the main loop (`suricata.c:3034`) takes
   the branch of the signal, which waits for the command, and never the one of the
   command: neither is served again.
2. `reload_stop` / `StopCompletes`. When a thread stops the engine during the
   wait for the workers, the main thread waits for `THV_RUNNING_DONE`
   (`detect-engine.c:2505`), which a worker sets only after the `THV_KILL` that
   the main thread sends later.
3. `packet_verdict` / `VerdictIssued`. `VerdictTunnelPacket` (`decode.h:1448`)
   reads counters that change only when the packet is released. With two
   threads on the verdict queue each can leave the verdict to the other.

## Seen in the code, not covered by a run

- `FlowSparePoolInit` does not end when memcap is below prealloc: it prepends
  empty blocks forever (`flow-spare-pool.c:294`). The shrink loop of
  `FlowSparePoolUpdate` (`:222`) turns without effect while the pool is empty.
- `rows * 10 / 100` rounds down, so a pass takes more than the 10 units the
  comment at `flow-manager.c:780` speaks of, and with fewer than 10 rows most
  units are empty.
- The pairs of steps that enter and leave emergency mode (`flow-hash.c:716`,
  `flow-manager.c:924`) can interleave so that `flow_timeouts` is the normal one with the
  flag set. Nothing comes of it in a default build: a scan takes
  `flow_timeouts_emerg` on the flag itself, and the pointer is read only for
  capture bypass (`flow.c:440`).
- With several managers `flow.emerg_mode_entered` counts once for each, and an
  emergency can end early (see the setups of `manager`).
- A TCP flow on an evicted list when the flow manager has stopped is logged but
  not inspected: `FlowRemoveHash` walks `fb->head` only (`flow-timeout.c:379`).
- In IPS autofp mode a worker may send a packet to the verdict queue during
  `TmThreadDebugValidateNoMorePackets`; after `THV_KILL` nobody takes it.
- A blocking `reload-rules` pending when the main loop stops keeps
  `UnixSocketKillSocketThread` waiting.
- `ref_cnt` of an engine context is changed by the unix socket thread and by a
  reload without a common lock (`detect-engine.c:4790`).
- `AppLayerParserSetTransactionInspectId` (`app-layer-parser.c:815`, `:854`) sets the
  inspected flag only where it is set already; its comments (`:797`, `:828`)
  say it marks the transaction. The cleanup exempts the pass flows concerned. In the same
  function the loop for tagged transactions moves `inspect_id` past an
  incomplete one, where the comment (`:838`) speaks of gaps only.
- At the last pseudo packet of a flow a transaction open in both directions, not updated
  and without an end of stream is not logged (`output-tx.c:465` against
  the comment at `:299`). `LoggedAtEnd` states the exception, and that there is none
  for a flow whose parser failed or asked for no more inspection.

## Not modelled

- **TCP state machine and reassembly.** Arithmetic on packet fields and byte
  ranges; a model small enough for TLC would not be the code's.
- **Matching, decoders, protocol parsers, outputs, configuration.** Sequential
  computations on bytes and text; the parsers are an environment of `AppLayerTx`.
- **Defragmentation, hosts, IP pairs, thash.** The row and entry locks of the
  flow table in a simpler form.
- **Thresholds, tags, files, statistics, exception policies, datasets.** Each
  under one lock, or counters for display.
- **Capture and bypass offload.** I/O against kernel interfaces.
  `FlowGetFromFlowKey`, which only the eBPF bypass calls, looks a flow up and
  inserts one without looking again (`flow-hash.c:1100`).
- **Parts of modelled components.** Tenant reloads; thread creation, pausing
  and time limits at the stop; in `AppLayerTx` firewall mode, drops, bypass,
  UDP, protocol changes, frames, file loggers, wildcard loggers, running
  without detection, and the failure to get a pseudo packet.

## Running

    tlasany FlowTable.tla
    tlc -workers 2 -config MCFlowTable.cfg MCFlowTable
    tlapm FlowTableProof.tla

Each run takes less than five minutes, each proof module up to twenty.
