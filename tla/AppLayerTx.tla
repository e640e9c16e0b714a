----------------------------- MODULE AppLayerTx -----------------------------
(***************************************************************************)
(* The transactions of one TCP flow (app-layer-parser.c, detect.c,         *)
(* output-tx.c, flow-worker.c): the parser creates and updates them,       *)
(* detection inspects them per direction, the loggers write them, and the  *)
(* cleanup at the end of each packet frees the ones nobody needs any more. *)
(*                                                                         *)
(* Four trackers run through the transactions: inspect_id per direction,   *)
(* log_id and min_id.  A flow is locked while a packet is handled, so the  *)
(* steps of a packet follow each other; what varies is which packet does   *)
(* what: a packet of one direction has the other direction's data parsed   *)
(* (IDS mode, on the ACK), pseudo packets flush or end the flow, rules are *)
(* reloaded or pass the flow, the stream depth is reached, the parser      *)
(* fails.  Progress is abstracted to the set of directions that are        *)
(* complete.                                                               *)
(***************************************************************************)
EXTENDS Naturals, Sequences, FiniteSets, FiniteSetsExt

CONSTANTS Loggers,      \* the tx loggers of the protocol (logger_expectation)
          LogProgress,  \* of each logger, the directions it waits for
          Conditional,  \* loggers that wait in a LogCondition
          RuleSets,     \* the group each direction has in each loaded rule set
          MaxTx,        \* bound of the model on transactions
          Budget        \* bound of the model on transactions and events together

Dir == {"ts", "tc"}
Other(d) == CHOOSE e \in Dir : e # d

ASSUME LoggersAssumption ==
    /\ IsFiniteSet(Loggers) /\ Conditional \subseteq Loggers
    /\ LogProgress \in [Loggers -> SUBSET Dir]
ASSUME RuleSetsAssumption == RuleSets \in Seq([Dir -> {"none", "rules"}]) /\ RuleSets # <<>>
ASSUME BoundsAssumption == MaxTx \in Nat /\ Budget \in Nat

VARIABLES txs,        \* the transactions by id, freed ones included
          inspectId, logId, minId, eof,    \* AppLayerParserState
          appUpdated, updateNext,          \* FLOW_TS/TC_APP_UPDATED, _UPDATE_NEXT
          sgh,        \* Flow::sgh_toserver, sgh_toclient: "unset", "none" or "rules"
          pass,       \* FLOW_ACTION_PASS
          depth,      \* directions with STREAMTCP_STREAM_FLAG_DEPTH_REACHED
          disabled,   \* STREAMTCP_FLAG_APP_LAYER_DISABLED
          closed,     \* TCP_CLOSED
          todo, pc,   \* packets to handle, what is next for the first of them
          rules,      \* the rule set in use
          events

parser == <<inspectId, logId, minId, eof>>
flow == <<appUpdated, updateNext, sgh, pass>>
stream == <<depth, disabled, closed>>
vars == <<txs, parser, flow, stream, todo, pc, rules, events>>

\* AppLayerTxData.  unseen and written record what detection and the loggers
\* did: the directions with an update no detection has run on since, and how
\* often each logger wrote the transaction.
Tx == [live : BOOLEAN, done : SUBSET Dir, updated : SUBSET Dir, inspected : SUBSET Dir,
       skip : SUBSET Dir, logged : SUBSET Loggers, nolog : BOOLEAN,
       unseen : SUBSET Dir, written : [Loggers -> 0..2]]

\* update: app_update_direction is not UPDATE_DIR_NONE; last: FLOW_PKT_LAST_PSEUDO.
Packet == [dir : Dir, kind : {"real", "flush", "ffr"}, update : BOOLEAN, last : BOOLEAN]

NewTx(done, updated, skip) ==
    [live |-> TRUE, done |-> done, updated |-> updated, inspected |-> {}, skip |-> skip,
     logged |-> {}, nolog |-> FALSE, unseen |-> updated, written |-> [l \in Loggers |-> 0]]

FreedTx == [NewTx({}, {}, {}) EXCEPT !.live = FALSE]

total == Cardinality(DOMAIN txs)
Live(t) == {i \in DOMAIN t : t[i].live}
From(t, id) == {i \in Live(t) : i >= id}
MaxOf(a, b) == IF a >= b THEN a ELSE b
MinOf(a, b) == IF a <= b THEN a ELSE b

\* AppLayerParserGetStateProgress: a disrupted direction counts as complete.
Complete(tx) == tx.done \cup depth

p == Head(todo)

\* n of the events that disturb a flow: FIN or RST, depth, a failing parser,
\* a reload, a pass rule, a config rule.
Event(n) == events + n + total <= Budget /\ events' = events + n
WithinBudget == events' + Cardinality(DOMAIN txs') <= Budget
Count(b) == IF b THEN 1 ELSE 0

\* The session is set up: the packets of the handshake had their rule group
\* looked up, and nothing has been parsed yet.
Init ==
    /\ txs = [i \in {} |-> FreedTx]
    /\ inspectId = [d \in Dir |-> 0] /\ logId = 0 /\ minId = 0 /\ eof = {}
    /\ appUpdated = {} /\ updateNext = {}
    /\ sgh = RuleSets[1] /\ pass = FALSE
    /\ depth = {} /\ disabled = FALSE /\ closed = FALSE
    /\ todo = <<>> /\ pc = "idle" /\ rules = 1 /\ events = 0

-----------------------------------------------------------------------------
(* The parser, of any protocol; the FTP parser is one that does all of      *)
(* this.  In a call for direction d it may create a transaction, with both  *)
(* directions to come or for d alone, or update one it has: it marks d, or  *)
(* both directions, and may complete what it marks.  One transaction is     *)
(* touched per call; a parser that touches more is so many calls.           *)

Created(d) ==
    {NewTx(done, u, {}) : done \in SUBSET {d}, u \in {{d}, Dir}}
    \cup {NewTx(done, {d}, {Other(d)}) : done \in {{Other(d)}, Dir}}

Updated(tx, d) ==
    UNION {{[tx EXCEPT !.done = @ \cup c, !.updated = @ \cup u, !.unseen = @ \cup (u \ Complete(tx))] :
               c \in SUBSET u} : u \in {{d}, Dir}}

Parse(t, d) ==
    LET n == Cardinality(DOMAIN t)
    IN  {t}
        \cup {[i \in 0..n |-> IF i = n THEN x ELSE t[i]] :
                 x \in IF n < MaxTx THEN Created(d) ELSE {}}
        \cup UNION {{[t EXCEPT ![i] = x] : x \in Updated(t[i], d)} :
                       i \in {i \in Live(t) : t[i].done # Dir}}

ParseAll(t, d, update) ==
    CASE update = "none" -> {t}
      [] update = "packet" -> Parse(t, d)
      [] update = "opposing" -> Parse(t, Other(d))
      [] update = "both" -> UNION {Parse(x, d) : x \in Parse(t, Other(d))}

Parsed(d, update) ==
    CASE update = "none" -> {}
      [] update = "packet" -> {d}
      [] update = "opposing" -> {Other(d)}
      [] update = "both" -> Dir

\* The pseudo packets of StreamTcpDetectLogFlush, for a packet of direction d.
Flush(d) == <<[dir |-> d, kind |-> "flush", update |-> FALSE, last |-> FALSE],
              [dir |-> Other(d), kind |-> "flush", update |-> FALSE, last |-> FALSE]>>

\* Mutant: a failing parser is disabled without the end of its directions.
ParserResultNoEOF(d, ended, result, queue) ==
    /\ eof' = eof \cup ended
    /\ disabled' = (disabled \/ result # "ok")
    /\ todo' = (IF result = "no_inspection" THEN Flush(d) ELSE <<>>) \o queue
    /\ pc' = "detect"

\* What AppLayerParserParse leaves: a failure, or a parser that wants no more
\* inspection, ends both directions and disables the app layer; the latter has
\* the flow flushed first.
ParserResult(d, ended, result, queue) ==
    /\ eof' = IF result = "ok" THEN eof \cup ended ELSE Dir
    /\ disabled' = (disabled \/ result # "ok")
    /\ todo' = (IF result = "no_inspection" THEN Flush(d) ELSE <<>>) \o queue
    /\ pc' = "detect"

\* PacketAppUpdate2FlowFlags
AppUpdate(d, update) ==
    /\ appUpdated' = (IF d \in updateNext THEN appUpdated \cup {d} ELSE appUpdated)
                     \cup Parsed(d, update)
    /\ updateNext' = (updateNext \ {d})
                     \cup (IF update \in {"opposing", "both"} THEN {d} ELSE {})
                     \cup (IF update = "both" THEN {Other(d)} ELSE {})

\* FlowWorker up to Detect, for a packet of direction d.  It has nothing
\* parsed, or the data of the other direction, which its ACK confirms; a FIN
\* or RST, or a packet that closes the session, has its own parsed, or both.
\* The parser is not called for a direction with data missing before the end,
\* so a session may close without it; mark is app_update_direction, which is
\* BOTH for a packet that was to have both parsed and had its own.
PacketParse(d) ==
    /\ pc = "idle"
    /\ \E update \in IF disabled THEN {"none"} ELSE {"none", "packet", "opposing", "both"},
          mark \in {"none", "packet", "opposing", "both"},
          result \in {"ok", "error", "no_inspection"}, close \in BOOLEAN :
        /\ mark = update \/ (update = "packet" /\ mark = "both")
        /\ update = "none" => result = "ok"
        /\ Event(Count(update \in {"packet", "both"} \/ close) + Count(result # "ok"))
        /\ txs' \in ParseAll(txs, d, update) /\ WithinBudget
        /\ AppUpdate(d, mark)
        /\ closed' = (closed \/ close)
        /\ ParserResult(d, IF closed' THEN Parsed(d, update) ELSE {}, result,
                        <<[dir |-> d, kind |-> "real", update |-> update # "none", last |-> FALSE]>>)
    /\ UNCHANGED <<inspectId, logId, minId, sgh, pass, depth, rules>>

\* The packet with which the stream depth of direction d is reached.  The ACK
\* in it may have had the other direction parsed, but the packet is marked
\* as an update of its own direction only.
PacketDepth(d) ==
    /\ pc = "idle" /\ d \notin depth
    /\ \E update \in IF disabled THEN {"none"} ELSE {"packet", "both"},
          result \in {"ok", "error", "no_inspection"} :
        /\ update = "none" => result = "ok"
        /\ Event(1 + Count(result # "ok"))
        /\ txs' \in ParseAll(txs, d, update) /\ WithinBudget
        /\ ParserResult(d, {}, result,
                        <<[dir |-> d, kind |-> "real", update |-> TRUE, last |-> FALSE]>>)
    /\ AppUpdate(d, "packet")
    /\ depth' = depth \cup {d}
    /\ UNCHANGED <<inspectId, logId, minId, sgh, pass, closed, rules>>

-----------------------------------------------------------------------------
(* Detection.                                                               *)

\* The second loop of AppLayerParserSetTransactionInspectId, run for a flow
\* that is no longer inspected when the first one stopped at transaction b.  It
\* walks all ids, as AppLayerDefaultGetTxIterator does.
TagInspectId(t, d, b) ==
    LET rest == From(t, b + 1)
        n == Min(rest)
        tagged(m) == /\ d \in Complete(t[n])
                     /\ \A j \in (n + 1)..m : t[j].live /\ d \in Complete(t[j]) \cap t[j].inspected
    IN  IF rest = {} THEN b ELSE Max({m \in rest : m = n \/ tagged(m)})

SetTransactionInspectId(t, d, tag) ==
    LET ids == From(t, inspectId[d])
        open == {i \in ids : d \notin Complete(t[i])}
    IN  IF open # {} THEN IF tag THEN TagInspectId(t, d, Min(open)) ELSE Min(open)
        ELSE IF ids = {} THEN inspectId[d] ELSE Max(ids) + 1

\* GetDetectTx: is there something to inspect?
DetectTx(tx, d, ended) ==
    /\ d \in tx.updated \/ d \in Complete(tx) \/ ended
    /\ d \notin tx.inspected \cup tx.skip

\* What DetectRunTx leaves in a transaction it has inspected.
InspectedTx(tx, d) ==
    [tx EXCEPT !.inspected = IF d \in Complete(tx) THEN @ \cup {d} ELSE @, !.unseen = @ \ {d}]

\* DetectRunTx: config rules may turn the logging of the transactions off.
DetectRunTx(d, ended, off) ==
    [i \in DOMAIN txs |->
        IF i \in From(txs, inspectId[d]) /\ DetectTx(txs[i], d, ended)
        THEN [InspectedTx(txs[i], d) EXCEPT !.nolog = @ \/ i \in off]
        ELSE txs[i]]

\* The direction has no rules: nothing is owed to it.
NoRules(d) ==
    [i \in DOMAIN txs |-> [txs[i] EXCEPT !.unseen = @ \ {d}]]

HasUpdate == p.kind # "real" \/ p.update \/ p.dir \in appUpdated

\* The rule groups of the flow after DetectRunSetup, which forgets them when the
\* rules are not those the flow was inspected with before, and the lookup for d.
RuleGroups(d, version) ==
    [e \in Dir |-> IF e = d THEN RuleSets[version][d]
                   ELSE IF version # rules THEN "unset" ELSE sgh[e]]

\* A pass rule may be one of the group, or one on addresses alone, which needs
\* no group.
DetectRun(d) ==
    \E version \in DOMAIN RuleSets, off \in SUBSET Live(txs), passed \in BOOLEAN :
        LET group == RuleSets[version][d]
            run == group = "rules" /\ HasUpdate
        IN  /\ Event(Count(version # rules) + Cardinality(off) + Count(passed))
            /\ rules' = version
            /\ sgh' = RuleGroups(d, version)
            /\ off # {} => run
            /\ txs' = IF run THEN DetectRunTx(d, p.kind = "ffr", off)
                      ELSE IF group = "none" THEN NoRules(d) ELSE txs
            /\ inspectId' = IF run
                            THEN [inspectId EXCEPT ![d] = SetTransactionInspectId(txs', d, FALSE)]
                            ELSE inspectId
            /\ pass' = passed

\* DetectFlow: a passed flow is not inspected any more.
Detect ==
    /\ pc = "detect" /\ pc' = "log"
    /\ \/ ~pass /\ DetectRun(p.dir)
       \/ /\ pass
          /\ inspectId' = [inspectId EXCEPT ![p.dir] = SetTransactionInspectId(txs, p.dir, TRUE)]
          /\ UNCHANGED <<txs, sgh, pass, rules, events>>
    /\ UNCHANGED <<logId, minId, eof, appUpdated, updateNext, stream, todo>>

-----------------------------------------------------------------------------
(* Logging and cleanup.                                                     *)

\* A transaction OutputTxLog does not look at yet.
Untouched(tx) == tx.updated = {} /\ Complete(tx) = {} /\ eof = {}

\* The loggers OutputTxLogCallLoggers calls.  A LogCondition looks at what the
\* parser has, where a disrupted direction is not complete.
CallLoggers(tx, ended) ==
    {l \in Loggers \ tx.logged :
        ended \/ LogProgress[l] \subseteq IF l \in Conditional THEN tx.done ELSE Complete(tx)}

\* Mutant: what was logged is stored only when every logger is done.
LogTxStoreLate(tx, called) ==
    IF Untouched(tx) THEN tx
    ELSE IF tx.nolog THEN [tx EXCEPT !.logged = Loggers]
    ELSE [tx EXCEPT !.logged = IF @ \cup called = Loggers THEN Loggers ELSE @,
                    !.written = [l \in Loggers |-> IF l \in called THEN MinOf(2, @[l] + 1) ELSE @[l]]]

LogTx(tx, called) ==
    IF Untouched(tx) THEN tx
    ELSE IF tx.nolog THEN [tx EXCEPT !.logged = Loggers]
    ELSE [tx EXCEPT !.logged = @ \cup called,
                    !.written = [l \in Loggers |-> IF l \in called THEN MinOf(2, @[l] + 1) ELSE @[l]]]

\* Mutant: a gap does not hold log_id back.
LogIdAfterNoGap(t, ids) ==
    LET full == {i \in ids : t[i].logged = Loggers}
    IN  IF full = {} THEN logId ELSE Max(full) + 1

\* log_id moves past the transactions completed here, up to the first one
\* that still has a logger to come.
LogIdAfter(t, ids) ==
    LET tried == {i \in ids : ~Untouched(txs[i]) /\ ~txs[i].nolog /\ txs[i].logged # Loggers}
        gaps == {i \in ids : Untouched(txs[i])} \cup {i \in tried : t[i].logged # Loggers}
        full == {i \in tried \ gaps : \A g \in gaps : i < g}
    IN  IF full = {} THEN logId ELSE Max(full) + 1

Log ==
    /\ pc = "log"
    /\ IF Loggers # {} /\ HasUpdate
       THEN LET ids == From(txs, logId)
            IN  /\ txs' = [i \in DOMAIN txs |->
                              IF i \in ids
                              THEN LogTx(txs[i], CallLoggers(txs[i], p.last \/ eof = Dir))
                              ELSE txs[i]]
                /\ logId' = LogIdAfter(txs', ids)
       ELSE UNCHANGED <<txs, logId>>
    /\ IF p.kind = "flush" THEN pc' = "detect" /\ todo' = Tail(todo)
       ELSE pc' = "cleanup" /\ UNCHANGED todo
    /\ UNCHANGED <<inspectId, minId, eof, flow, stream, rules, events>>

\* Mutant: a rule group not looked up yet is taken for no rules.
FreeableUnsetGroup(tx) ==
    /\ Complete(tx) = Dir
    /\ pass \/ \A e \in Dir : e \in depth \/ sgh[e] # "rules" \/ e \in tx.inspected \cup tx.skip
    /\ tx.logged = Loggers

\* AppLayerParserTransactionsCleanup: may the transaction be freed?
Freeable(tx) ==
    /\ Complete(tx) = Dir
    /\ pass \/ \A e \in Dir : e \in depth \/ sgh[e] = "none" \/ e \in tx.inspected \cup tx.skip
    /\ tx.logged = Loggers

\* Mutant: the cleanup clears the update flags of both directions.
CleanupTxsBoth(d) ==
    [i \in DOMAIN txs |->
        IF ~txs[i].live THEN txs[i]
        ELSE IF Freeable(txs[i]) THEN FreedTx ELSE [txs[i] EXCEPT !.updated = {}]]

CleanupTxs(d) ==
    [i \in DOMAIN txs |->
        IF ~txs[i].live THEN txs[i]
        ELSE IF Freeable(txs[i]) THEN FreedTx ELSE [txs[i] EXCEPT !.updated = @ \ {d}]]

NewMin ==
    LET kept == {i \in Live(txs) : ~Freeable(txs[i])}
        freed == {i \in Live(txs) \ kept : \A k \in kept : i < k}
    IN  IF freed = {} THEN minId ELSE Max(freed) + 1

\* The trackers after the cleanup: none stays below min_id.
Trackers(min) ==
    /\ minId' = min
    /\ inspectId' = [e \in Dir |-> MaxOf(inspectId[e], min)]
    /\ logId' = MaxOf(logId, min)

TransactionsCleanup(d) == txs' = CleanupTxs(d) /\ Trackers(NewMin)

\* The end of a packet in FlowWorker, or in FlowWorkerFlowTimeout.
Cleanup ==
    /\ pc = "cleanup"
    /\ IF p.kind = "ffr" \/ p.dir \in appUpdated THEN TransactionsCleanup(p.dir)
       ELSE UNCHANGED <<txs, inspectId, logId, minId>>
    /\ appUpdated' = IF p.kind = "ffr" THEN appUpdated ELSE appUpdated \ {p.dir}
    /\ todo' = Tail(todo)
    /\ pc' = IF p.kind = "real" THEN "idle" ELSE IF Len(todo) > 1 THEN "stream" ELSE "end"
    /\ UNCHANGED <<eof, updateNext, sgh, pass, stream, rules, events>>

-----------------------------------------------------------------------------
(* The end of the flow.                                                     *)

GetTransactionActive(d) == IF Loggers = {} THEN inspectId[d] ELSE MinOf(logId, inspectId[d])

\* FlowNeedsReassembly: unprocessed segments and frames may add directions.
NeedsReassembly == {d \in Dir : ~closed \/ GetTransactionActive(d) < total}

FlowFinish ==
    /\ pc = "idle"
    /\ \E need \in SUBSET Dir :
        /\ NeedsReassembly \subseteq need
        /\ todo' = [i \in 1..Cardinality(need) |->
                      [dir |-> IF i = 1 /\ "ts" \in need THEN "ts" ELSE "tc", kind |-> "ffr",
                       update |-> FALSE, last |-> i = Cardinality(need)]]
        /\ pc' = IF need = {} THEN "end" ELSE "stream"
    /\ UNCHANGED <<txs, parser, flow, stream, rules, events>>

\* FlowWorkerStreamTCPUpdate for a pseudo packet of FlowFinish: the parser is
\* told of the end of the direction, unless data before the end is missing.
TimeoutParse ==
    /\ pc = "stream"
    /\ \/ ParserResult(p.dir, {}, "ok", todo) /\ UNCHANGED <<txs, events>>
       \/ /\ ~disabled
          /\ \E result \in {"ok", "error", "no_inspection"} :
                /\ Event(Count(result # "ok"))
                /\ txs' \in Parse(txs, p.dir) /\ WithinBudget
                /\ ParserResult(p.dir, {p.dir}, result, todo)
    /\ UNCHANGED <<inspectId, logId, minId, flow, depth, closed, rules>>

Next ==
    \/ \E d \in Dir : PacketParse(d) \/ PacketDepth(d)
    \/ Detect
    \/ Log
    \/ Cleanup
    \/ FlowFinish
    \/ TimeoutParse

Spec == Init /\ [][Next]_vars

-----------------------------------------------------------------------------
\* Every variable has its type, and no tracker is ahead of the transactions
\* the parser created.
TypeOK ==
    /\ total \in 0..MaxTx /\ DOMAIN txs = 0..(total - 1)
    /\ \A i \in DOMAIN txs : txs[i] \in Tx
    /\ inspectId \in [Dir -> 0..total] /\ logId \in 0..total /\ minId \in 0..total
    /\ {eof, appUpdated, updateNext, depth} \subseteq SUBSET Dir
    /\ sgh \in [Dir -> {"unset", "none", "rules"}]
    /\ {pass, disabled, closed} \subseteq BOOLEAN
    /\ todo \in Seq(Packet) /\ rules \in DOMAIN RuleSets /\ events \in 0..Budget
    /\ pc \in {"idle", "stream", "detect", "log", "cleanup", "end"}

AllWritten(tx) == tx.nolog \/ \A l \in Loggers : tx.written[l] = 1

\* Detection has nothing left to do on tx in direction d.
InspectDone(tx, d) == pass \/ d \in depth \cup tx.skip \/ sgh[d] = "none" \/ d \notin tx.unseen

\* No logger writes a transaction twice, although OutputTxLog looks at it
\* again for every packet until all its loggers are done.
LoggedOnce == \A i \in Live(txs) : \A l \in Loggers : txs[i].written[l] <= 1

\* AppLayerParserTransactionsCleanup frees a transaction only when the parser
\* is done with both directions, every logger wrote it (unless a config rule
\* turned that off) and detection saw its last update in both directions.
FreedWhenDone ==
    [][\A i \in Live(txs) : ~txs'[i].live =>
            /\ Complete(txs[i]) = Dir
            /\ AllWritten(txs[i])
            /\ \A d \in Dir : InspectDone(txs[i], d)]_vars

\* Each of the parser, detection and the loggers starts at its own tracker and
\* never sees what is below it again.  So log_id passes no transaction that a
\* logger still has to write, and inspect_id of a direction none that is open in
\* it or has an update detection did not see; min_id has freed transactions only
\* below it, and no tracker is behind it or ahead of the parser.
TrackersCover ==
    /\ TypeOK
    /\ \A i \in Live(txs) :
          /\ i >= minId
          /\ i < logId => AllWritten(txs[i])
          /\ \A d \in Dir : i < inspectId[d] /\ ~pass =>
                d \in Complete(txs[i]) /\ InspectDone(txs[i], d)
    /\ minId <= logId /\ \A d \in Dir : minId <= inspectId[d]

\* Between packets, an update of the parser that detection has not seen is
\* still one that GetDetectTx finds when a packet of its direction comes: the
\* cleanup for one direction leaves the updates of the other alone.
NoUpdateLost ==
    pc = "idle" =>
        \A i \in Live(txs), d \in Dir :
            \/ InspectDone(txs[i], d)
            \/ i >= inspectId[d] /\ DetectTx(txs[i], d, FALSE)

\* Once the flow is finished, with the pseudo packets FlowNeedsReassembly asks
\* for, every transaction has been written by every logger.  The exception is
\* one that is open in both directions when no end of stream reached the
\* parser and nothing was parsed since the last packet.  It is none for a
\* parser that failed or asked for no more inspection: that ends its directions.
LoggedAtEnd ==
    pc = "end" =>
        \A i \in Live(txs) :
            AllWritten(txs[i]) \/ (eof = {} /\ ~disabled /\ Complete(txs[i]) = {})
=============================================================================
