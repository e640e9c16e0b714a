-------------------------- MODULE AppLayerTxProof --------------------------
(***************************************************************************)
(* What AppLayerTx guarantees for any number of transactions and loggers,  *)
(* any rule sets and any order of packets: the trackers pass no            *)
(* transaction that somebody still needs, no logger writes one twice, none *)
(* is freed early, no update is lost to detection.                         *)
(***************************************************************************)
EXTENDS AppLayerTxInv

-----------------------------------------------------------------------------
(* Logging. *)

\* The packets after the first one.
LEMMA TailEnds ==
    ASSUME RestType, todo # <<>>, Ends(todo)
    PROVE  /\ Tail(todo) \in Seq(Packet) /\ Ends(Tail(todo))
           /\ Tail(todo) = <<>> => p = todo[Len(todo)]
           /\ p.last => p.kind = "ffr"
<1>1. PICK n \in Nat : n = Len(todo) /\ n >= 1 /\ p = todo[1] /\ todo \in Seq(Packet)
  BY InHand, Zenon DEF RestType
<1>2. /\ Tail(todo) \in Seq(Packet) /\ Len(Tail(todo)) = n - 1
      /\ \A i \in 1..(n - 1) : Tail(todo)[i] = todo[i + 1]
  BY <1>1
<1>3. ASSUME Tail(todo) = <<>> PROVE n = 1
  <2>1. Len(<<>>) = 0
    OBVIOUS
  <2>2. Len(Tail(todo)) = 0
    BY <1>3, <2>1, Zenon
  <2>. QED
    BY <1>1, <1>2, <2>2
<1>4. /\ todo[n].kind # "flush" /\ (todo[n].kind = "ffr" => todo[n].last)
      /\ \A i \in 1..n : todo[i].last => todo[i].kind = "ffr"
  BY <1>1, Zenon DEF Ends
<1>5. Ends(Tail(todo))
  <2>1. Tail(todo) # <<>> => Tail(todo)[n - 1] = todo[n]
    BY <1>2, <1>1
  <2>2. \A i \in 1..(n - 1) : Tail(todo)[i].last => Tail(todo)[i].kind = "ffr"
    BY <1>2, <1>1, <1>4
  <2>. QED
    BY <1>2, <1>4, <2>1, <2>2, Zenon DEF Ends
<1>6. 1 \in 1..n
  BY <1>1
<1>. QED
  BY <1>1, <1>2, <1>3, <1>4, <1>5, <1>6, Zenon

LEMMA SameData ==
    ASSUME DataType, Data, UNCHANGED <<txs, inspectId, logId, minId, depth, pass>>
    PROVE  DataType' /\ Data'
<1>1. DataType'
  BY Zenon DEF DataType, total
<1>. QED
  BY <1>1, Zenon DEF Data, TxsGood, LogCover, Live, InspectCover, Complete, MinCover

LEMMA LogStep ==
    ASSUME IInv, Log PROVE IInv'
<1>. DataType /\ Data /\ RestType /\ Queue
  BY TypeParts DEF IInv, Data
<1>1. /\ pc = "log" /\ todo # <<>> /\ Ends(todo)
      /\ UNCHANGED <<inspectId, minId, eof, appUpdated, updateNext, sgh, pass, depth, disabled,
                     closed, rules, events>>
  BY Zenon DEF Log, Queue, flow, stream
<1>2. /\ p.kind = "flush" => pc' = "detect" /\ todo' = Tail(todo)
      /\ p.kind # "flush" => pc' = "cleanup" /\ todo' = todo
  BY Zenon DEF Log
<1>3. /\ Tail(todo) \in Seq(Packet) /\ Ends(Tail(todo))
      /\ Tail(todo) = <<>> => p = todo[Len(todo)]
      /\ p.last => p.kind = "ffr"
  BY <1>1, TailEnds, Zenon
<1>4. RestType' /\ DisabledEnded'
  BY <1>1, <1>2, <1>3, Zenon DEF RestType, IInv, DisabledEnded
<1>5. Queue'
  <2>1. CASE p.kind = "flush"
    <3>1. Tail(todo) # <<>>
      BY <1>1, <1>3, <2>1, Zenon DEF Ends
    <3>. QED
      BY <1>2, <1>3, <2>1, <3>1, Zenon DEF Queue
  <2>2. CASE p.kind # "flush"
    BY <1>2, <2>2, <1>1, Zenon DEF p, Queue
  <2>. QED
    BY <2>1, <2>2
<1>6. CASE Loggers # {} /\ HasUpdate
  <2>1. /\ DataType' /\ Data' /\ DOMAIN txs' = DOMAIN txs
        /\ \A i \in DOMAIN txs : Logged(txs[i], txs'[i])
        /\ \A i \in Live(txs) : (p.last \/ eof = Dir) =>
                AllWritten(txs'[i]) \/ (Untouched(txs[i]) /\ txs'[i] = txs[i])
    <3>. DEFINE e == p.last \/ eof = Dir
    <3>1. LET ids == From(txs, logId)
          IN  /\ txs' = [i \in DOMAIN txs |->
                            IF i \in ids THEN LogTx(txs[i], CallLoggers(txs[i], e)) ELSE txs[i]]
              /\ logId' = LogIdAfter(txs', ids)
      BY <1>6, Zenon DEF Log
    <3>. HIDE DEF e
    <3>. QED
      BY <1>1, <3>1, LogData, Zenon DEF e
  <2>2. \A i \in Live(txs') : i \in DOMAIN txs /\ i \in Live(txs)
    BY <2>1, Zenon DEF Live, Logged
  <2>3. ASSUME pc' = "cleanup" PROVE Detected' /\ LastLogged'
    <3>1. p' = p /\ HasUpdate' = HasUpdate
      BY <1>1, <1>2, <2>3, Zenon DEF p, HasUpdate
    <3>2. Detected'
      <4>1. pass \/ \A i \in Live(txs) : ~Owed(txs[i], p.dir, depth)
        BY <1>1, <1>6, Zenon DEF IInv, Detected
      <4>. QED
        BY <1>1, <2>1, <2>2, <3>1, <4>1, Zenon DEF Detected, Owed, Logged
    <3>3. LastLogged'
      <4>. SUFFICES ASSUME p.last, NEW i \in Live(txs')
                    PROVE AllWritten(txs'[i]) \/ (eof' = {} /\ txs'[i].done \cup depth' = {})
        BY <3>1, Zenon DEF LastLogged, AllWritten, Complete
      <4>. QED
        BY <1>1, <2>1, <2>2, Zenon DEF Untouched, Complete
    <3>. QED
      BY <3>2, <3>3
  <2>4. Detected' /\ LastLogged' /\ WrittenAtEnd'
    BY <1>2, <2>3, Zenon DEF Detected, LastLogged, WrittenAtEnd
  <2>. QED
    BY <1>4, <1>5, <2>1, <2>4, TypeNext, Zenon DEF IInv, Data
<1>7. CASE ~(Loggers # {} /\ HasUpdate)
  <2>1. DataType' /\ Data'
    BY <1>1, <1>7, SameData, Zenon DEF Log
  <2>2. ASSUME pc' = "cleanup" PROVE Detected' /\ LastLogged'
    <3>1. p' = p /\ HasUpdate' = HasUpdate
      BY <1>1, <1>2, <2>2, Zenon DEF p, HasUpdate
    <3>2. Detected'
      BY <1>1, <1>7, <3>1, Zenon DEF IInv, Detected, Log
    <3>3. p.last => Loggers = {}
      BY <1>3, <1>7 DEF HasUpdate
    <3>. QED
      BY <3>1, <3>2, <3>3 DEF LastLogged, AllWritten
  <2>3. Detected' /\ LastLogged' /\ WrittenAtEnd'
    BY <1>2, <2>2, Zenon DEF Detected, LastLogged, WrittenAtEnd
  <2>. QED
    BY <1>4, <1>5, <2>1, <2>3, TypeNext, Zenon DEF IInv, Data
<1>. QED
  BY <1>6, <1>7

-----------------------------------------------------------------------------
(* The cleanup. *)

LEMMA FreedGood ==
    /\ FreedTx \in Tx /\ ~FreedTx.live
    /\ depth \subseteq Dir => TxGood(FreedTx, depth, pass)
<1>. DEFINE a == NewTx({}, {}, {})
<1>1. a \in Tx /\ a.unseen = {} /\ a.inspected = {} /\ a.logged = {}
      /\ a.written = [l \in Loggers |-> 0]
  BY DEF NewTx, Tx
<1>. HIDE DEF a
<1>2. /\ FreedTx.unseen = {} /\ FreedTx.inspected = {} /\ FreedTx.logged = {}
      /\ FreedTx.written = [l \in Loggers |-> 0] /\ FreedTx.live = FALSE
  BY <1>1 DEF Tx, FreedTx, a
<1>3. FreedTx \in Tx
  BY <1>1, Zenon DEF Tx, FreedTx, a
<1>. QED
  BY <1>2, <1>3 DEF TxGood, Owed

\* What the cleanup for direction d leaves of a transaction it keeps.
Cleared(a, d) == [a EXCEPT !.updated = @ \ {d}]

LEMMA ClearedGood ==
    ASSUME NEW a \in Tx, NEW d \in Dir, TxGood(a, depth, pass), pass \/ ~Owed(a, d, depth)
    PROVE  LET b == Cleared(a, d)
           IN  /\ b \in Tx /\ TxGood(b, depth, pass)
               /\ b.live = a.live /\ b.done = a.done /\ b.nolog = a.nolog /\ b.written = a.written
               /\ b.unseen = a.unseen /\ b.skip = a.skip
<1>. DEFINE b == Cleared(a, d)
<1>1. /\ b.live = a.live /\ b.done = a.done /\ b.nolog = a.nolog /\ b.written = a.written
      /\ b.unseen = a.unseen /\ b.skip = a.skip /\ b.logged = a.logged
      /\ b.inspected = a.inspected /\ b.updated = a.updated \ {d}
  BY DEF Cleared, Tx
<1>. HIDE DEF b
<1>. QED
  BY <1>1 DEF b, Cleared, Tx, TxGood, Owed

\* min_id moves past freed transactions only.
LEMMA NewMinIs ==
    ASSUME DataType, MinCover
    PROVE  \E m \in 0..total : /\ m = NewMin /\ minId <= m
                               /\ \A i \in Live(txs) : i < m => Freeable(txs[i])
<1>. DEFINE kept == {i \in Live(txs) : ~Freeable(txs[i])}
            freed == {i \in Live(txs) \ kept : \A k \in kept : i < k}
<1>1. PICK n \in Nat : n = total /\ DOMAIN txs = 0..(n - 1)
  BY DEF DataType
<1>2. PICK a \in 0..n : a = minId
  BY <1>1 DEF DataType
<1>3. \A i \in Live(txs) : i \in 0..(n - 1) /\ i \in Nat /\ a <= i
  BY <1>1, <1>2 DEF Live, MinCover
<1>4. freed \subseteq Live(txs) /\ \A i \in freed : \A k \in kept : i < k
  BY Zenon
<1>5. \A i \in Live(txs) : i \notin kept => Freeable(txs[i])
  OBVIOUS
<1>6. NewMin = IF freed = {} THEN minId ELSE Max(freed) + 1
  BY Zenon DEF NewMin
<1>. HIDE DEF kept, freed
<1>7. CASE freed = {}
  <2>1. \A i \in Live(txs) : ~(i < a)
    BY <1>2, <1>3
  <2>2. a <= a
    OBVIOUS
  <2>. QED
    BY <1>1, <1>2, <1>6, <1>7, <2>1, <2>2
<1>8. CASE freed # {}
  <2>1. freed \subseteq 0..(n - 1)
    BY <1>3, <1>4
  <2>2. PICK x \in freed : x = Max(freed)
    BY <1>8, <2>1, MaxIs, Zenon
  <2>3. x \in 0..(n - 1) /\ a <= x /\ \A k \in kept : x < k
    BY <1>3, <1>4
  <2>4. x + 1 \in 0..n /\ a <= x + 1
    BY <1>2, <2>3
  <2>5. ASSUME NEW i \in Live(txs), i < x + 1 PROVE Freeable(txs[i])
    <3>1. i \in Nat /\ ~(x < i)
      BY <1>3, <2>3, <2>5
    <3>. QED
      BY <1>5, <2>3, <3>1
  <2>6. NewMin = x + 1
    BY <1>6, <1>8, <2>2
  <2>. QED
    BY <1>1, <1>2, <2>4, <2>5, <2>6
<1>. QED
  BY <1>7, <1>8

LEMMA CleanupData ==
    ASSUME DataType, Data, depth \subseteq Dir, NEW d \in Dir, TransactionsCleanup(d),
           UNCHANGED <<depth, pass>>, pass \/ \A i \in Live(txs) : ~Owed(txs[i], d, depth)
    PROVE  /\ DataType' /\ Data'
           /\ \A i \in Live(txs') : /\ i \in Live(txs) /\ txs'[i].done = txs[i].done
                                    /\ txs'[i].nolog = txs[i].nolog /\ txs'[i].written = txs[i].written
<1>1. PICK n \in Nat : n = total /\ n <= MaxTx /\ DOMAIN txs = 0..(n - 1)
  BY BoundsAssumption DEF DataType
<1>2. /\ \A i \in DOMAIN txs : txs[i] \in Tx /\ TxGood(txs[i], depth, pass)
      /\ inspectId \in [Dir -> 0..n] /\ logId \in 0..n
  BY <1>1, Zenon DEF DataType, Data, TxsGood
<1>3. txs' = [i \in DOMAIN txs |->
                 IF ~txs[i].live THEN txs[i]
                 ELSE IF Freeable(txs[i]) THEN FreedTx ELSE Cleared(txs[i], d)]
  BY DEF TransactionsCleanup, CleanupTxs, Cleared
<1>4. DOMAIN txs' = DOMAIN txs /\ total' = n
  BY <1>1, <1>3, Zenon DEF total
<1>5. PICK m \in 0..n : /\ m = NewMin /\ minId <= m
                        /\ \A i \in Live(txs) : i < m => Freeable(txs[i])
  BY <1>1, NewMinIs, Zenon DEF Data
<1>6. /\ minId' = m /\ inspectId' = [e \in Dir |-> MaxOf(inspectId[e], m)] /\ logId' = MaxOf(logId, m)
  BY <1>5 DEF TransactionsCleanup, Trackers
<1>7. ASSUME NEW i \in DOMAIN txs
      PROVE  /\ txs'[i] \in Tx /\ TxGood(txs'[i], depth, pass)
             /\ txs'[i].live => /\ i \in Live(txs) /\ ~Freeable(txs[i])
                                /\ txs'[i].done = txs[i].done /\ txs'[i].nolog = txs[i].nolog
                                /\ txs'[i].written = txs[i].written
                                /\ txs'[i].unseen = txs[i].unseen /\ txs'[i].skip = txs[i].skip
  <2>1. CASE ~txs[i].live
    BY <1>3, <2>1, <1>2, Zenon
  <2>2. CASE txs[i].live /\ Freeable(txs[i])
    BY <1>3, <2>2, FreedGood, Zenon
  <2>3. CASE txs[i].live /\ ~Freeable(txs[i])
    <3>. DEFINE b == Cleared(txs[i], d)
    <3>1. txs'[i] = b
      BY <1>3, <2>3, Zenon
    <3>2. i \in Live(txs) /\ txs[i] \in Tx /\ TxGood(txs[i], depth, pass)
          /\ (pass \/ ~Owed(txs[i], d, depth))
      BY <1>2, <2>3, Zenon DEF Live
    <3>3. /\ b \in Tx /\ TxGood(b, depth, pass)
          /\ b.live = txs[i].live /\ b.done = txs[i].done /\ b.nolog = txs[i].nolog
          /\ b.written = txs[i].written /\ b.unseen = txs[i].unseen /\ b.skip = txs[i].skip
      BY <3>2, ClearedGood, Zenon
    <3>. HIDE DEF b
    <3>. QED
      BY <2>3, <3>1, <3>2, <3>3, Zenon
  <2>. QED
    BY <2>1, <2>2, <2>3, Zenon
<1>8. ASSUME NEW i \in Live(txs')
      PROVE  /\ i \in DOMAIN txs /\ i \in Live(txs) /\ i \in Nat /\ ~(i < m) /\ i >= m
             /\ txs'[i].done = txs[i].done /\ txs'[i].nolog = txs[i].nolog
             /\ txs'[i].written = txs[i].written
             /\ txs'[i].unseen = txs[i].unseen /\ txs'[i].skip = txs[i].skip
  <2>1. i \in DOMAIN txs /\ txs'[i].live
    BY <1>4 DEF Live
  <2>2. i \in Nat /\ m \in Nat
    BY <1>1, <1>5, <2>1
  <2>3. ~(i < m)
    BY <1>5, <1>7, <2>1, Zenon
  <2>4. i >= m
    BY <2>2, <2>3
  <2>. QED
    BY <1>7, <2>1, <2>2, <2>3, <2>4, Zenon
<1>9. \A x \in 0..n : /\ MaxOf(x, m) \in 0..n /\ m <= MaxOf(x, m)
                      /\ \A i \in Nat : i < MaxOf(x, m) /\ ~(i < m) => i < x
  BY <1>5 DEF MaxOf
<1>10. DataType'
  <2>1. inspectId' \in [Dir -> 0..n] /\ logId' \in 0..n /\ minId' \in 0..n
    BY <1>2, <1>5, <1>6, <1>9, Zenon
  <2>2. \A i \in DOMAIN txs' : txs'[i] \in Tx
    BY <1>4, <1>7, Zenon
  <2>3. n \in 0..MaxTx
    BY <1>1, BoundsAssumption
  <2>. QED
    BY <1>1, <1>4, <2>1, <2>2, <2>3, Zenon DEF DataType
<1>11. TxsGood'
  BY <1>4, <1>7, Zenon DEF TxsGood
<1>12. LogCover'
  <2>. SUFFICES ASSUME NEW i \in Live(txs'), i < logId' PROVE AllWritten(txs'[i])
    BY Zenon DEF LogCover, AllWritten
  <2>1. i < logId
    BY <1>2, <1>6, <1>8, <1>9, Zenon
  <2>2. AllWritten(txs[i])
    BY <1>8, <2>1, Zenon DEF Data, LogCover
  <2>. QED
    BY <1>8, <2>2 DEF AllWritten
<1>13. InspectCover'
  <2>. SUFFICES ASSUME ~pass', NEW i \in Live(txs'), NEW e \in Dir, i < inspectId'[e]
                PROVE  e \in txs'[i].done \cup depth' /\ ~Owed(txs'[i], e, depth')
    BY Zenon DEF InspectCover, Complete
  <2>1. i < inspectId[e]
    BY <1>2, <1>6, <1>8, <1>9, Zenon
  <2>. QED
    BY <1>8, <2>1, Zenon DEF Owed, Data, InspectCover, Complete
<1>14. MinCover'
  <2>1. \A i \in Live(txs') : i >= minId'
    BY <1>6, <1>8, Zenon
  <2>2. minId' <= logId'
    BY <1>2, <1>6, <1>9, Zenon
  <2>3. \A e \in Dir : minId' <= inspectId'[e]
    BY <1>2, <1>6, <1>9, Zenon
  <2>. QED
    BY <2>1, <2>2, <2>3 DEF MinCover
<1>. QED
  BY <1>8, <1>10, <1>11, <1>12, <1>13, <1>14, Zenon DEF Data

LEMMA CleanupStep ==
    ASSUME IInv, Cleanup PROVE IInv'
<1>. DataType /\ Data /\ RestType /\ Queue
  BY TypeParts DEF IInv, Data
<1>1. /\ pc = "cleanup" /\ todo # <<>> /\ Ends(todo) /\ p.kind # "flush"
      /\ UNCHANGED <<eof, updateNext, sgh, pass, depth, disabled, closed, rules, events>>
      /\ appUpdated' = IF p.kind = "ffr" THEN appUpdated ELSE appUpdated \ {p.dir}
      /\ todo' = Tail(todo)
      /\ pc' = IF p.kind = "real" THEN "idle" ELSE IF Len(todo) > 1 THEN "stream" ELSE "end"
  BY Zenon DEF Cleanup, Queue, stream
<1>2. /\ p \in Packet /\ p.dir \in Dir /\ Len(todo) \in Nat /\ Len(todo) >= 1
  BY <1>1, InHand, Zenon
<1>3. RestType'
  BY <1>1, TailEnds, Zenon DEF RestType
<1>4. Len(todo) > 1 => Tail(todo) # <<>>
  <2>1. Len(todo) > 1 => Len(Tail(todo)) # 0
    BY <1>1, <1>2 DEF RestType
  <2>. QED
    BY <2>1, Zenon
<1>5. Queue'
  BY <1>1, TailEnds, <1>4, Zenon DEF Queue
<1>6. pc' = "end" => p.last
  <2>1. p.kind \in {"real", "flush", "ffr"}
    BY <1>2 DEF Packet
  <2>2. ASSUME pc' = "end" PROVE p.kind = "ffr" /\ Len(todo) = 1
    <3>1. p.kind # "real" /\ ~(Len(todo) > 1)
      BY <1>1, <2>2
    <3>2. PICK n \in Nat : n = Len(todo) /\ n >= 1
      BY <1>2
    <3>3. n = 1
      BY <3>1, <3>2
    <3>. QED
      BY <1>1, <2>1, <3>1, <3>2, <3>3, Zenon
  <2>3. Len(todo) = 1 => p = todo[Len(todo)]
    BY DEF p, RestType
  <2>. QED
    BY <1>1, <2>2, <2>3, Zenon DEF Ends
<1>7. /\ DataType' /\ Data'
      /\ \A i \in Live(txs') : /\ i \in Live(txs) /\ txs'[i].done = txs[i].done
                               /\ txs'[i].nolog = txs[i].nolog /\ txs'[i].written = txs[i].written
  <2>1. CASE p.kind = "ffr" \/ p.dir \in appUpdated
    <3>1. TransactionsCleanup(p.dir)
      BY <2>1, Zenon DEF Cleanup
    <3>2. pass \/ \A i \in Live(txs) : ~Owed(txs[i], p.dir, depth)
      BY <1>1, <2>1, Zenon DEF IInv, Detected, HasUpdate
    <3>3. depth \subseteq Dir
      BY DEF RestType
    <3>. QED
      BY <1>1, <1>2, <3>1, <3>2, <3>3, CleanupData, Zenon
  <2>2. CASE ~(p.kind = "ffr" \/ p.dir \in appUpdated)
    BY <2>2, <1>1, SameData, Zenon DEF Cleanup
  <2>. QED
    BY <2>1, <2>2, Zenon
<1>8. WrittenAtEnd'
  <2>. SUFFICES ASSUME pc' = "end", NEW i \in Live(txs')
                PROVE  AllWritten(txs'[i]) \/ (eof' = {} /\ txs'[i].done \cup depth' = {})
    BY Zenon DEF WrittenAtEnd, AllWritten, Complete
  <2>1. AllWritten(txs[i]) \/ (eof = {} /\ txs[i].done \cup depth = {})
    BY <1>1, <1>6, <1>7, Zenon DEF IInv, LastLogged, Complete
  <2>. QED
    BY <1>1, <1>7, <2>1, Zenon DEF AllWritten
<1>9. Detected' /\ LastLogged' /\ DisabledEnded'
  BY <1>1, Zenon DEF IInv, Detected, LastLogged, DisabledEnded
<1>. QED
  BY <1>3, <1>5, <1>7, <1>8, <1>9, TypeNext, Zenon DEF IInv, Data
-----------------------------------------------------------------------------
(* The packets, the end of the flow. *)

\* The packets a parser's result leaves in hand.
LEMMA ResultKeeps ==
    ASSUME RestType, NEW d \in Dir, NEW ended \in SUBSET Dir,
           NEW result \in {"ok", "error", "no_inspection"}, NEW queue \in Seq(Packet), queue # <<>>,
           Ends(queue), ParserResult(d, ended, result, queue)
    PROVE  /\ eof' \in SUBSET Dir /\ disabled' \in BOOLEAN
           /\ todo' \in Seq(Packet) /\ todo' # <<>> /\ Ends(todo') /\ pc' = "detect"
<1>1. CASE result # "no_inspection"
  BY <1>1 DEF ParserResult, RestType
<1>2. CASE result = "no_inspection"
  <2>1. /\ Flush(d) \in Seq(Packet) /\ Len(Flush(d)) = 2
        /\ \A i \in 1..2 : Flush(d)[i].last = FALSE
    BY Dirs DEF Flush, Packet
  <2>2. todo' = Flush(d) \o queue
    BY <1>2 DEF ParserResult
  <2>3. PICK n \in Nat : n = Len(queue) /\ n # 0
    OBVIOUS
  <2>4. /\ todo' \in Seq(Packet) /\ Len(todo') = n + 2
        /\ \A i \in 1..(n + 2) : todo'[i] = IF i <= 2 THEN Flush(d)[i] ELSE queue[i - 2]
    <3>1. PICK f \in Seq(Packet) : f = Flush(d) /\ Len(f) = 2
      BY <2>1
    <3>2. f \o queue \in Seq(Packet) /\ Len(f \o queue) = Len(f) + Len(queue)
      OBVIOUS
    <3>3. \A i \in 1..(Len(f) + Len(queue)) :
                (f \o queue)[i] = IF i <= Len(f) THEN f[i] ELSE queue[i - Len(f)]
      OBVIOUS
    <3>4. Len(f) + Len(queue) = n + 2
      BY <2>3, <3>1
    <3>. QED
      BY <2>2, <3>1, <3>2, <3>3, <3>4, Zenon
  <2>5. todo' # <<>>
    BY <2>3, <2>4
  <2>6. \A i \in 1..(n + 2) : todo'[i].last => todo'[i].kind = "ffr"
    <3>. SUFFICES ASSUME NEW i \in 1..(n + 2), todo'[i].last PROVE todo'[i].kind = "ffr"
      OBVIOUS
    <3>1. CASE i <= 2
      BY <2>1, <2>4, <3>1
    <3>2. CASE ~(i <= 2)
      <4>1. i - 2 \in 1..Len(queue) /\ todo'[i] = queue[i - 2]
        BY <2>3, <2>4, <3>2
      <4>. QED
        BY <4>1, Zenon DEF Ends
    <3>. QED
      BY <3>1, <3>2
  <2>7. todo'[n + 2] = queue[n]
    BY <2>3, <2>4
  <2>8. Ends(todo')
    BY <2>3, <2>4, <2>6, <2>7, Zenon DEF Ends
  <2>. QED
    BY <2>4, <2>5, <2>8, Zenon DEF ParserResult, RestType
<1>. QED
  BY <1>1, <1>2

LEMMA ParserStep ==
    ASSUME IInv, NEW d \in Dir, NEW update \in {"none", "packet", "opposing", "both"},
           txs' \in ParseAll(txs, d, update), depth \subseteq depth', depth' \subseteq Dir,
           UNCHANGED <<inspectId, logId, minId, sgh, pass, rules>>,
           appUpdated' \subseteq Dir, updateNext' \subseteq Dir, closed' \in BOOLEAN,
           events' \in 0..Budget, NEW ended \in SUBSET Dir,
           NEW result \in {"ok", "error", "no_inspection"}, NEW queue \in Seq(Packet), queue # <<>>,
           Ends(queue), ParserResult(d, ended, result, queue)
    PROVE  IInv'
<1>1. DataType /\ Data /\ RestType
  BY TypeParts, Zenon DEF IInv, Data
<1>2. DataType' /\ Data'
  <2>1. PICK n \in Nat : n = total /\ n <= MaxTx
    BY <1>1, BoundsAssumption DEF DataType
  <2>2. Sized(txs, n)
    BY <1>1, <2>1, Zenon DEF DataType, Sized
  <2>3. depth \subseteq Dir
    BY <1>1, Zenon DEF RestType
  <2>4. PICK m \in Nat : Grows(txs, n, txs', m)
    BY <2>1, <2>2, <2>3, ParseAllGrows, Zenon
  <2>. QED
    BY <1>1, <2>1, <2>4, ParserKeeps, Zenon
<1>3. /\ eof' \in SUBSET Dir /\ disabled' \in BOOLEAN
      /\ todo' \in Seq(Packet) /\ todo' # <<>> /\ Ends(todo') /\ pc' = "detect"
  BY <1>1, ResultKeeps, Zenon
<1>4. RestType'
  BY <1>1, <1>3, Zenon DEF RestType
<1>5. Queue' /\ Detected' /\ LastLogged' /\ WrittenAtEnd'
  BY <1>3, Zenon DEF Queue, Detected, LastLogged, WrittenAtEnd
<1>6. DisabledEnded'
  <2>1. result = "ok" => disabled' = disabled /\ eof' = eof \cup ended
    BY <1>1 DEF ParserResult, RestType
  <2>2. result # "ok" => eof' = Dir
    BY DEF ParserResult
  <2>. QED
    BY <2>1, <2>2, Zenon DEF IInv, DisabledEnded
<1>. QED
  BY <1>2, <1>4, <1>5, <1>6, TypeNext, Zenon DEF IInv, Data

LEMMA EventType ==
    ASSUME TypeOK, NEW n \in Nat, Event(n)
    PROVE  events' \in 0..Budget
<1>1. PICK e \in Nat, t \in Nat : e = events /\ t = total
  BY BoundsAssumption DEF TypeOK
<1>. QED
  BY <1>1, BoundsAssumption DEF Event

\* A packet of the wire: one packet in hand, neither a flush nor the last one.
LEMMA RealPacket ==
    ASSUME NEW d \in Dir, NEW u \in BOOLEAN
    PROVE  LET q == <<[dir |-> d, kind |-> "real", update |-> u, last |-> FALSE]>>
           IN  q \in Seq(Packet) /\ q # <<>> /\ Ends(q)
<1>. DEFINE x == [dir |-> d, kind |-> "real", update |-> u, last |-> FALSE]
<1>1. x \in Packet /\ x.kind = "real" /\ x.last = FALSE
  BY DEF Packet
<1>. HIDE DEF x
<1>. QED
  BY <1>1 DEF x, Ends

LEMMA ParsedDirs ==
    ASSUME NEW d \in Dir, NEW update \in {"none", "packet", "opposing", "both"}
    PROVE  Parsed(d, update) \subseteq Dir
  BY Dirs DEF Parsed

LEMMA PacketUpdates ==
    ASSUME RestType, NEW d \in Dir, NEW update \in {"none", "packet", "opposing", "both"},
           AppUpdate(d, update)
    PROVE  appUpdated' \subseteq Dir /\ updateNext' \subseteq Dir
  BY Dirs, ParsedDirs DEF AppUpdate, RestType

LEMMA PacketParseStep ==
    ASSUME IInv, NEW d \in Dir, PacketParse(d) PROVE IInv'
<1>1. TypeOK /\ RestType
  BY TypeParts DEF IInv
<1>2. PICK update \in IF disabled THEN {"none"} ELSE {"none", "packet", "opposing", "both"},
           mark \in {"none", "packet", "opposing", "both"},
           result \in {"ok", "error", "no_inspection"}, close \in BOOLEAN :
        /\ mark = update \/ (update = "packet" /\ mark = "both")
        /\ update = "none" => result = "ok"
        /\ Event(Count(update \in {"packet", "both"} \/ close) + Count(result # "ok"))
        /\ txs' \in ParseAll(txs, d, update) /\ WithinBudget
        /\ AppUpdate(d, mark)
        /\ closed' = (closed \/ close)
        /\ ParserResult(d, IF closed' THEN Parsed(d, update) ELSE {}, result,
                        <<[dir |-> d, kind |-> "real", update |-> update # "none", last |-> FALSE]>>)
  BY Zenon DEF PacketParse
<1>. update \in {"none", "packet", "opposing", "both"}
  OBVIOUS
<1>3. UNCHANGED <<inspectId, logId, minId, sgh, pass, depth, rules>>
  BY Zenon DEF PacketParse
<1>4. events' \in 0..Budget
  <2>1. Count(update \in {"packet", "both"} \/ close) + Count(result # "ok") \in Nat
    BY DEF Count
  <2>. QED
    BY <1>1, <1>2, <2>1, EventType, Zenon
<1>5. appUpdated' \subseteq Dir /\ updateNext' \subseteq Dir /\ Parsed(d, update) \subseteq Dir
  BY <1>1, <1>2, PacketUpdates, ParsedDirs, Zenon
<1>6. closed' \in BOOLEAN /\ depth \subseteq Dir
  BY <1>1, <1>2, Zenon DEF RestType
<1>. DEFINE queue == <<[dir |-> d, kind |-> "real", update |-> update # "none", last |-> FALSE]>>
            ended == IF closed' THEN Parsed(d, update) ELSE {}
<1>7. queue \in Seq(Packet) /\ queue # <<>> /\ Ends(queue)
  BY RealPacket, Zenon
<1>8. ended \in SUBSET Dir
  BY <1>5
<1>9. ParserResult(d, ended, result, queue)
  BY <1>2, Zenon
<1>. HIDE DEF queue, ended
<1>10. depth \subseteq depth' /\ depth' \subseteq Dir
  BY <1>3, <1>6
<1>. QED
  BY <1>2, <1>3, <1>4, <1>5, <1>6, <1>7, <1>8, <1>9, <1>10, ParserStep, Zenon

LEMMA PacketDepthStep ==
    ASSUME IInv, NEW d \in Dir, PacketDepth(d) PROVE IInv'
<1>1. TypeOK /\ RestType
  BY TypeParts DEF IInv
<1>2. PICK update \in IF disabled THEN {"none"} ELSE {"packet", "both"},
           result \in {"ok", "error", "no_inspection"} :
        /\ Event(1 + Count(result # "ok"))
        /\ txs' \in ParseAll(txs, d, update)
        /\ ParserResult(d, {}, result,
                        <<[dir |-> d, kind |-> "real", update |-> TRUE, last |-> FALSE]>>)
  BY Zenon DEF PacketDepth
<1>. update \in {"none", "packet", "opposing", "both"}
  OBVIOUS
<1>3. /\ UNCHANGED <<inspectId, logId, minId, sgh, pass, closed, rules>>
      /\ AppUpdate(d, "packet") /\ depth' = depth \cup {d}
  BY Zenon DEF PacketDepth
<1>4. events' \in 0..Budget
  <2>1. 1 + Count(result # "ok") \in Nat
    BY DEF Count
  <2>. QED
    BY <1>1, <1>2, <2>1, EventType, Zenon
<1>5. appUpdated' \subseteq Dir /\ updateNext' \subseteq Dir
  BY <1>1, <1>3, PacketUpdates
<1>6. closed' \in BOOLEAN /\ depth \subseteq depth' /\ depth' \subseteq Dir
  BY <1>1, <1>3, Zenon DEF RestType
<1>. DEFINE queue == <<[dir |-> d, kind |-> "real", update |-> TRUE, last |-> FALSE]>>
<1>7. queue \in Seq(Packet) /\ queue # <<>> /\ Ends(queue)
  BY RealPacket, Zenon
<1>8. ParserResult(d, {}, result, queue) /\ {} \in SUBSET Dir
  BY <1>2, Zenon
<1>. HIDE DEF queue
<1>. QED
  BY <1>2, <1>3, <1>4, <1>5, <1>6, <1>7, <1>8, ParserStep, Zenon

LEMMA TimeoutParseStep ==
    ASSUME IInv, TimeoutParse PROVE IInv'
<1>1. TypeOK /\ RestType /\ Queue /\ pc = "stream"
  BY TypeParts, Zenon DEF IInv, TimeoutParse
<1>2. todo # <<>> /\ todo \in Seq(Packet) /\ Ends(todo)
  BY <1>1 DEF Queue, RestType
<1>3. PICK d \in Dir : d = p.dir
  BY <1>1, <1>2, InHand
<1>4. /\ UNCHANGED <<inspectId, logId, minId, sgh, pass, rules, appUpdated, updateNext, depth, closed>>
  BY Zenon DEF TimeoutParse, flow
<1>5. /\ appUpdated' \subseteq Dir /\ updateNext' \subseteq Dir /\ closed' \in BOOLEAN
      /\ depth \subseteq depth' /\ depth' \subseteq Dir
  BY <1>1, <1>4 DEF RestType
<1>6. {} \in SUBSET Dir /\ {d} \in SUBSET Dir
  OBVIOUS
<1>7. CASE ParserResult(d, {}, "ok", todo) /\ UNCHANGED <<txs, events>>
  <2>1. txs' \in ParseAll(txs, d, "none")
    BY <1>7 DEF ParseAll
  <2>2. events' \in 0..Budget
    BY <1>1, <1>7 DEF RestType
  <2>. QED
    BY <1>2, <1>4, <1>5, <1>6, <1>7, <2>1, <2>2, ParserStep, Zenon
<1>8. ASSUME NEW result \in {"ok", "error", "no_inspection"}, Event(Count(result # "ok")),
             txs' \in Parse(txs, d), ParserResult(d, {d}, result, todo)
      PROVE  IInv'
  <2>1. txs' \in ParseAll(txs, d, "packet")
    BY <1>8 DEF ParseAll
  <2>2. events' \in 0..Budget
    BY <1>1, <1>8, EventType DEF Count
  <2>. QED
    BY <1>2, <1>4, <1>5, <1>6, <1>8, <2>1, <2>2, ParserStep, Zenon
<1>. QED
  BY <1>3, <1>7, <1>8, Zenon DEF TimeoutParse

LEMMA IsSeq ==
    ASSUME NEW S, NEW k \in Nat, NEW q \in [1..k -> S]
    PROVE  q \in Seq(S) /\ Len(q) = k /\ (q # <<>> <=> k # 0)
  OBVIOUS

\* The pseudo packets of FlowFinish.
Ffr(d, z) == [dir |-> d, kind |-> "ffr", update |-> FALSE, last |-> z]

LEMMA FfrPacket ==
    ASSUME NEW d \in Dir, NEW z \in BOOLEAN
    PROVE  Ffr(d, z) \in Packet /\ Ffr(d, z).kind = "ffr" /\ Ffr(d, z).last = z
  BY DEF Ffr, Packet

LEMMA FfrPackets ==
    ASSUME NEW k \in Nat, NEW q \in [1..k -> Packet], \A i \in 1..k : q[i].kind = "ffr",
           k # 0 => q[k].last
    PROVE  q \in Seq(Packet) /\ Ends(q) /\ (k # 0 => q # <<>>)
  BY IsSeq DEF Ends

LEMMA FinishPackets ==
    ASSUME NEW need \in SUBSET Dir
    PROVE  LET q == [i \in 1..Cardinality(need) |->
                        [dir |-> IF i = 1 /\ "ts" \in need THEN "ts" ELSE "tc", kind |-> "ffr",
                         update |-> FALSE, last |-> i = Cardinality(need)]]
           IN  q \in Seq(Packet) /\ Ends(q) /\ (need # {} => q # <<>>)
<1>. DEFINE dir(i) == IF i = 1 /\ "ts" \in need THEN "ts" ELSE "tc"
            q == [i \in 1..Cardinality(need) |-> Ffr(dir(i), i = Cardinality(need))]
<1>1. IsFiniteSet(need)
  BY Dirs, FS_Subset
<1>2. PICK k \in Nat : k = Cardinality(need)
  BY <1>1, FS_CardinalityType
<1>3. need # {} => k # 0
  BY <1>1, <1>2, FS_EmptySet
<1>4. q = [i \in 1..k |-> Ffr(dir(i), i = k)]
  BY <1>2
<1>5. \A i \in 1..k : dir(i) \in Dir
  BY DEF Dir
<1>. HIDE DEF q, dir
<1>6. \A i \in 1..k : Ffr(dir(i), i = k) \in Packet /\ Ffr(dir(i), i = k).kind = "ffr"
                      /\ Ffr(dir(i), i = k).last = (i = k)
  BY <1>5, FfrPacket, Zenon
<1>7. q \in [1..k -> Packet] /\ \A i \in 1..k : q[i].kind = "ffr" /\ q[i].last = (i = k)
  BY <1>4, <1>6
<1>8. k # 0 => q[k].last
  <2>1. k # 0 => k \in 1..k
    OBVIOUS
  <2>. QED
    BY <1>7, <2>1, Zenon
<1>9. q \in Seq(Packet) /\ Ends(q) /\ (need # {} => q # <<>>)
  BY <1>3, <1>7, <1>8, FfrPackets
<1>. QED
  BY <1>9, Zenon DEF q, dir, Ffr

LEMMA FlowFinishStep ==
    ASSUME IInv, FlowFinish PROVE IInv'
<1>. DataType /\ Data /\ RestType
  BY TypeParts DEF IInv, Data
<1>1. UNCHANGED <<txs, inspectId, logId, minId, eof, appUpdated, updateNext, sgh, pass, depth,
                  disabled, closed, rules, events>>
  BY Zenon DEF FlowFinish, parser, flow, stream
<1>2. PICK need \in SUBSET Dir :
        /\ NeedsReassembly \subseteq need
        /\ todo' = [i \in 1..Cardinality(need) |->
                      [dir |-> IF i = 1 /\ "ts" \in need THEN "ts" ELSE "tc", kind |-> "ffr",
                       update |-> FALSE, last |-> i = Cardinality(need)]]
        /\ pc' = IF need = {} THEN "end" ELSE "stream"
  BY Zenon DEF FlowFinish
<1>3. todo' \in Seq(Packet) /\ Ends(todo') /\ (need # {} => todo' # <<>>)
  BY <1>2, FinishPackets, Zenon
<1>4. /\ need = {} => pc' = "end"
      /\ need # {} => pc' = "stream"
  BY <1>2
<1>5. DataType' /\ Data'
  BY <1>1, SameData
<1>6. RestType'
  BY <1>1, <1>3, <1>4, Zenon DEF RestType
<1>7. Queue' /\ Detected' /\ LastLogged' /\ DisabledEnded'
  BY <1>1, <1>3, <1>4 DEF Queue, Detected, LastLogged, IInv, DisabledEnded
<1>8. WrittenAtEnd'
  <2>. SUFFICES ASSUME pc' = "end", NEW i \in Live(txs), Loggers # {} PROVE AllWritten(txs[i])
    BY <1>1, Zenon DEF WrittenAtEnd, AllWritten, Live
  <2>1. PICK d \in Dir : d \notin NeedsReassembly
    BY <1>2, <1>4, Zenon DEF Dir
  <2>2. PICK n \in Nat, a \in Nat, b \in Nat :
            n = total /\ a = logId /\ b = inspectId[d] /\ DOMAIN txs = 0..(n - 1)
    BY DEF DataType
  <2>3. i < a
    BY <2>2, <2>1 DEF Live, MinOf, GetTransactionActive, NeedsReassembly
  <2>. QED
    BY <2>2, <2>3 DEF Data, LogCover
<1>. QED
  BY <1>5, <1>6, <1>7, <1>8, TypeNext, Zenon DEF IInv, Data
-----------------------------------------------------------------------------
(* The theorems. *)

LEMMA InitInv == Init => IInv
<1>. SUFFICES ASSUME Init PROVE IInv
  OBVIOUS
<1>1. /\ txs = [i \in {} |-> FreedTx] /\ inspectId = [d \in Dir |-> 0] /\ logId = 0 /\ minId = 0
      /\ eof = {} /\ appUpdated = {} /\ updateNext = {} /\ sgh = RuleSets[1] /\ pass = FALSE
      /\ depth = {} /\ disabled = FALSE /\ closed = FALSE
      /\ todo = <<>> /\ pc = "idle" /\ rules = 1 /\ events = 0
  BY DEF Init
<1>2. DOMAIN txs = {} /\ total = 0
  BY <1>1, FS_EmptySet DEF total
<1>3. 0 \in 0..MaxTx /\ 0 \in 0..Budget /\ 0 \in 0..0 /\ 0..(0 - 1) = {}
  BY BoundsAssumption
<1>4. DataType
  BY <1>1, <1>2, <1>3 DEF DataType
<1>5. Data
  BY <1>1, <1>2 DEF Data, TxsGood, LogCover, InspectCover, MinCover, Live
<1>6. 1 \in DOMAIN RuleSets /\ RuleSets[1] \in [Dir -> {"unset", "none", "rules"}]
  BY RuleSetsAssumption
<1>7. RestType
  <2>1. todo \in Seq(Packet) /\ pc \in {"idle", "stream", "detect", "log", "cleanup", "end"}
    BY <1>1
  <2>. QED
    BY <1>1, <1>3, <1>6, <2>1, Zenon DEF RestType
<1>8. Queue /\ Detected /\ LastLogged /\ WrittenAtEnd /\ DisabledEnded
  BY <1>1 DEF Queue, Ends, Detected, LastLogged, WrittenAtEnd, DisabledEnded
<1>. QED
  BY <1>4, <1>5, <1>7, <1>8, TypeParts DEF IInv, Data

LEMMA StutterInv ==
    ASSUME IInv, UNCHANGED vars PROVE IInv'
<1>1. UNCHANGED <<txs, inspectId, logId, minId, eof, appUpdated, updateNext, sgh, pass, depth,
                  disabled, closed, todo, pc, rules, events>>
  BY DEF vars, parser, flow, stream
<1>2. DataType /\ Data /\ RestType
  BY TypeParts DEF IInv, Data
<1>3. DataType' /\ Data'
  BY <1>1, <1>2, SameData
<1>4. RestType'
  BY <1>1, <1>2, Zenon DEF RestType
<1>5. Queue'
  BY <1>1, Zenon DEF IInv, Queue, p
<1>6. Detected'
  BY <1>1, Zenon DEF IInv, Detected, HasUpdate, Live, p
<1>7. LastLogged' /\ WrittenAtEnd' /\ DisabledEnded'
  BY <1>1, Zenon DEF IInv, LastLogged, WrittenAtEnd, DisabledEnded, Live, Complete, p
<1>. QED
  BY <1>3, <1>4, <1>5, <1>6, <1>7, TypeNext DEF IInv, Data

LEMMA NextInv ==
    ASSUME IInv, [Next]_vars PROVE IInv'
  BY PacketParseStep, PacketDepthStep, DetectStep, LogStep, CleanupStep, FlowFinishStep, TimeoutParseStep,
     StutterInv DEF Next

\* Between them the trackers, the flags of the transactions and the packets in hand
\* stay consistent through every step of the parser, detection, the loggers and the
\* cleanup.
THEOREM Invariance == Spec => []IInv
  BY InitInv, NextInv, PTL DEF Spec

\* OutputTxLog writes no transaction twice: what a logger has written is in logged,
\* and the loggers of a transaction are only called while they are not.
THEOREM LoggersWriteOnce == Spec => []LoggedOnce
<1>1. IInv => LoggedOnce
  BY Zenon DEF IInv, LoggedOnce, TxsGood, TxGood, Live
<1>. QED
  BY <1>1, Invariance, PTL

\* AppLayerParserSetTransactionInspectId, SetTransactionLogId and the cleanup move
\* their trackers past no transaction that somebody still needs.
THEOREM TrackersPassNothing == Spec => []TrackersCover
<1>1. IInv => TrackersCover
  BY Zenon DEF IInv, InspectCover, InspectDone, Owed, TrackersCover, LogCover, MinCover
<1>. QED
  BY <1>1, Invariance, PTL

\* The update flags AppLayerParserTransactionsCleanup clears are those detection has
\* run on: GetDetectTx finds every update that is still to be seen.
THEOREM UpdatesReachDetection == Spec => []NoUpdateLost
<1>1. IInv => NoUpdateLost
  <2>. SUFFICES ASSUME IInv, NEW i \in Live(txs), NEW d \in Dir, ~InspectDone(txs[i], d)
                PROVE  i >= inspectId[d] /\ DetectTx(txs[i], d, FALSE)
    BY Zenon DEF NoUpdateLost
  <2>1. DetectTx(txs[i], d, FALSE)
    BY Zenon DEF TxGood, DetectTx, Owed, Complete, InspectDone, IInv, TxsGood, Live
  <2>2. PICK n \in Nat, b \in Nat : b = inspectId[d] /\ DOMAIN txs = 0..(n - 1)
    BY DEF IInv, TypeOK
  <2>3. ~(i < b)
    BY <2>2, Zenon DEF IInv, InspectCover, InspectDone, Owed
  <2>4. PICK j \in Nat : j = i
    BY <2>2 DEF IInv, TxsGood, Live
  <2>5. j >= b
    BY <2>3, <2>4
  <2>. QED
    BY <2>1, <2>2, <2>4, <2>5, Zenon
<1>. QED
  BY <1>1, Invariance, PTL

\* FlowFinish and the pseudo packets FlowNeedsReassembly asks for leave no transaction
\* unwritten, except one that no end of stream reached and whose parser is in use.
THEOREM FlowEndLogsAll == Spec => []LoggedAtEnd
<1>1. IInv => LoggedAtEnd
  <2>1. Dir # {}
    BY DEF Dir
  <2>. QED
    BY <2>1, Zenon DEF IInv, WrittenAtEnd, DisabledEnded, LoggedAtEnd
<1>. QED
  BY <1>1, Invariance, PTL

LEMMA NotFreed ==
    ASSUME IInv, NEW i \in Live(txs), Next, ~Cleanup
    PROVE  txs'[i].live
<1>1. PICK n \in Nat : n = total /\ n <= MaxTx /\ DOMAIN txs = 0..(n - 1)
  BY BoundsAssumption DEF IInv, TypeOK
<1>2. Sized(txs, n) /\ i \in DOMAIN txs /\ txs[i].live /\ txs[i] \in Tx /\ depth \subseteq Dir
  BY <1>1, Zenon DEF IInv, TypeOK, Live, Sized
<1>3. ASSUME NEW m \in Nat, Grows(txs, n, txs', m) PROVE txs'[i].live
  BY <1>1, <1>2, <1>3, Zenon DEF Grows, Grown
<1>4. ASSUME NEW d \in Dir, PacketParse(d) \/ PacketDepth(d) PROVE txs'[i].live
  <2>1. PICK update \in {"none", "packet", "opposing", "both"} : txs' \in ParseAll(txs, d, update)
    BY <1>4, Zenon DEF PacketParse, PacketDepth
  <2>. QED
    BY <1>1, <1>2, <1>3, <2>1, ParseAllGrows, Zenon
<1>5. ASSUME TimeoutParse PROVE txs'[i].live
  <2>1. p.dir \in Dir
    BY <1>5, InHand, TypeParts, Zenon DEF IInv, Queue, TimeoutParse
  <2>2. txs' = txs \/ txs' \in Parse(txs, p.dir)
    BY <1>5, Zenon DEF TimeoutParse
  <2>. QED
    BY <1>1, <1>2, <1>3, <2>1, <2>2, ParseGrows, Zenon
<1>6. ASSUME Detect PROVE txs'[i].live
  <2>1. PICK d \in Dir : d = p.dir
    BY <1>6, InHand, TypeParts, Zenon DEF IInv, Queue, Detect
  <2>2. ASSUME NEW ended, NEW off, txs' = DetectRunTx(d, ended, off) PROVE txs'[i].live
    <3>1. txs'[i] = txs[i] \/ txs'[i] = [InspectedTx(txs[i], d) EXCEPT !.nolog = @ \/ i \in off]
      BY <1>2, <2>2 DEF DetectRunTx
    <3>. DEFINE a == InspectedTx(txs[i], d)
    <3>2. a \in Tx /\ a.live = txs[i].live
      BY <1>2, Zenon DEF InspectedTx, Tx
    <3>. HIDE DEF a
    <3>3. \A x : [a EXCEPT !.nolog = @ \/ x].live = a.live
      BY <3>2 DEF Tx
    <3>. QED
      BY <1>2, <3>1, <3>2, <3>3, Zenon DEF a
  <2>3. ASSUME txs' = NoRules(d) PROVE txs'[i].live
    BY <1>2, <2>3 DEF NoRules, Tx
  <2>4. \/ txs' = txs \/ txs' = NoRules(d)
        \/ \E ended, off : txs' = DetectRunTx(d, ended, off)
    <3>1. DetectRun(d) => \E b, c \in BOOLEAN : \E ended, off :
                            txs' = IF b THEN DetectRunTx(d, ended, off)
                                   ELSE IF c THEN NoRules(d) ELSE txs
      <4>1. DetectRun(d) =>
              \E version \in DOMAIN RuleSets, off \in SUBSET Live(txs), passed \in BOOLEAN :
                txs' = IF RuleSets[version][d] = "rules" /\ HasUpdate
                       THEN DetectRunTx(d, p.kind = "ffr", off)
                       ELSE IF RuleSets[version][d] = "none" THEN NoRules(d) ELSE txs
        BY Zenon DEF DetectRun
      <4>. QED
        BY <4>1, ZenonT(60)
    <3>. QED
      BY <1>6, <2>1, <3>1, Zenon DEF Detect
  <2>. QED
    BY <1>2, <2>2, <2>3, <2>4
<1>7. ASSUME Log PROVE txs'[i].live
  <2>1. txs'[i] = txs[i] \/ \E called : txs'[i] = LogTx(txs[i], called)
    BY <1>2, <1>7, Zenon DEF Log
  <2>. QED
    BY <1>2, <2>1, Zenon DEF LogTx, Tx
<1>8. ASSUME FlowFinish PROVE txs'[i].live
  BY <1>2, <1>8, Zenon DEF FlowFinish
<1>. QED
  BY <1>4, <1>5, <1>6, <1>7, <1>8 DEF Next

\* A transaction AppLayerParserTransactionsCleanup frees is complete, inspected and
\* logged, and no other step frees one.
THEOREM FreedOnlyWhenDone == Spec => FreedWhenDone
<1>. DEFINE Step == \A i \in Live(txs) : ~txs'[i].live =>
                       /\ Complete(txs[i]) = Dir
                       /\ AllWritten(txs[i])
                       /\ \A d \in Dir : InspectDone(txs[i], d)
<1>1. IInv /\ [Next]_vars => [Step]_vars
  <2>. SUFFICES ASSUME IInv, Next, NEW i \in Live(txs), ~txs'[i].live
                PROVE  /\ Complete(txs[i]) = Dir /\ AllWritten(txs[i])
                       /\ \A d \in Dir : InspectDone(txs[i], d)
    OBVIOUS
  <2>1. i \in DOMAIN txs /\ txs[i].live /\ txs[i] \in Tx /\ TxGood(txs[i], depth, pass)
    BY Zenon DEF IInv, TypeOK, TxsGood, Live
  <2>2. txs'[i] = txs[i] \/ Freeable(txs[i]) \/ \E d : txs'[i] = Cleared(txs[i], d)
    BY NotFreed, <2>1, Zenon DEF Cleanup, TransactionsCleanup, CleanupTxs, Cleared
  <2>3. \A d : Cleared(txs[i], d).live = txs[i].live
    BY <2>1, Zenon DEF Cleared, Tx
  <2>4. Freeable(txs[i])
    BY <2>1, <2>2, <2>3, Zenon
  <2>5. AllWritten(txs[i])
    BY <2>1, <2>4, FullyLogged DEF Freeable
  <2>6. \A d \in Dir : InspectDone(txs[i], d)
    BY <2>1, <2>4, Zenon DEF Freeable, InspectDone, TxGood
  <2>. QED
    BY <2>4, <2>5, <2>6, Zenon DEF Freeable
<1>. QED
  BY <1>1, Invariance, PTL DEF Spec, FreedWhenDone, Step
=============================================================================
