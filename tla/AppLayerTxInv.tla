--------------------------- MODULE AppLayerTxInv ---------------------------
(***************************************************************************)
(* The inductive invariant of AppLayerTx, what its operators return, what  *)
(* the parser and a pass of the loggers do to the transactions, and that   *)
(* detection preserves the invariant.                                      *)
(***************************************************************************)
EXTENDS AppLayerTx, FiniteSetTheorems, TLAPS

-----------------------------------------------------------------------------
(* The inductive invariant. *)

\* Detection is owed an update of tx in direction d; deep: the directions whose
\* stream depth is reached.
Owed(tx, d, deep) == d \in tx.unseen /\ d \notin deep \cup tx.skip

\* What was logged was written once, or was not to be written; what is marked as
\* inspected is complete and was seen; what detection is owed, it can find.
TxGood(tx, deep, passed) ==
    /\ \A l \in Loggers : /\ tx.written[l] <= 1
                          /\ l \notin tx.logged => tx.written[l] = 0
                          /\ l \in tx.logged => tx.nolog \/ tx.written[l] = 1
    /\ \A d \in tx.inspected : d \in tx.done \cup deep /\ d \notin tx.unseen
    /\ passed \/ \A d \in Dir : Owed(tx, d, deep) => d \in tx.updated \cup tx.done \cup deep
TxsGood == \A i \in DOMAIN txs : TxGood(txs[i], depth, pass)

\* The trackers, each against the transactions below it.
LogCover == \A i \in Live(txs) : i < logId => AllWritten(txs[i])
InspectCover ==
    pass \/ \A i \in Live(txs), d \in Dir : i < inspectId[d] =>
                d \in Complete(txs[i]) /\ ~Owed(txs[i], d, depth)
MinCover ==
    /\ \A i \in Live(txs) : i >= minId
    /\ minId <= logId /\ \A d \in Dir : minId <= inspectId[d]

\* The packets in hand: the last one is no flush packet, and the last one of the end
\* of a flow says so.
Ends(q) ==
    /\ q # <<>> => q[Len(q)].kind # "flush" /\ (q[Len(q)].kind = "ffr" => q[Len(q)].last)
    /\ \A i \in 1..Len(q) : q[i].last => q[i].kind = "ffr"
Queue ==
    /\ pc \in {"stream", "detect", "log", "cleanup"} => todo # <<>>
    /\ Ends(todo)
    /\ pc = "cleanup" => p.kind # "flush"

\* Detection has seen the direction of the packet once it is done with the packet,
\* and every transaction is logged with the last packet.
Detected ==
    pc \in {"log", "cleanup"} /\ HasUpdate =>
        pass \/ \A i \in Live(txs) : ~Owed(txs[i], p.dir, depth)
LastLogged ==
    pc = "cleanup" /\ p.last =>
        \A i \in Live(txs) : AllWritten(txs[i]) \/ (eof = {} /\ Complete(txs[i]) = {})

WrittenAtEnd ==
    pc = "end" => \A i \in Live(txs) : AllWritten(txs[i]) \/ (eof = {} /\ Complete(txs[i]) = {})

\* A parser that is out of use has ended both directions.
DisabledEnded == disabled => eof = Dir

IInv ==
    /\ TypeOK /\ TxsGood /\ LogCover /\ InspectCover /\ MinCover
    /\ Queue /\ Detected /\ LastLogged /\ WrittenAtEnd /\ DisabledEnded
-----------------------------------------------------------------------------
(* Operators of the model. *)

LEMMA NatMin ==
    ASSUME NEW S, S \subseteq Nat, S # {}
    PROVE  \E x \in S : \A y \in S : x <= y
<1>. DEFINE R == {ss \in Nat \X Nat : ss[1] < ss[2]}
<1>1. IsWellFoundedOn(R, Nat)
  BY NatLessThanWellFounded DEF OpToRel
<1>2. \A x, y \in Nat : x < y => <<x, y>> \in R
  OBVIOUS
<1>. HIDE DEF R
<1>3. PICK x \in S : \A y \in S : ~(<<y, x>> \in R)
  BY <1>1, WFMin, Zenon
<1>4. \A y \in S : ~(y < x)
  BY <1>2, <1>3, Zenon
<1>. QED
  BY <1>4

LEMMA MinIs ==
    ASSUME NEW S, S \subseteq Nat, S # {}
    PROVE  Min(S) \in S /\ \A y \in S : Min(S) <= y
  BY NatMin, Zenon DEF Min

LEMMA MaxIs ==
    ASSUME NEW n \in Nat, NEW S, S \subseteq 0..(n - 1), S # {}
    PROVE  Max(S) \in S /\ \A y \in S : y <= Max(S)
<1>. DEFINE T == {n - x : x \in S}
<1>1. \A x \in S : n - x \in Nat
  OBVIOUS
<1>2. T \subseteq Nat /\ T # {}
  BY <1>1, Zenon
<1>3. PICK t \in T : \A y \in T : t <= y
  BY <1>2, NatMin, Zenon
<1>4. PICK x \in S : t = n - x
  BY <1>3
<1>5. \A y \in S : x >= y
  BY <1>3, <1>4
<1>. QED
  BY <1>5, Zenon DEF Max

LEMMA Dirs ==
    /\ \A d \in Dir : Other(d) \in Dir /\ Other(d) # d /\ Dir = {d, Other(d)}
    /\ IsFiniteSet(Dir)
<1>1. IsFiniteSet(Dir)
  <2>1. IsFiniteSet({"ts"}) /\ Dir = {"ts"} \cup {"tc"}
    BY FS_Singleton DEF Dir
  <2>. QED
    BY <2>1, FS_AddElement
<1>. QED
  BY <1>1 DEF Dir, Other

\* The transactions have the ids 0 .. n - 1.
Sized(t, n) == n \in Nat /\ DOMAIN t = 0..(n - 1) /\ \A i \in DOMAIN t : t[i] \in Tx

LEMMA Size ==
    ASSUME NEW t, NEW n, Sized(t, n)
    PROVE  Cardinality(DOMAIN t) = n /\ IsFiniteSet(DOMAIN t)
  BY FS_Interval DEF Sized

LEMMA SizedTxs == TypeOK => Sized(txs, total) /\ total \in Nat
  BY DEF TypeOK, Sized

-----------------------------------------------------------------------------
(* The parser. *)

\* What a call of the parser leaves of a transaction it had: it changes no tracker of
\* detection and the loggers, and has no update for a direction that was complete.
Grown(a, b) ==
    /\ b \in Tx /\ b.live = a.live /\ b.skip = a.skip /\ b.inspected = a.inspected
    /\ b.logged = a.logged /\ b.nolog = a.nolog /\ b.written = a.written
    /\ a.done \subseteq b.done /\ a.updated \subseteq b.updated
    /\ \A d \in Dir : d \in b.unseen => d \in a.unseen \/ (d \in b.updated /\ d \notin Complete(a))

LEMMA GrownGood ==
    ASSUME NEW a \in Tx, NEW b, Grown(a, b), TxGood(a, depth, pass)
    PROVE  TxGood(b, depth, pass)
<1>1. ASSUME ~pass, NEW d \in Dir, Owed(b, d, depth) PROVE d \in b.updated \cup b.done \cup depth
  BY <1>1, Zenon DEF Grown, TxGood, Complete, Owed
<1>. QED
  BY <1>1 DEF TxGood, Grown, Complete, Tx

LEMMA GrownSelf == \A a \in Tx : Grown(a, a)
  BY DEF Grown

LEMMA GrownTrans ==
    ASSUME NEW a \in Tx, NEW b \in Tx, NEW c \in Tx, Grown(a, b), Grown(b, c)
    PROVE  Grown(a, c)
<1>1. ASSUME NEW d \in Dir, d \in c.unseen
      PROVE  d \in a.unseen \/ (d \in c.updated /\ d \notin Complete(a))
  BY <1>1, Zenon DEF Grown, Complete
<1>. QED
  BY <1>1, Zenon DEF Grown

LEMMA UpdatedGrown ==
    ASSUME NEW a \in Tx, NEW d \in Dir, NEW b \in Updated(a, d), depth \subseteq Dir
    PROVE  Grown(a, b)
<1>1. PICK u \in {{d}, Dir} : \E c \in SUBSET u :
        b = [a EXCEPT !.done = @ \cup c, !.updated = @ \cup u, !.unseen = @ \cup (u \ Complete(a))]
  BY ZenonT(60) DEF Updated
<1>2. PICK c \in SUBSET u :
        b = [a EXCEPT !.done = @ \cup c, !.updated = @ \cup u, !.unseen = @ \cup (u \ Complete(a))]
  BY <1>1, Zenon
<1>3. u \subseteq Dir
  BY <1>1
<1>. QED
  BY <1>2, <1>3, Zenon DEF Grown, Tx

LEMMA NewIs ==
    ASSUME NEW done \in SUBSET Dir, NEW updated \in SUBSET Dir, NEW skip \in SUBSET Dir
    PROVE  NewTx(done, updated, skip) \in Tx /\ TxGood(NewTx(done, updated, skip), depth, pass)
  BY DEF NewTx, Tx, TxGood, Owed

LEMMA CreatedGood ==
    ASSUME NEW d \in Dir, NEW x \in Created(d)
    PROVE  x \in Tx /\ TxGood(x, depth, pass)
<1>1. CASE \E done \in {{Other(d)}, Dir} : x = NewTx(done, {d}, {Other(d)})
  <2>1. PICK done \in {{Other(d)}, Dir} : x = NewTx(done, {d}, {Other(d)})
    BY <1>1
  <2>2. done \in SUBSET Dir /\ {d} \in SUBSET Dir /\ {Other(d)} \in SUBSET Dir
    BY Dirs
  <2>. QED
    BY <2>1, <2>2, NewIs, Zenon
<1>2. CASE \E done \in SUBSET {d}, u \in {{d}, Dir} : x = NewTx(done, u, {})
  <2>1. PICK done \in SUBSET {d}, u \in {{d}, Dir} : x = NewTx(done, u, {})
    BY <1>2
  <2>2. done \in SUBSET Dir /\ u \in SUBSET Dir /\ {} \in SUBSET Dir
    OBVIOUS
  <2>. QED
    BY <2>1, <2>2, NewIs, Zenon
<1>3. \/ \E done \in SUBSET {d}, u \in {{d}, Dir} : x = NewTx(done, u, {})
      \/ \E done \in {{Other(d)}, Dir} : x = NewTx(done, {d}, {Other(d)})
  BY DEF Created
<1>. QED
  BY <1>1, <1>2, <1>3

\* The table after a call of the parser, or after several.
Grows(t, n, u, m) ==
    /\ Sized(t, n) /\ Sized(u, m) /\ n <= m /\ m <= MaxTx
    /\ \A i \in 0..(n - 1) : Grown(t[i], u[i])
    /\ \A i \in n..(m - 1) : TxGood(u[i], depth, pass)

LEMMA GrowsTrans ==
    ASSUME NEW t, NEW n, NEW u, NEW m, NEW v, NEW k, Grows(t, n, u, m), Grows(u, m, v, k)
    PROVE  Grows(t, n, v, k)
<1>1. n \in Nat /\ m \in Nat /\ k \in Nat /\ n <= m /\ m <= k /\ k <= MaxTx /\ n <= k
  BY BoundsAssumption DEF Grows, Sized
<1>2. \A i \in 0..(n - 1) : Grown(t[i], v[i])
  BY <1>1, GrownTrans DEF Grows, Sized
<1>3. \A i \in n..(m - 1) : TxGood(v[i], depth, pass)
  BY <1>1, GrownGood DEF Grows, Sized
<1>. QED
  BY <1>1, <1>2, <1>3 DEF Grows

LEMMA ParseGrows ==
    ASSUME NEW t, NEW n, Sized(t, n), n <= MaxTx, NEW d \in Dir, NEW u \in Parse(t, d),
           depth \subseteq Dir
    PROVE  \E m \in Nat : Grows(t, n, u, m)
<1>1. Cardinality(DOMAIN t) = n
  BY Size
<1>2. CASE u = t
  BY <1>2, GrownSelf DEF Grows, Sized
<1>3. CASE \E x \in Created(d) : n < MaxTx /\ u = [i \in 0..n |-> IF i = n THEN x ELSE t[i]]
  BY <1>3, CreatedGood, GrownSelf, BoundsAssumption DEF Sized, Grows
<1>4. CASE \E i \in Live(t) : \E x \in Updated(t[i], d) : u = [t EXCEPT ![i] = x]
  <2>1. PICK i \in Live(t) : \E x \in Updated(t[i], d) : u = [t EXCEPT ![i] = x]
    BY <1>4, Zenon
  <2>2. PICK x \in Updated(t[i], d) : u = [t EXCEPT ![i] = x]
    BY <2>1, Zenon
  <2>3. \A j \in DOMAIN t : Grown(t[j], u[j])
    BY <2>2, UpdatedGrown, GrownSelf, Zenon DEF Live, Sized
  <2>4. Sized(u, n)
    BY <2>2, <2>3, Zenon DEF Sized, Grown
  <2>. QED
    BY <2>3, <2>4 DEF Sized, Grows
<1>5. \/ u = t
      \/ \E x \in Created(d) : n < MaxTx /\ u = [i \in 0..n |-> IF i = n THEN x ELSE t[i]]
      \/ \E i \in Live(t) : \E x \in Updated(t[i], d) : u = [t EXCEPT ![i] = x]
  <2>. DEFINE Add == {[i \in 0..n |-> IF i = n THEN x ELSE t[i]] :
                         x \in IF n < MaxTx THEN Created(d) ELSE {}}
              Change == UNION {{[t EXCEPT ![i] = x] : x \in Updated(t[i], d)} :
                                  i \in {i \in Live(t) : t[i].done # Dir}}
  <2>1. u \in Add => \E x \in Created(d) :
                        n < MaxTx /\ u = [i \in 0..n |-> IF i = n THEN x ELSE t[i]]
    BY Zenon
  <2>. HIDE DEF Add, Change
  <2>. QED
    BY <1>1, <2>1 DEF Parse
<1>. QED
  BY <1>2, <1>3, <1>4, <1>5, Zenon

LEMMA ParseAllGrows ==
    ASSUME NEW t, NEW n, Sized(t, n), n <= MaxTx, NEW d \in Dir,
           NEW update \in {"none", "packet", "opposing", "both"},
           NEW u \in ParseAll(t, d, update), depth \subseteq Dir
    PROVE  \E m \in Nat : Grows(t, n, u, m)
<1>. Other(d) \in Dir
  BY Dirs
<1>1. CASE update = "none"
  BY <1>1, GrownSelf DEF ParseAll, Grows, Sized
<1>2. CASE update = "packet"
  BY <1>2, ParseGrows DEF ParseAll
<1>3. CASE update = "opposing"
  BY <1>3, ParseGrows DEF ParseAll
<1>4. CASE update = "both"
  BY <1>4, ParseGrows, GrowsTrans DEF ParseAll, Grows
<1>. QED
  BY <1>1, <1>2, <1>3, <1>4, Zenon

\* What the invariant says of the transactions and their trackers ...
Data == TxsGood /\ LogCover /\ InspectCover /\ MinCover

\* ... and the types of both.
DataType ==
    /\ total \in 0..MaxTx /\ DOMAIN txs = 0..(total - 1) /\ \A i \in DOMAIN txs : txs[i] \in Tx
    /\ inspectId \in [Dir -> 0..total] /\ logId \in 0..total /\ minId \in 0..total

\* A deeper stream, like a passed flow, only ever takes work off detection.
LEMMA Deeper ==
    ASSUME NEW tx, NEW d1, NEW d2, NEW b, d1 \subseteq d2, TxGood(tx, d1, b)
    PROVE  TxGood(tx, d2, b)
  BY Zenon DEF TxGood, Owed

LEMMA ParserKeeps ==
    ASSUME DataType, Data, NEW m \in Nat, Grows(txs, total, txs', m), depth \subseteq depth',
           pass' = pass, UNCHANGED <<inspectId, logId, minId>>
    PROVE  DataType' /\ Data'
<1>. DEFINE n == total
<1>1. n \in Nat /\ n <= MaxTx /\ n <= m /\ m <= MaxTx /\ DOMAIN txs = 0..(n - 1)
  BY BoundsAssumption DEF DataType, Grows, Sized
<1>2. DOMAIN txs' = 0..(m - 1) /\ \A i \in 0..(m - 1) : txs'[i] \in Tx
  BY Zenon DEF Grows, Sized
<1>3. total' = m
  BY Size, Zenon DEF Grows, total
<1>4. \A i \in 0..(n - 1) : txs[i] \in Tx /\ Grown(txs[i], txs'[i]) /\ TxGood(txs[i], depth, pass)
  BY <1>1, Zenon DEF Grows, Sized, Data, TxsGood
<1>5. \A i \in n..(m - 1) : TxGood(txs'[i], depth, pass)
  BY Zenon DEF Grows
<1>6. inspectId \in [Dir -> 0..n] /\ logId \in 0..n /\ minId \in 0..n
  BY Zenon DEF DataType
<1>. HIDE DEF n
<1>7. DataType'
  BY <1>1, <1>6, BoundsAssumption, <1>2, <1>3 DEF DataType
<1>8. \A i \in 0..(m - 1) : TxGood(txs'[i], depth, pass)
  BY <1>1, <1>4, <1>5, GrownGood
<1>9. TxsGood'
  BY <1>2, <1>8, Deeper, Zenon DEF TxsGood
<1>10. \A i \in Live(txs') : \/ i \in n..(m - 1)
                             \/ i \in 0..(n - 1) /\ i \in Live(txs) /\ Grown(txs[i], txs'[i])
  BY <1>1, <1>2, <1>4 DEF Live, Grown
<1>11. LogCover'
  <2>. SUFFICES ASSUME NEW i \in Live(txs'), i < logId PROVE AllWritten(txs'[i])
    BY DEF LogCover
  <2>1. i \in Live(txs) /\ Grown(txs[i], txs'[i])
    BY <1>1, <1>6, <1>10
  <2>. QED
    BY <2>1 DEF Data, LogCover, AllWritten, Grown
<1>12. InspectCover'
  <2>. SUFFICES ASSUME ~pass, NEW i \in Live(txs'), NEW d \in Dir, i < inspectId[d]
                PROVE  d \in txs'[i].done \cup depth' /\ ~Owed(txs'[i], d, depth')
    BY Zenon DEF InspectCover, Complete
  <2>1. i \in Live(txs) /\ Grown(txs[i], txs'[i])
    BY <1>1, <1>6, <1>10
  <2>. QED
    BY <2>1, Zenon DEF Grown, Owed, Complete, Data, InspectCover
<1>13. MinCover'
  BY <1>1, <1>6, <1>10 DEF MinCover, Data
<1>. QED
  BY <1>7, <1>9, <1>11, <1>12, <1>13 DEF Data

-----------------------------------------------------------------------------
(* Detection. *)

LEMMA FromIs ==
    ASSUME NEW t, NEW n, Sized(t, n), NEW id \in Nat
    PROVE  /\ From(t, id) \subseteq 0..(n - 1) /\ From(t, id) \subseteq Nat
           /\ \A i \in From(t, id) : i \in Live(t) /\ id <= i /\ i < n
  BY DEF From, Live, Sized

\* The first loop of AppLayerParserSetTransactionInspectId stops at a transaction that is
\* open in the direction.
LEMMA InspectIdIs ==
    ASSUME NEW t, NEW n, Sized(t, n), NEW d, NEW a \in 0..n, inspectId[d] = a
    PROVE  \E id \in 0..n : /\ id = SetTransactionInspectId(t, d, FALSE) /\ a <= id
                            /\ \A i \in From(t, a) : i < id => d \in Complete(t[i])
<1>. DEFINE ids == From(t, a)
            open == {i \in ids : d \notin Complete(t[i])}
<1>. n \in Nat /\ a \in Nat
  BY DEF Sized
<1>1. /\ ids \subseteq 0..(n - 1) /\ ids \subseteq Nat
      /\ \A i \in ids : a <= i /\ i < n
  BY FromIs, Zenon
<1>2. SetTransactionInspectId(t, d, FALSE)
        = IF open # {} THEN Min(open) ELSE IF ids = {} THEN a ELSE Max(ids) + 1
  BY Zenon DEF SetTransactionInspectId
<1>. HIDE DEF ids
<1>3. CASE open # {}
  <2>1. PICK b \in open : b = Min(open) /\ \A y \in open : b <= y
    BY <1>1, <1>3, MinIs, Zenon
  <2>2. \A i \in ids : i < b => d \in Complete(t[i])
    BY <1>1, <2>1
  <2>3. b \in 0..n /\ a <= b
    BY <1>1
  <2>. QED
    BY <2>2, <2>3, <1>2, <1>3, <2>1, Zenon DEF ids
<1>4. CASE open = {} /\ ids # {}
  <2>1. PICK b \in ids : b = Max(ids)
    BY <1>1, <1>4, MaxIs, Zenon
  <2>2. b + 1 \in 0..n /\ a <= b + 1
    BY <1>1, <2>1
  <2>. QED
    BY <1>4, <2>2, <1>2, <2>1, Zenon DEF ids
<1>5. CASE open = {} /\ ids = {}
  <2>1. a <= a
    OBVIOUS
  <2>. QED
    BY <1>5, <1>2, <2>1, Zenon DEF ids
<1>. QED
  BY <1>3, <1>4, <1>5, Zenon

\* For a passed flow the tracker may go further, but neither back nor past the parser.
LEMMA TagIdIs ==
    ASSUME NEW t, NEW n, Sized(t, n), NEW d, NEW a \in 0..n, inspectId[d] = a
    PROVE  \E id \in 0..n : id = SetTransactionInspectId(t, d, TRUE) /\ a <= id
<1>. DEFINE ids == From(t, a)
            open == {i \in ids : d \notin Complete(t[i])}
<1>. n \in Nat /\ a \in Nat
  BY DEF Sized
<1>1. ids \subseteq 0..(n - 1) /\ ids \subseteq Nat /\ \A i \in ids : a <= i /\ i < n
  BY FromIs, Zenon
<1>2. CASE open # {}
  <2>1. PICK b \in ids : b = Min(open)
    BY <1>1, <1>2, MinIs, Zenon
  <2>2. b \in Nat /\ b < n /\ a <= b /\ b + 1 \in Nat
    BY <1>1, <2>1
  <2>. DEFINE rest == From(t, b + 1)
  <2>3. CASE rest = {}
    <3>1. b \in 0..n
      BY <2>2
    <3>. QED
      BY <1>2, <2>1, <2>2, <2>3, <3>1, Zenon DEF SetTransactionInspectId, TagInspectId
  <2>4. CASE rest # {}
    <3>1. rest \subseteq 0..(n - 1) /\ rest \subseteq Nat /\ \A i \in rest : b + 1 <= i /\ i < n
      BY <2>2, FromIs, Zenon
    <3>2. PICK S \in SUBSET rest : Min(rest) \in S /\ TagInspectId(t, d, b) = Max(S)
      <4>. DEFINE tagged(m) ==
             /\ d \in Complete(t[Min(rest)])
             /\ \A j \in (Min(rest) + 1)..m : t[j].live /\ d \in Complete(t[j]) \cap t[j].inspected
                  T == {m \in rest : m = Min(rest) \/ tagged(m)}
      <4>. QED
        BY <2>4, <3>1, MinIs, Zenon DEF TagInspectId
    <3>. HIDE DEF rest
    <3>3. PICK m \in S : m = Max(S)
      BY <3>1, <3>2, MaxIs, Zenon
    <3>4. m \in 0..n /\ a <= m
      BY <2>2, <3>1, <3>3
    <3>. QED
      BY <1>2, <2>1, <3>2, <3>3, <3>4, Zenon DEF SetTransactionInspectId
  <2>. QED
    BY <2>3, <2>4, Zenon
<1>3. CASE open = {} /\ ids # {}
  BY <1>1, <1>3, MaxIs DEF SetTransactionInspectId
<1>4. CASE open = {} /\ ids = {}
  BY <1>4 DEF SetTransactionInspectId
<1>. QED
  BY <1>2, <1>3, <1>4, Zenon

\* What detection leaves of a transaction, inspected or not.
Seen(a, b) ==
    /\ b \in Tx /\ b.live = a.live /\ b.done = a.done /\ b.skip = a.skip
    /\ b.logged = a.logged /\ b.written = a.written /\ (a.nolog => b.nolog)
    /\ b.unseen \subseteq a.unseen /\ TxGood(b, depth, FALSE)

LEMMA InspectedSeen ==
    ASSUME NEW a \in Tx, TxGood(a, depth, FALSE), NEW d \in Dir, NEW x \in BOOLEAN
    PROVE  LET b == [InspectedTx(a, d) EXCEPT !.nolog = @ \/ x]
           IN  Seen(a, b) /\ d \notin b.unseen
<1>. DEFINE ins == IF d \in Complete(a) THEN a.inspected \cup {d} ELSE a.inspected
            b == [InspectedTx(a, d) EXCEPT !.nolog = @ \/ x]
<1>1. ins \in SUBSET Dir /\ a.unseen \ {d} \in SUBSET Dir /\ (a.nolog \/ x) \in BOOLEAN
  BY Zenon DEF Tx
<1>2. /\ b.live = a.live /\ b.done = a.done /\ b.skip = a.skip /\ b.logged = a.logged
      /\ b.written = a.written /\ b.nolog = (a.nolog \/ x) /\ b.unseen = a.unseen \ {d}
      /\ b.inspected = ins /\ b.updated = a.updated
  BY DEF Tx, InspectedTx
<1>3. b \in Tx
  BY <1>1, Zenon DEF Tx, InspectedTx
<1>. HIDE DEF b
<1>4. TxGood(b, depth, FALSE)
  <2>1. \A l \in Loggers : /\ b.written[l] <= 1
                           /\ l \notin b.logged => b.written[l] = 0
                           /\ l \in b.logged => b.nolog \/ b.written[l] = 1
    BY <1>2, Zenon DEF TxGood
  <2>2. \A e \in b.inspected : e \in b.done \cup depth /\ e \notin b.unseen
    BY <1>2, Zenon DEF TxGood, Complete
  <2>. QED
    BY <2>1, <2>2, <1>2, Zenon DEF TxGood, Owed
<1>. QED
  BY <1>2, <1>3, <1>4, Zenon DEF b, Seen

LEMMA SkippedSeen ==
    ASSUME NEW a \in Tx, TxGood(a, depth, FALSE), NEW d \in Dir
    PROVE  Seen(a, a) /\ Seen(a, [a EXCEPT !.unseen = @ \ {d}])
<1>. DEFINE b == [a EXCEPT !.unseen = @ \ {d}]
<1>1. /\ b.live = a.live /\ b.done = a.done /\ b.skip = a.skip /\ b.logged = a.logged
      /\ b.written = a.written /\ b.nolog = a.nolog /\ b.unseen = a.unseen \ {d}
      /\ b.inspected = a.inspected /\ b.updated = a.updated
  BY DEF Tx
<1>. HIDE DEF b
<1>. QED
  BY <1>1, Zenon DEF Seen, b, Tx, TxGood, Owed

\* A run of detection that moves a tracker only past complete transactions it has seen.
LEMMA DetectKeeps ==
    ASSUME DataType, Data, ~pass, DOMAIN txs' = DOMAIN txs,
           \A i \in DOMAIN txs : Seen(txs[i], txs'[i]), pass' \in BOOLEAN,
           UNCHANGED <<logId, minId, depth>>, inspectId' \in [Dir -> 0..total],
           \A d \in Dir : inspectId[d] <= inspectId'[d],
           \A d \in Dir, i \in Live(txs') : ~(i < inspectId[d]) /\ i < inspectId'[d] =>
               d \in Complete(txs'[i]) /\ ~Owed(txs'[i], d, depth)
    PROVE  DataType' /\ Data'
<1>1. total' = total /\ total \in Nat /\ Live(txs') = Live(txs)
      /\ \A i \in Live(txs) : i \in DOMAIN txs /\ i \in Nat
  <2>1. total \in Nat /\ DOMAIN txs \subseteq Nat
    BY DEF DataType
  <2>. QED
    BY <2>1, Zenon DEF Live, Seen, total
<1>2. TxsGood'
  BY Zenon DEF Seen, TxGood, TxsGood
<1>3. LogCover'
  <2>. SUFFICES ASSUME NEW i \in Live(txs'), i < logId PROVE AllWritten(txs'[i])
    BY Zenon DEF LogCover
  <2>1. Seen(txs[i], txs'[i]) /\ AllWritten(txs[i])
    BY <1>1, Zenon DEF Data, LogCover
  <2>. QED
    BY <2>1, Zenon DEF AllWritten, Seen
<1>4. MinCover'
  BY <1>1 DEF DataType, Data, MinCover
<1>. QED
  BY <1>1, <1>2, <1>3, <1>4, Zenon DEF Data, DataType, Seen, InspectCover, Complete, Owed

RestType ==
    /\ {eof, appUpdated, updateNext, depth} \subseteq SUBSET Dir
    /\ sgh \in [Dir -> {"unset", "none", "rules"}]
    /\ {pass, disabled, closed} \subseteq BOOLEAN
    /\ todo \in Seq(Packet) /\ rules \in DOMAIN RuleSets /\ events \in 0..Budget
    /\ pc \in {"idle", "stream", "detect", "log", "cleanup", "end"}

LEMMA TypeParts == TypeOK <=> DataType /\ RestType
  BY Zenon DEF TypeOK, DataType, RestType

LEMMA TypeNext == DataType' /\ RestType' => TypeOK'
  BY Zenon DEF TypeOK, DataType, RestType

LEMMA InHand ==
    ASSUME RestType, todo # <<>>
    PROVE  p \in Packet /\ p.dir \in Dir /\ p = todo[1] /\ Len(todo) \in Nat /\ Len(todo) >= 1
<1>1. p = todo[1] /\ todo[1] \in Packet
  BY DEF p, RestType
<1>. QED
  BY <1>1 DEF Packet, RestType

\* A run of the rules of a direction ...
LEMMA RunData ==
    ASSUME DataType, Data, NEW d \in Dir, NEW ended \in BOOLEAN, NEW off, ~pass, pass' \in BOOLEAN,
           txs' = DetectRunTx(d, ended, off), UNCHANGED <<logId, minId, depth>>,
           inspectId' = [inspectId EXCEPT ![d] = SetTransactionInspectId(txs', d, FALSE)]
    PROVE  DataType' /\ Data' /\ \A i \in Live(txs') : ~Owed(txs'[i], d, depth)
<1>. pass = FALSE \/ pass
  OBVIOUS
<1>1. /\ Sized(txs, total) /\ total \in Nat /\ inspectId \in [Dir -> 0..total]
      /\ DOMAIN txs \subseteq Nat /\ \A i \in DOMAIN txs : txs[i] \in Tx
  BY DEF DataType, Sized
<1>2. \A i \in DOMAIN txs : TxGood(txs[i], depth, FALSE)
  BY Zenon DEF Data, TxsGood, TxGood
<1>3. PICK a \in 0..total : a = inspectId[d]
  BY <1>1
<1>4. DOMAIN txs' = DOMAIN txs
  BY Zenon DEF DetectRunTx
<1>5. ASSUME NEW i \in DOMAIN txs
      PROVE  /\ Seen(txs[i], txs'[i])
             /\ txs[i].live => ~Owed(txs'[i], d, depth)
  <2>1. CASE i \in From(txs, a) /\ DetectTx(txs[i], d, ended)
    <3>. DEFINE x == i \in off
    <3>1. x \in BOOLEAN
      OBVIOUS
    <3>2. txs'[i] = [InspectedTx(txs[i], d) EXCEPT !.nolog = @ \/ x]
      BY <1>3, <2>1, Zenon DEF DetectRunTx
    <3>. HIDE DEF x
    <3>3. txs[i] \in Tx /\ TxGood(txs[i], depth, FALSE)
      BY <1>1, <1>2, Zenon
    <3>4. Seen(txs[i], txs'[i]) /\ d \notin txs'[i].unseen
      BY <3>1, <3>2, <3>3, InspectedSeen, ZenonT(60)
    <3>. QED
      BY <3>4, Zenon DEF Owed
  <2>2. CASE ~(i \in From(txs, a) /\ DetectTx(txs[i], d, ended))
    <3>1. txs'[i] = txs[i]
      BY <1>3, <2>2, Zenon DEF DetectRunTx
    <3>2. Seen(txs[i], txs'[i])
      BY <1>1, <1>2, <3>1, SkippedSeen, Zenon
    <3>3. ASSUME txs[i].live, i < a PROVE ~Owed(txs[i], d, depth)
      BY <1>3, <3>3, Zenon DEF Data, InspectCover, Live
    <3>4. ASSUME txs[i].live, ~(i < a) PROVE ~Owed(txs[i], d, depth)
      <4>1. \/ d \notin txs[i].updated /\ d \notin Complete(txs[i])
            \/ d \in txs[i].inspected \/ d \in txs[i].skip
        BY <2>2, <1>1, <3>4 DEF DetectTx, From, Live
      <4>. QED
        BY <1>2, <4>1, Zenon DEF TxGood, Owed, Complete
    <3>. QED
      BY <3>1, <3>2, <3>3, <3>4, Zenon
  <2>. QED
    BY <2>1, <2>2, Zenon
<1>6. Sized(txs', total)
  BY <1>1, <1>4, <1>5, Zenon DEF Sized, Seen
<1>7. PICK id \in 0..total : /\ id = SetTransactionInspectId(txs', d, FALSE) /\ a <= id
                             /\ \A i \in From(txs', a) : i < id => d \in Complete(txs'[i])
  BY <1>3, <1>6, InspectIdIs, Zenon
<1>8. \A i \in Live(txs') : i \in DOMAIN txs /\ txs[i].live /\ i \in Nat
  BY <1>1, <1>4, <1>5, Zenon DEF Live, Seen
<1>9. \A i \in Live(txs') : ~Owed(txs'[i], d, depth)
  BY <1>5, <1>8, Zenon
<1>10. inspectId' \in [Dir -> 0..total] /\ \A e \in Dir : e # d => inspectId'[e] = inspectId[e]
  BY <1>1, <1>7, Zenon
<1>11. inspectId'[d] = id
  BY <1>1, <1>7, Zenon
<1>12. \A e \in Dir : inspectId[e] <= inspectId'[e]
  <2>. SUFFICES ASSUME NEW e \in Dir PROVE inspectId[e] <= inspectId'[e]
    BY Zenon
  <2>1. PICK c \in Nat : c = inspectId[e]
    BY <1>1
  <2>2. CASE e = d
    BY <1>3, <1>7, <1>11, <2>2, Zenon
  <2>3. CASE e # d
    BY <1>10, <2>1, <2>3
  <2>. QED
    BY <2>2, <2>3, Zenon
<1>13. \A e \in Dir, i \in Live(txs') : ~(i < inspectId[e]) /\ i < inspectId'[e] =>
               e \in Complete(txs'[i]) /\ ~Owed(txs'[i], e, depth)
  <2>1. ASSUME NEW i \in Live(txs'), ~(i < a), i < id
        PROVE  d \in Complete(txs'[i]) /\ ~Owed(txs'[i], d, depth)
    <3>1. i \in From(txs', a)
      BY <1>8, <2>1 DEF From
    <3>. QED
      BY <1>7, <1>9, <2>1, <3>1, Zenon
  <2>2. ASSUME NEW e \in Dir, NEW i \in Live(txs'), ~(i < inspectId[e]), i < inspectId'[e]
        PROVE  e = d
    BY <1>10, <2>2, Zenon
  <2>3. ASSUME NEW e \in Dir, NEW i \in Live(txs'), ~(i < inspectId[e]), i < inspectId'[e]
        PROVE  e \in Complete(txs'[i]) /\ ~Owed(txs'[i], e, depth)
    <3>1. e = d /\ ~(i < a) /\ i < id
      BY <1>3, <1>11, <2>2, <2>3, Zenon
    <3>. QED
      BY <2>1, <3>1, Zenon
  <2>. QED
    BY <2>3, Zenon
<1>. QED
  BY <1>4, <1>5, <1>9, <1>10, <1>12, <1>13, DetectKeeps, Zenon

\* ... a direction without rules, or a packet with nothing to inspect.
LEMMA NoRunData ==
    ASSUME DataType, Data, NEW d \in Dir, ~pass, pass' \in BOOLEAN, txs' \in {NoRules(d), txs},
           UNCHANGED <<inspectId, logId, minId, depth>>
    PROVE  DataType' /\ Data' /\ (txs' = NoRules(d) => \A i \in Live(txs') : ~Owed(txs'[i], d, depth))
<1>1. /\ total \in Nat /\ inspectId \in [Dir -> 0..total] /\ DOMAIN txs \subseteq Nat
      /\ \A i \in DOMAIN txs : txs[i] \in Tx
  BY DEF DataType
<1>2. DOMAIN txs' = DOMAIN txs
  BY DEF NoRules
<1>3. \A i \in DOMAIN txs : Seen(txs[i], txs'[i])
  <2>. SUFFICES ASSUME NEW i \in DOMAIN txs PROVE Seen(txs[i], txs'[i])
    OBVIOUS
  <2>1. Seen(txs[i], txs[i]) /\ Seen(txs[i], [txs[i] EXCEPT !.unseen = @ \ {d}])
    BY <1>1, SkippedSeen, Zenon DEF Data, TxsGood, TxGood
  <2>. QED
    BY <2>1, Zenon DEF NoRules
<1>4. \A e \in Dir : inspectId[e] <= inspectId'[e]
  BY <1>1
<1>5. \A e \in Dir, i \in Live(txs') : ~(i < inspectId[e]) /\ i < inspectId'[e] =>
               e \in Complete(txs'[i]) /\ ~Owed(txs'[i], e, depth)
  OBVIOUS
<1>6. DataType' /\ Data'
  BY <1>1, <1>2, <1>3, <1>4, <1>5, DetectKeeps, Zenon
<1>. QED
  BY <1>2, <1>1, <1>6 DEF Live, NoRules, Tx, Owed

LEMMA DetectStep ==
    ASSUME IInv, Detect PROVE IInv'
<1>. DataType /\ Data /\ RestType /\ Queue
  BY TypeParts DEF IInv, Data
<1>1. /\ pc = "detect" /\ pc' = "log" /\ todo # <<>>
      /\ UNCHANGED <<logId, minId, eof, appUpdated, updateNext, depth, disabled, closed, todo>>
  BY Zenon DEF Detect, stream, Queue
<1>2. PICK d \in Dir : d = p.dir
  BY <1>1, InHand
<1>3. DisabledEnded'
  BY <1>1, Zenon DEF IInv, DisabledEnded
<1>4. CASE pass /\ pass' = pass
  <2>1. /\ inspectId' = [inspectId EXCEPT ![d] = SetTransactionInspectId(txs, d, TRUE)]
        /\ UNCHANGED <<txs, sgh, rules, events>>
    BY <1>2, <1>4, Zenon DEF Detect
  <2>2. Sized(txs, total) /\ total \in Nat /\ inspectId \in [Dir -> 0..total]
    BY DEF DataType, Sized
  <2>3. PICK a \in 0..total : a = inspectId[d]
    BY <2>2
  <2>4. PICK id \in 0..total : id = SetTransactionInspectId(txs, d, TRUE) /\ a <= id
    BY <2>2, <2>3, TagIdIs, Zenon
  <2>5. inspectId' \in [Dir -> 0..total] /\ inspectId'[d] = id
        /\ \A e \in Dir : e # d => inspectId'[e] = inspectId[e]
    BY <2>1, <2>2, <2>4, Zenon
  <2>6. DataType'
    BY <2>1, <1>1, <2>5, Zenon DEF total, DataType
  <2>7. MinCover'
    <3>1. \A e \in Dir : minId <= inspectId'[e]
      <4>. SUFFICES ASSUME NEW e \in Dir PROVE minId <= inspectId'[e]
        OBVIOUS
      <4>1. PICK c \in Nat : c = minId
        BY <2>2 DEF DataType
      <4>2. CASE e = d
        <5>1. c <= a
          BY <2>3, <4>1, <4>2 DEF Data, MinCover
        <5>2. a <= id
          BY <2>4, Zenon
        <5>3. c <= id
          BY <5>1, <2>2, <5>2
        <5>. QED
          BY <2>5, <4>1, <4>2, <5>3
      <4>3. CASE e # d
        BY <2>5, <4>1, <4>3, Zenon DEF Data, MinCover
      <4>. QED
        BY <4>2, <4>3
    <3>. QED
      BY <1>1, <2>1, <3>1, Zenon DEF MinCover, Data
  <2>8. TxsGood' /\ LogCover' /\ InspectCover'
    BY <1>1, <1>4, <2>1, Zenon DEF Data, TxsGood, LogCover, InspectCover
  <2>9. RestType'
    BY <1>1, <1>4, <2>1, Zenon DEF RestType
  <2>10. Queue' /\ Detected' /\ LastLogged' /\ WrittenAtEnd'
    BY <1>1, <1>4, Zenon DEF Queue, Detected, LastLogged, WrittenAtEnd, p
  <2>. QED
    BY <1>3, <2>6, <2>7, <2>8, <2>9, <2>10, TypeNext, Zenon DEF IInv
<1>5. CASE ~pass /\ DetectRun(d)
  <2>1. PICK version \in DOMAIN RuleSets, off \in SUBSET Live(txs), passed \in BOOLEAN :
        LET group == RuleSets[version][d]
            run == group = "rules" /\ HasUpdate
        IN  /\ Event(Count(version # rules) + Cardinality(off) + Count(passed))
            /\ rules' = version
            /\ sgh' = RuleGroups(d, version)
            /\ txs' = IF run THEN DetectRunTx(d, p.kind = "ffr", off)
                      ELSE IF group = "none" THEN NoRules(d) ELSE txs
            /\ inspectId' = IF run
                            THEN [inspectId EXCEPT ![d] = SetTransactionInspectId(txs', d, FALSE)]
                            ELSE inspectId
            /\ pass' = passed
    BY <1>5 DEF DetectRun
  <2>. DEFINE group == RuleSets[version][d]
  <2>2. group \in {"none", "rules"}
    BY RuleSetsAssumption
  <2>3. /\ DataType' /\ Data'
        /\ HasUpdate => \A i \in Live(txs') : ~Owed(txs'[i], d, depth)
    <3>1. CASE group = "rules" /\ HasUpdate
      <4>. DEFINE ended == p.kind = "ffr"
      <4>1. txs' = DetectRunTx(d, ended, off) /\ pass' \in BOOLEAN /\ ended \in BOOLEAN
            /\ inspectId' = [inspectId EXCEPT ![d] = SetTransactionInspectId(txs', d, FALSE)]
        BY <2>1, <3>1, Zenon
      <4>. HIDE DEF ended
      <4>. QED
        BY <1>1, <1>5, <4>1, RunData, Zenon
    <3>2. CASE ~(group = "rules" /\ HasUpdate)
      <4>1. /\ txs' = IF group = "none" THEN NoRules(d) ELSE txs
            /\ inspectId' = inspectId /\ pass' \in BOOLEAN
        BY <2>1, <3>2, Zenon
      <4>2. DataType' /\ Data' /\ (txs' = NoRules(d) => \A i \in Live(txs') : ~Owed(txs'[i], d, depth))
        BY <1>1, <1>5, <4>1, NoRunData, Zenon
      <4>. QED
        BY <2>2, <3>2, <4>1, <4>2, Zenon
    <3>. QED
      BY <3>1, <3>2, Zenon
  <2>4. RestType'
    <3>1. events' \in 0..Budget
      <4>1. Sized(txs, total) /\ total \in Nat
        BY DEF DataType, Sized
      <4>2. IsFiniteSet(off) /\ Cardinality(off) \in Nat
        BY <4>1, Size, FS_Subset, FS_CardinalityType, Zenon DEF Live
      <4>3. PICK n \in Nat : n = Count(version # rules) + Cardinality(off) + Count(passed)
        BY <4>2 DEF Count
      <4>4. events + n + total <= Budget /\ events' = events + n
        BY <2>1, <4>3, Zenon DEF Event
      <4>. QED
        BY <4>1, <4>4, BoundsAssumption DEF RestType
    <3>2. sgh' \in [Dir -> {"unset", "none", "rules"}]
      BY <2>1, <2>2, Zenon DEF RestType, RuleGroups
    <3>3. rules' \in DOMAIN RuleSets /\ pass' \in BOOLEAN
      BY <2>1, Zenon
    <3>. QED
      BY <1>1, <3>1, <3>2, <3>3, Zenon DEF RestType
  <2>5. Queue' /\ LastLogged' /\ WrittenAtEnd'
    BY <1>1, Zenon DEF Queue, LastLogged, WrittenAtEnd, p
  <2>6. Detected'
    BY <1>1, <1>2, <2>3, Zenon DEF HasUpdate, p, Detected
  <2>. QED
    BY <1>3, <2>3, <2>4, <2>5, <2>6, TypeNext, Zenon DEF IInv, Data
<1>. QED
  BY <1>2, <1>4, <1>5, Zenon DEF Detect
-----------------------------------------------------------------------------
(* Logging. *)

\* What a pass of OutputTxLog leaves of a transaction.
Logged(a, b) ==
    /\ b \in Tx /\ b.live = a.live /\ b.done = a.done /\ b.skip = a.skip /\ b.nolog = a.nolog
    /\ b.unseen = a.unseen /\ a.logged \subseteq b.logged /\ TxGood(b, depth, pass)

LEMMA LogTxLogged ==
    ASSUME NEW a \in Tx, TxGood(a, depth, pass), NEW called \in SUBSET (Loggers \ a.logged)
    PROVE  LET b == LogTx(a, called)
           IN  /\ Logged(a, b)
               /\ Untouched(a) => b = a
               /\ ~Untouched(a) => \A l \in called : l \in b.logged
               /\ ~Untouched(a) /\ a.nolog => b.logged = Loggers
<1>. DEFINE b == LogTx(a, called)
            w == [l \in Loggers |-> IF l \in called THEN MinOf(2, a.written[l] + 1) ELSE a.written[l]]
<1>1. CASE Untouched(a)
  <2>1. b = a
    BY <1>1 DEF LogTx
  <2>. HIDE DEF b
  <2>. QED
    BY <1>1, <2>1, Zenon DEF b, Logged
<1>2. CASE ~Untouched(a) /\ a.nolog
  <2>1. /\ b.live = a.live /\ b.done = a.done /\ b.skip = a.skip /\ b.nolog = a.nolog
        /\ b.unseen = a.unseen /\ b.inspected = a.inspected /\ b.updated = a.updated
        /\ b.logged = Loggers /\ b.written = a.written
    BY <1>2, Zenon DEF Tx, LogTx
  <2>. HIDE DEF b
  <2>2. TxGood(b, depth, pass)
    BY <2>1, <1>2, Zenon DEF TxGood, Owed
  <2>. QED
    BY <1>2, <2>1, <2>2, Zenon DEF Logged, b, Tx, LogTx
<1>3. CASE ~Untouched(a) /\ ~a.nolog
  <2>1. b = [a EXCEPT !.logged = @ \cup called, !.written = w]
    BY <1>3 DEF LogTx
  <2>2. \A l \in Loggers : w[l] = IF l \in called \cup a.logged THEN 1 ELSE 0
    BY <1>3 DEF TxGood, MinOf
  <2>3. w \in [Loggers -> 0..2]
    BY <2>2
  <2>. HIDE DEF w
  <2>4. /\ b.live = a.live /\ b.done = a.done /\ b.skip = a.skip /\ b.nolog = a.nolog
        /\ b.unseen = a.unseen /\ b.inspected = a.inspected /\ b.updated = a.updated
        /\ b.logged = a.logged \cup called /\ b.written = w
    BY <2>1 DEF Tx
  <2>5. b \in Tx
    BY <2>1, <2>3, Zenon DEF Tx
  <2>. HIDE DEF b
  <2>6. TxGood(b, depth, pass)
    BY <2>2, <2>4 DEF TxGood, Owed
  <2>. QED
    BY <1>3, <2>4, <2>5, <2>6, Zenon DEF Logged, b
<1>. QED
  BY <1>1, <1>2, <1>3, Zenon

LEMMA FullyLogged ==
    ASSUME NEW tx, TxGood(tx, depth, pass), tx.logged = Loggers
    PROVE  AllWritten(tx)
  BY Zenon DEF TxGood, AllWritten

\* log_id stops at the first transaction that has a logger to come.
LEMMA LogIdIs ==
    ASSUME NEW n, Sized(txs, n), NEW a \in 0..n, logId = a, NEW t,
           \A i \in From(txs, a) : txs[i] \in Tx /\ Logged(txs[i], t[i])
    PROVE  \E id \in 0..n : /\ id = LogIdAfter(t, From(txs, a)) /\ a <= id
                            /\ \A i \in From(txs, a) : i < id => AllWritten(t[i])
<1>. DEFINE ids == From(txs, a)
            tried == {i \in ids : ~Untouched(txs[i]) /\ ~txs[i].nolog /\ txs[i].logged # Loggers}
            gaps == {i \in ids : Untouched(txs[i])} \cup {i \in tried : t[i].logged # Loggers}
            full == {i \in tried \ gaps : \A g \in gaps : i < g}
<1>. n \in Nat /\ a \in Nat
  BY DEF Sized
<1>1. ids \subseteq 0..(n - 1) /\ ids \subseteq Nat /\ \A i \in ids : a <= i /\ i < n
  BY FromIs, Zenon
<1>2. CASE full = {}
  <2>1. \A i \in ids : ~(i < a)
    BY <1>1
  <2>2. a <= a
    OBVIOUS
  <2>. HIDE DEF ids
  <2>. QED
    BY <1>2, <2>1, <2>2, Zenon DEF ids, LogIdAfter
<1>3. CASE full # {}
  <2>1. PICK m \in full : m = Max(full)
    BY <1>1, <1>3, MaxIs, Zenon
  <2>2. m \in ids /\ m \in Nat /\ m + 1 \in 0..n /\ a <= m + 1
    <3>1. m \in ids /\ m \in Nat /\ a <= m /\ m < n
      BY <1>1, Zenon
    <3>2. m + 1 \in 0..n /\ a <= m + 1
      <4>. HIDE DEF ids, full, gaps, tried
      <4>. QED
        BY <3>1
    <3>. QED
      BY <3>1, <3>2, Zenon
  <2>3. \A g \in gaps : m < g
    BY Zenon
  <2>4. ASSUME NEW i \in ids, i < m + 1 PROVE AllWritten(t[i])
    <3>1. i \notin gaps
      BY <1>1, <2>2, <2>3, <2>4
    <3>2. txs[i] \in Tx /\ Logged(txs[i], t[i])
      BY Zenon
    <3>3. CASE txs[i].nolog
      BY <3>2, <3>3, Zenon DEF Logged, AllWritten
    <3>4. CASE ~txs[i].nolog
      <4>1. txs[i].logged = Loggers \/ t[i].logged = Loggers
        BY <3>1, <3>4, Zenon
      <4>2. t[i].logged = Loggers
        BY <3>2, <4>1, ZenonT(60) DEF Logged, Tx
      <4>. QED
        BY <3>2, <4>2, FullyLogged, Zenon DEF Logged
    <3>. QED
      BY <3>3, <3>4, Zenon
  <2>5. LogIdAfter(t, ids) = m + 1
    BY <1>3, <2>1, Zenon DEF LogIdAfter
  <2>. HIDE DEF ids
  <2>. QED
    BY <2>2, <2>4, <2>5, Zenon DEF ids
<1>. QED
  BY <1>2, <1>3, Zenon

\* One pass of OutputTxLog over the transactions.
LEMMA LogData ==
    ASSUME DataType, Data, NEW e, LET ids == From(txs, logId)
           IN  /\ txs' = [i \in DOMAIN txs |->
                             IF i \in ids THEN LogTx(txs[i], CallLoggers(txs[i], e)) ELSE txs[i]]
               /\ logId' = LogIdAfter(txs', ids),
           UNCHANGED <<inspectId, minId, depth, pass>>
    PROVE  /\ DataType' /\ Data' /\ DOMAIN txs' = DOMAIN txs
           /\ \A i \in DOMAIN txs : Logged(txs[i], txs'[i])
           /\ \A i \in Live(txs) : e => AllWritten(txs'[i]) \/ (Untouched(txs[i]) /\ txs'[i] = txs[i])
<1>. DEFINE n == total
<1>1. /\ n \in Nat /\ n <= MaxTx /\ Sized(txs, n) /\ DOMAIN txs = 0..(n - 1)
      /\ \A i \in DOMAIN txs : txs[i] \in Tx /\ TxGood(txs[i], depth, pass)
  BY BoundsAssumption DEF DataType, Data, TxsGood, Sized
<1>2. PICK a \in 0..n : a = logId
  BY Zenon DEF DataType
<1>3. /\ txs' = [i \in DOMAIN txs |-> IF i \in From(txs, a)
                                      THEN LogTx(txs[i], CallLoggers(txs[i], e)) ELSE txs[i]]
      /\ logId' = LogIdAfter(txs', From(txs, a))
  BY <1>2, Zenon
<1>4. DOMAIN txs' = DOMAIN txs /\ n' = n
  BY <1>3, Zenon DEF total
<1>. HIDE DEF n
<1>5. ASSUME NEW i \in DOMAIN txs
      PROVE  /\ Logged(txs[i], txs'[i])
             /\ i \notin From(txs, a) => txs'[i] = txs[i]
             /\ (i \in From(txs, a) /\ e) => AllWritten(txs'[i]) \/ (Untouched(txs[i]) /\ txs'[i] = txs[i])
  <2>1. CASE i \in From(txs, a)
    <3>. DEFINE called == CallLoggers(txs[i], e)
    <3>1. txs'[i] = LogTx(txs[i], called)
      BY <1>3, <2>1, Zenon
    <3>2. called \in SUBSET (Loggers \ txs[i].logged) /\ (e => called = Loggers \ txs[i].logged)
      BY Zenon DEF CallLoggers
    <3>. HIDE DEF called
    <3>3. /\ Logged(txs[i], txs'[i])
          /\ Untouched(txs[i]) => txs'[i] = txs[i]
          /\ ~Untouched(txs[i]) => \A l \in called : l \in txs'[i].logged
      <4>1. /\ Logged(txs[i], LogTx(txs[i], called))
            /\ Untouched(txs[i]) => LogTx(txs[i], called) = txs[i]
            /\ ~Untouched(txs[i]) => \A l \in called : l \in LogTx(txs[i], called).logged
        BY <1>1, <3>2, LogTxLogged, Zenon
      <4>. QED
        BY <3>1, <4>1, Zenon
    <3>4. ASSUME e, ~Untouched(txs[i]) PROVE AllWritten(txs'[i])
      <4>1. txs'[i].logged = Loggers
        BY <3>2, <3>3, <3>4, Zenon DEF Logged, Tx
      <4>. QED
        BY <3>3, <4>1, FullyLogged, Zenon DEF Logged
    <3>. QED
      BY <2>1, <3>3, <3>4, Zenon
  <2>2. CASE i \notin From(txs, a)
    BY <1>3, <2>2, <1>1, Zenon DEF Logged
  <2>. QED
    BY <2>1, <2>2, Zenon
<1>6. PICK id \in 0..n : /\ id = logId' /\ a <= id
                         /\ \A i \in From(txs, a) : i < id => AllWritten(txs'[i])
  <2>1. \A i \in From(txs, a) : txs[i] \in Tx /\ Logged(txs[i], txs'[i])
    BY <1>1, <1>5, Zenon DEF From, Live
  <2>2. \E id \in 0..n : /\ id = LogIdAfter(txs', From(txs, a)) /\ a <= id
                         /\ \A i \in From(txs, a) : i < id => AllWritten(txs'[i])
    BY <1>1, <1>2, <2>1, LogIdIs, Zenon
  <2>. QED
    BY <1>3, <2>2, Zenon
<1>7. \A i \in DOMAIN txs : i \in Live(txs') => i \in Live(txs)
  BY <1>5, Zenon DEF Logged, Live
<1>8. ASSUME NEW i \in Live(txs) PROVE i \in From(txs, a) \/ (i \in DOMAIN txs /\ i < a /\ AllWritten(txs[i]))
  <2>1. i >= a \/ i < a
    BY <1>1, <1>2 DEF Live
  <2>. QED
    BY <1>2, <1>1, <2>1, Zenon DEF From, Data, LogCover, Live
<1>9. DataType'
  <2>1. \A i \in DOMAIN txs' : txs'[i] \in Tx
    BY <1>4, <1>5, Zenon DEF Logged
  <2>2. n' \in 0..MaxTx /\ DOMAIN txs' = 0..(n' - 1)
    BY <1>1, <1>4, BoundsAssumption
  <2>3. inspectId' \in [Dir -> 0..n'] /\ minId' \in 0..n' /\ logId' \in 0..n'
    BY <1>4, <1>6, Zenon DEF DataType, n
  <2>. QED
    BY <2>1, <2>2, <2>3, Zenon DEF DataType, n
<1>10. TxsGood'
  BY <1>4, <1>5, Zenon DEF TxsGood, Logged
<1>11. LogCover'
  <2>. SUFFICES ASSUME NEW i \in Live(txs'), i < logId' PROVE AllWritten(txs'[i])
    BY Zenon DEF LogCover, AllWritten
  <2>1. i \in DOMAIN txs /\ i \in Live(txs)
    BY <1>4, <1>7, Zenon DEF Live
  <2>. QED
    BY <1>5, <1>6, <1>8, <2>1, Zenon
<1>12. InspectCover'
  BY <1>4, <1>5, <1>7 DEF InspectCover, Data, Live, Logged, Complete, Owed
<1>13. MinCover'
  <2>1. minId \in Nat /\ minId <= a /\ a \in Nat /\ id \in Nat
    BY <1>1, <1>2, <1>6 DEF Data, MinCover, DataType, n
  <2>2. minId <= id
    BY <1>6, <2>1
  <2>. QED
    BY <1>4, <1>6, <1>7, <2>2, Zenon DEF Data, MinCover, Live
<1>14. ASSUME NEW i \in Live(txs), e
       PROVE  AllWritten(txs'[i]) \/ (Untouched(txs[i]) /\ txs'[i] = txs[i])
  BY <1>5, <1>8, <1>14, Zenon DEF Live
<1>. QED
  BY <1>4, <1>5, <1>9, <1>10, <1>11, <1>12, <1>13, <1>14, Zenon DEF Data
=============================================================================
