-------------------------- MODULE FlowManagerProof --------------------------
(***************************************************************************)
(* What FlowManager guarantees for any number of managers, rows and packet *)
(* threads: the managers' sections are disjoint and no work unit leaves    *)
(* its section, and no emergency is slept over.  With one manager, the     *)
(* default configuration, emergencies are counted exactly and none is cut  *)
(* short.                                                                  *)
(***************************************************************************)
EXTENDS FlowManager, TLAPS

-----------------------------------------------------------------------------
(* The inductive invariant. *)

Label == {"idle", "or", "tmo", "wake", "top", "full", "chunk", "over", "reset",
          "size", "sleep", "lock", "wait", "absent"}

\* A manager that waits is at its wait.
Control ==
    /\ setup \in Setups /\ flag \in BOOLEAN /\ timeouts \in {"normal", "emerg"}
    /\ pc \in [Thread -> Label]
    /\ waiting \subseteq Running /\ \A m \in waiting : pc[m] = "wait"

\* A work unit begins and ends in the section of its manager.
Unit ==
    /\ pos \in [Running -> Nat] /\ rowsPerWu \in [Running -> Nat] /\ left \in [Running -> Nat]
    /\ lo \in [Running -> Nat] /\ hi \in [Running -> Nat]
    /\ \A m \in Running : /\ First(m) <= pos[m] /\ pos[m] <= End(m)
                          /\ First(m) <= lo[m] /\ lo[m] <= End(m)
                          /\ First(m) <= hi[m] /\ hi[m] <= End(m)

Locals ==
    /\ emerg \in [Running -> BOOLEAN] /\ prevEmerg \in [Running -> BOOLEAN]
    /\ overCnt \in [Running -> 0..OverPasses]

Counts == declared \in 0..MaxDeclared /\ entered \in 0..(MaxDeclared + 1) /\ passes \in 0..OverPasses

\* The recovered passes are all there exactly on the way out of emergency mode.
Recovered ==
    \A m \in Running : /\ pc[m] \notin {"over", "reset"} => overCnt[m] < OverPasses
                       /\ pc[m] = "over" => overCnt[m] = OverPasses

IInv == Control /\ Unit /\ Locals /\ Counts /\ Recovered
-----------------------------------------------------------------------------
(* Sections of the hash. *)

LEMMA Quotient ==
    ASSUME NEW a \in Nat, NEW b \in Nat \ {0}
    PROVE  a \div b \in Nat /\ b * (a \div b) <= a
  OBVIOUS

LEMMA Product ==
    ASSUME NEW m \in Nat, NEW n \in Nat, NEW r \in Nat
    PROVE  m * r \in Nat /\ (m <= n => m * r <= n * r)
  OBVIOUS

LEMMA Setup ==
    ASSUME setup \in Setups
    PROVE  /\ setup.instances \in Nat \ {0} /\ setup.rows \in Nat \ {0} /\ setup.pressure \subseteq Nat
           /\ Running \subseteq Nat /\ Running \subseteq Thread /\ Running # {}
           /\ setup.workers \subseteq Worker /\ Worker \subseteq Thread
           /\ \A w \in Worker : w \notin Running
  BY SetupsAssumption DEF Running, Thread, Manager, Worker

\* FlowManagerThreadInit: the sections follow each other, the last one takes the rest.
LEMMA Sections ==
    ASSUME setup \in Setups
    PROVE  /\ \A m \in Running : /\ First(m) \in Nat /\ End(m) \in Nat
                                 /\ First(m) <= End(m) /\ End(m) <= setup.rows
           /\ \A m, n \in Running : m < n => End(m) <= First(n)
<1>1. PICK k \in Nat \ {0}, rows \in Nat \ {0} : k = setup.instances /\ rows = setup.rows
  BY Setup, Zenon
<1>2. PICK r \in Nat : r = range /\ k * r <= rows
  BY <1>1, Quotient, Zenon DEF range
<1>3. ASSUME NEW m \in Running
      PROVE  /\ First(m) \in Nat /\ End(m) \in Nat /\ First(m) <= End(m) /\ End(m) <= rows
  BY <1>2, <1>1, Product DEF First, End, Running
<1>4. ASSUME NEW m \in Running, NEW n \in Running, m < n PROVE End(m) <= First(n)
  BY <1>1, <1>2, <1>4, Product DEF First, End, Running
<1>. QED
  BY <1>1, <1>3, <1>4, Zenon

-----------------------------------------------------------------------------
(* What a step leaves alone. *)

LEMMA UnitSame ==
    ASSUME Unit, UNCHANGED <<setup, unit>>
    PROVE  Unit'
  BY Zenon DEF Unit, unit, Running, First, End, range

LEMMA SameSections ==
    ASSUME UNCHANGED setup
    PROVE  Running' = Running /\ \A m : First(m)' = First(m) /\ End(m)' = End(m)
  BY Zenon DEF Running, First, End, range

LEMMA LocalsSame ==
    ASSUME Locals, UNCHANGED <<setup, local>>
    PROVE  Locals'
  BY SameSections, Zenon DEF Locals, local

LEMMA CountsSame ==
    ASSUME Counts, UNCHANGED count
    PROVE  Counts'
  BY Zenon DEF Counts, count

\* One thread goes on, the others stay.
LEMMA GotoOne ==
    ASSUME Control, NEW t \in Thread, NEW l \in Label, Goto(t, l)
    PROVE  pc' \in [Thread -> Label] /\ pc'[t] = l /\ \A u \in Thread \ {t} : pc'[u] = pc[u]
  BY Zenon DEF Control, Goto

\* A step of a packet thread moves no manager.
LEMMA WorkerControl ==
    ASSUME Control, Recovered, NEW w \in setup.workers, NEW l \in Label, Goto(w, l),
           flag' \in BOOLEAN, timeouts' \in {"normal", "emerg"}, UNCHANGED <<setup, waiting, overCnt>>
    PROVE  Control' /\ Recovered'
<1>1. w \in Thread /\ Running \subseteq Thread \ {w}
  BY Setup, Zenon DEF Control
<1>2. pc' \in [Thread -> Label] /\ \A m \in Running : pc'[m] = pc[m]
  BY <1>1, GotoOne, Zenon
<1>. QED
  BY <1>2, SameSections, Zenon DEF Control, Recovered

\* A step of a manager that does not wait.
LEMMA ManagerControl ==
    ASSUME Control, NEW m \in Running, pc[m] # "wait", NEW l \in Label, Goto(m, l),
           flag' \in BOOLEAN, timeouts' \in {"normal", "emerg"}, UNCHANGED <<setup, waiting>>
    PROVE  /\ Control'
           /\ pc'[m] = l /\ \A n \in Running \ {m} : pc'[n] = pc[n]
  BY Setup, GotoOne, SameSections DEF Control

LEMMA ManagerRecovered ==
    ASSUME Recovered, NEW m \in Running, pc[m] \notin {"over", "reset"},
           pc'[m] \notin {"over", "reset"}, \A n \in Running \ {m} : pc'[n] = pc[n],
           UNCHANGED <<setup, overCnt>>
    PROVE  Recovered'
  BY SameSections, Zenon DEF Recovered

-----------------------------------------------------------------------------
(* The packet threads keep the invariant. *)

LEMMA DeclareCheckStep ==
    ASSUME IInv, NEW w \in setup.workers, DeclareCheck(w), UNCHANGED setup
    PROVE  IInv'
  BY WorkerControl, UnitSame, LocalsSame, CountsSame, Zenon DEF IInv, DeclareCheck, Control, local, Label

LEMMA DeclareOrStep ==
    ASSUME IInv, NEW w \in setup.workers, DeclareOr(w), UNCHANGED setup
    PROVE  IInv'
<1>1. Counts'
  BY BoundsAssumption DEF DeclareOr, IInv, Counts
<1>. QED
  BY WorkerControl, <1>1, UnitSame, LocalsSame, Zenon DEF IInv, Control, local, Label, DeclareOr

LEMMA TimeoutsStep ==
    ASSUME IInv, NEW w \in setup.workers, FlowTimeoutsEmergency(w), UNCHANGED setup
    PROVE  IInv'
  BY WorkerControl, UnitSame, LocalsSame, CountsSame, Zenon DEF IInv, FlowTimeoutsEmergency, Control, local,
     Label

\* The signal sends one waiting manager on.
LEMMA WakeupStep ==
    ASSUME IInv, NEW w \in setup.workers, FlowWakeupFlowManagerThread(w), UNCHANGED setup
    PROVE  IInv'
<1>1. UNCHANGED <<flag, timeouts, overCnt>> /\ "idle" \in Label /\ "lock" \in Label
  BY Zenon DEF local, Label, FlowWakeupFlowManagerThread
<1>2. Control' /\ Recovered'
  BY <1>1, WorkerControl, Setup, SameSections, ManagerRecovered DEF FlowWakeupFlowManagerThread, IInv, Control
<1>. QED
  BY <1>2, UnitSame, LocalsSame, CountsSame, Zenon DEF IInv, FlowWakeupFlowManagerThread

-----------------------------------------------------------------------------
(* The managers keep the invariant. *)

LEMMA UnitRows ==
    ASSUME NEW rows \in Nat, NEW mp \in Nat, NEW em \in BOOLEAN
    PROVE  WorkUnitRows(rows, mp, em) \in Nat
<1>1. PICK p \in Nat : p = IF mp > 10 THEN mp ELSE 10
  BY Zenon
<1>. QED
  BY <1>1, Product, Quotient DEF WorkUnitRows

LEMMA RowsNat ==
    ASSUME setup \in Setups, NEW m \in Running
    PROVE  Rows(m) \in Nat
  BY Sections DEF Rows

LEMMA LoopRunStep ==
    ASSUME IInv, NEW m \in Running, LoopRun(m), UNCHANGED setup
    PROVE  IInv'
<1>1. PICK l \in {"full", "chunk"} : Goto(m, l)
  BY Zenon DEF LoopRun
<1>2. /\ UNCHANGED <<flag, timeouts, waiting, overCnt, pos, rowsPerWu, lo, hi, declared, passes>>
      /\ pc[m] = "top" /\ l \in Label /\ l \notin {"over", "reset"}
  BY <1>1, Zenon DEF LoopRun, Label
<1>3. Control' /\ pc'[m] = l /\ \A n \in Running \ {m} : pc'[n] = pc[n]
  BY <1>1, <1>2, ManagerControl, Zenon DEF IInv, Control
<1>4. Locals'
  BY <1>2, SameSections, Zenon DEF LoopRun, IInv, Locals, Control
<1>5. Counts'
  <2>1. entered' = entered \/ entered' = MinOf(entered + 1, MaxDeclared + 1)
    BY Zenon DEF LoopRun
  <2>. QED
    BY <1>2, <2>1, BoundsAssumption DEF IInv, Counts, MinOf
<1>. QED
  BY <1>3, <1>2, ManagerRecovered, SameSections, <1>4, <1>5, Zenon DEF IInv, Unit, LoopRun

LEMMA LoopIdleStep ==
    ASSUME IInv, NEW m \in Running, LoopIdle(m), UNCHANGED setup
    PROVE  IInv'
<1>1. Locals'
  BY SameSections, Zenon DEF LoopIdle, IInv, Locals, Control, Label
<1>. QED
  BY ManagerControl, ManagerRecovered, <1>1, UnitSame, CountsSame, Zenon DEF IInv, Control, LoopIdle, Label

\* A chunk starts in the section, is cut off at its end, and takes no more rows than are left.
LEMMA ChunkStep ==
    ASSUME IInv, NEW m \in Running, Chunk(m), UNCHANGED setup
    PROVE  IInv'
<1>1. PICK l \in {"chunk", "size"} : Goto(m, l)
  BY Zenon DEF Chunk
<1>2. /\ UNCHANGED <<flag, timeouts, waiting, local, rowsPerWu, count>>
      /\ pc[m] = "chunk" /\ l \in Label /\ l \notin {"over", "reset"}
  BY <1>1, Zenon DEF Chunk, Label
<1>3. Control' /\ pc'[m] = l /\ \A n \in Running \ {m} : pc'[n] = pc[n]
  BY <1>1, <1>2, ManagerControl, Zenon DEF IInv, Control
<1>4. PICK start : /\ start = (IF pos[m] >= End(m) THEN First(m) ELSE pos[m])
                   /\ lo' = [lo EXCEPT ![m] = start]
                   /\ hi' = [hi EXCEPT ![m] = ChunkEnd(m, start)]
                   /\ pos' = [pos EXCEPT ![m] = ChunkPos(m, ChunkEnd(m, start))]
                   /\ left' = [left EXCEPT ![m] = @ - (ChunkEnd(m, start) - start)]
  BY Zenon DEF Chunk
<1>5. PICK first \in Nat, last \in Nat, p \in Nat, rest \in Nat :
        /\ first = First(m) /\ last = End(m) /\ p = pos[m] /\ rest = left[m]
        /\ first <= p /\ p <= last
  BY Sections DEF IInv, Unit, Control
<1>6. PICK end \in Nat : end = ChunkEnd(m, start) /\ start \in Nat
                         /\ first <= start /\ start <= end /\ end <= last /\ end - start <= rest
  BY <1>4, <1>5 DEF ChunkEnd, MinOf
<1>7. PICK q \in Nat : q = ChunkPos(m, end) /\ first <= q /\ q <= last
  BY <1>5, <1>6 DEF ChunkPos
<1>8. rest - (end - start) \in Nat
  BY <1>6
<1>9. /\ lo' = [lo EXCEPT ![m] = start] /\ hi' = [hi EXCEPT ![m] = end]
      /\ pos' = [pos EXCEPT ![m] = q] /\ left' = [left EXCEPT ![m] = rest - (end - start)]
  BY <1>4, <1>5, <1>6, <1>7, Zenon
<1>10. /\ pos' \in [Running -> Nat] /\ rowsPerWu' \in [Running -> Nat] /\ left' \in [Running -> Nat]
       /\ lo' \in [Running -> Nat] /\ hi' \in [Running -> Nat]
  BY <1>2, <1>6, <1>7, <1>8, <1>9, Zenon DEF IInv, Unit
<1>11. ASSUME NEW n \in Running
       PROVE  /\ First(n) <= pos'[n] /\ pos'[n] <= End(n)
              /\ First(n) <= lo'[n] /\ lo'[n] <= End(n)
              /\ First(n) <= hi'[n] /\ hi'[n] <= End(n)
  BY <1>9, <1>6, <1>5, <1>7 DEF IInv, Unit
<1>12. Unit'
  BY SameSections, <1>10, <1>11, Zenon DEF Unit
<1>. QED
  BY <1>2, <1>3, ManagerRecovered, <1>12, LocalsSame, CountsSame, Zenon DEF IInv, local

\* After OverPasses recovered passes, and only then, the manager leaves emergency mode.
LEMMA EmergencyPassStep ==
    ASSUME IInv, NEW m \in Running, EmergencyPass(m), UNCHANGED setup
    PROVE  IInv'
<1>1. /\ UNCHANGED <<flag, timeouts, waiting, emerg, prevEmerg, pos, rowsPerWu, declared, entered>>
      /\ pc[m] = "full"
  BY Zenon DEF EmergencyPass
<1>2. PICK c \in 0..OverPasses : overCnt' = [overCnt EXCEPT ![m] = c]
  <2>1. PICK recovered \in BOOLEAN :
          overCnt' = [overCnt EXCEPT ![m] = IF recovered THEN overCnt[m] + 1 ELSE 0]
    BY Zenon DEF EmergencyPass
  <2>2. overCnt[m] + 1 \in 0..OverPasses /\ 0 \in 0..OverPasses
    BY <1>1, BoundsAssumption DEF IInv, Recovered, Locals
  <2>. QED
    BY <2>1, <2>2, Zenon
<1>3. overCnt' \in [Running -> 0..OverPasses] /\ overCnt'[m] = c
      /\ \A n \in Running \ {m} : overCnt'[n] = overCnt[n]
  BY <1>2, Zenon DEF IInv, Locals
<1>4. PICK l \in {"over", "size"} : Goto(m, l) /\ l \in Label /\ (l = "over" <=> c >= OverPasses)
  BY <1>3, Zenon DEF EmergencyPass, Label
<1>5. Running' = Running /\ \A n : First(n)' = First(n) /\ End(n)' = End(n)
  BY SameSections, Zenon
<1>6. Recovered'
  BY <1>3, <1>4, <1>1, ManagerControl, <1>5, BoundsAssumption DEF IInv, Recovered, Control
<1>7. Locals'
  BY <1>1, <1>3, <1>5, Zenon DEF IInv, Locals
<1>8. /\ lo' = [lo EXCEPT ![m] = First(m)] /\ hi' = [hi EXCEPT ![m] = End(m)]
      /\ left' = [left EXCEPT ![m] = 0]
      /\ First(m) \in Nat /\ End(m) \in Nat /\ First(m) <= End(m)
  BY Sections, Zenon DEF EmergencyPass, IInv, Control
<1>9. Unit'
  BY <1>1, <1>5, <1>8 DEF IInv, Unit
<1>10. Counts'
  BY <1>1, BoundsAssumption DEF EmergencyPass, IInv, Counts, MinOf
<1>. QED
  BY <1>1, <1>4, ManagerControl, <1>6, <1>7, <1>9, <1>10, Zenon DEF IInv, Control

LEMMA OverStep ==
    ASSUME IInv, NEW m \in Running, EmergencyOver(m), UNCHANGED setup
    PROVE  IInv'
<1>1. Control' /\ pc'[m] = "reset" /\ \A n \in Running \ {m} : pc'[n] = pc[n]
  BY ManagerControl, Zenon DEF IInv, Control, EmergencyOver, Label
<1>. QED
  BY <1>1, SameSections, UnitSame, LocalsSame, CountsSame, Zenon DEF IInv, Recovered, local, EmergencyOver,
     Label

LEMMA ResetStep ==
    ASSUME IInv, NEW m \in Running, FlowTimeoutsReset(m), UNCHANGED setup
    PROVE  IInv'
<1>1. Control' /\ pc'[m] = "size" /\ \A n \in Running \ {m} : pc'[n] = pc[n]
  BY ManagerControl, Zenon DEF IInv, Control, FlowTimeoutsReset, Label
<1>2. /\ overCnt' \in [Running -> 0..OverPasses] /\ overCnt'[m] = 0
      /\ \A n \in Running \ {m} : overCnt'[n] = overCnt[n]
  BY BoundsAssumption DEF FlowTimeoutsReset, IInv, Locals
<1>. QED
  BY <1>1, <1>2, SameSections, BoundsAssumption, UnitSame, CountsSame DEF IInv, FlowTimeoutsReset, Label,
     Recovered, Locals

LEMMA SizingStep ==
    ASSUME IInv, NEW m \in Running, Sizing(m), UNCHANGED setup
    PROVE  IInv'
<1>1. /\ UNCHANGED <<flag, timeouts, waiting, local, pos, left, lo, hi, count>>
      /\ pc[m] = "size" /\ Goto(m, "sleep") /\ "sleep" \in Label
  BY Zenon DEF Sizing, Label
<1>2. PICK mp \in setup.pressure :
        rowsPerWu' = [rowsPerWu EXCEPT ![m] = WorkUnitRows(Rows(m), mp, emerg[m])]
  BY Zenon DEF Sizing
<1>3. PICK r \in Nat : r = WorkUnitRows(Rows(m), mp, emerg[m])
  BY Setup, RowsNat, UnitRows, Zenon DEF IInv, Control, Locals
<1>4. Unit'
  BY <1>1, <1>2, <1>3, SameSections, Zenon DEF IInv, Unit
<1>. QED
  BY <1>1, ManagerControl, ManagerRecovered, <1>4, LocalsSame, CountsSame DEF IInv, Control, local

LEMMA SleepStep ==
    ASSUME IInv, NEW m \in Running, Sleep(m), UNCHANGED setup
    PROVE  IInv'
<1>1. PICK l \in {"top", "lock"} : Goto(m, l)
  BY Zenon DEF Sleep
<1>2. /\ UNCHANGED <<flag, timeouts, waiting, local, unit, count>>
      /\ pc[m] = "sleep" /\ l \in Label /\ l \notin {"over", "reset"}
  BY <1>1, Zenon DEF Sleep, Label
<1>3. Control' /\ pc'[m] = l /\ \A n \in Running \ {m} : pc'[n] = pc[n]
  BY <1>1, <1>2, ManagerControl, Zenon DEF IInv, Control
<1>. QED
  BY <1>2, <1>3, ManagerRecovered, UnitSame, LocalsSame, CountsSame, Zenon DEF IInv, local

LEMMA WaitStep ==
    ASSUME IInv, NEW m \in Running, Wait(m), UNCHANGED setup
    PROVE  IInv'
<1>1. PICK l \in {"top", "wait"} : Goto(m, l) /\ (l = "top" => UNCHANGED waiting)
                                   /\ (l = "wait" => waiting' = waiting \cup {m})
  BY Zenon DEF Wait
<1>2. m \in Thread /\ Running \subseteq Thread /\ l \in Label
  BY Setup, Zenon DEF IInv, Control, Label
<1>3. pc' \in [Thread -> Label] /\ pc'[m] = l /\ \A n \in Running \ {m} : pc'[n] = pc[n]
  BY <1>1, <1>2, GotoOne, Zenon DEF IInv
<1>4. Control'
  BY <1>1, <1>3, SameSections, Zenon DEF IInv, Control, Wait
<1>. QED
  BY <1>4, <1>3, ManagerRecovered, UnitSame, LocalsSame, CountsSame, Zenon DEF IInv, local, Wait

LEMMA TimedOutStep ==
    ASSUME IInv, NEW m \in Running, WaitTimedOut(m), UNCHANGED setup
    PROVE  IInv'
<1>1. m \in Thread /\ Running \subseteq Thread /\ "top" \in Label
  BY Setup, Zenon DEF IInv, Control, Label
<1>2. pc' \in [Thread -> Label] /\ pc'[m] = "top" /\ \A n \in Running \ {m} : pc'[n] = pc[n]
  BY <1>1, GotoOne, Zenon DEF IInv, WaitTimedOut
<1>. QED
  BY <1>2, SameSections, ManagerRecovered, UnitSame, LocalsSame, CountsSame, Zenon DEF IInv, Control, local,
     WaitTimedOut

-----------------------------------------------------------------------------

LEMMA InitInv == Init => IInv
<1>. SUFFICES ASSUME Init PROVE IInv
  OBVIOUS
<1>1. setup \in Setups
  BY Zenon DEF Init
<1>2. Locals /\ Counts
  BY BoundsAssumption DEF Init, Locals, Counts
<1>3. Unit
  <2>1. PICK mp \in setup.pressure : rowsPerWu = [m \in Running |-> WorkUnitRows(Rows(m), mp, FALSE)]
    BY Zenon DEF Init
  <2>2. rowsPerWu \in [Running -> Nat]
    BY <2>1, <1>1, Setup, RowsNat, UnitRows, Zenon
  <2>3. pos = [m \in Running |-> First(m)] /\ lo = pos /\ hi = pos /\ left = [m \in Running |-> 0]
    BY Zenon DEF Init
  <2>. QED
    BY <1>1, Sections, <2>2, <2>3 DEF Unit
<1>4. Recovered
  BY <1>1, Setup, BoundsAssumption DEF Init, Recovered
<1>. QED
  BY <1>1, <1>2, <1>3, <1>4, Zenon DEF IInv, Init, Control, Label

LEMMA NextInv == IInv /\ [Next]_vars => IInv'
<1>. SUFFICES ASSUME IInv, [Next]_vars PROVE IInv'
  OBVIOUS
<1>1. ASSUME UNCHANGED vars PROVE IInv'
  BY <1>1, SameSections, UnitSame, LocalsSame, CountsSame, Zenon DEF vars, IInv, Control, Recovered, local
<1>2. ASSUME NEW w \in setup.workers, DeclareCheck(w) \/ DeclareStep(w), UNCHANGED setup PROVE IInv'
  BY <1>2, DeclareCheckStep, DeclareOrStep, TimeoutsStep, WakeupStep, Zenon DEF DeclareStep
<1>3. ASSUME NEW m \in Running, ManagerStep(m), UNCHANGED setup PROVE IInv'
  BY <1>3, LoopRunStep, LoopIdleStep, ChunkStep, EmergencyPassStep, OverStep, ResetStep, SizingStep, SleepStep,
     WaitStep, TimedOutStep, Zenon DEF ManagerStep
<1>. QED
  BY <1>1, <1>2, <1>3, Zenon DEF Next

\* The inductive invariant holds in every reachable state.
THEOREM Invariance == Spec => []IInv
  BY InitInv, NextInv, PTL DEF Spec

\* FlowManagerThreadInit and FlowTimeoutHashInChunks: for any number of managers and rows,
\* and however the work units are sized, two managers never scan the same row.
THEOREM SectionsKept == Spec => []OwnSection
<1>1. IInv => OwnSection
  BY Sections, Setup DEF IInv, Control, Unit, Locals, Counts, TypeOK, Label, OwnSection
<1>. QED
  BY <1>1, Invariance, PTL

-----------------------------------------------------------------------------
(* An emergency is not slept over. *)

\* Only Wait adds a waiting manager, and it tests the flag first.
LEMMA HeardStep == IInv /\ EmergencyHeard /\ [Next]_vars => EmergencyHeard'
<1>. SUFFICES ASSUME IInv, EmergencyHeard, [Next]_vars, flag', waiting' = Running'
              PROVE  \E w \in Worker : pc'[w] \in {"tmo", "wake"}
  BY Zenon DEF EmergencyHeard
<1>1. /\ Running \subseteq Nat /\ Running \subseteq Thread /\ Running # {}
      /\ setup.workers \subseteq Worker /\ Worker \subseteq Thread
      /\ \A w \in Worker : w \notin Running
  BY Setup, Zenon DEF IInv, Control
<1>2. /\ setup' = setup /\ waiting' = Running
  BY SameSections, Zenon DEF Next, vars
<1>3. ASSUME UNCHANGED vars PROVE \E w \in Worker : pc'[w] \in {"tmo", "wake"}
  BY <1>2, <1>3, Zenon DEF vars, EmergencyHeard
<1>4. ASSUME NEW w \in setup.workers, DeclareCheck(w) \/ DeclareStep(w)
      PROVE  \E v \in Worker : pc'[v] \in {"tmo", "wake"}
  <2>1. CASE DeclareOr(w)
    BY <1>1, <2>1, GotoOne, Zenon DEF DeclareOr, IInv, Label
  <2>2. CASE FlowTimeoutsEmergency(w)
    BY <1>1, <2>2, GotoOne, Zenon DEF FlowTimeoutsEmergency, IInv, Label
  <2>. QED
    BY <1>4, <2>1, <2>2, <1>1, <1>2, Zenon DEF DeclareStep, DeclareCheck, IInv, Control,
       FlowWakeupFlowManagerThread
<1>5. ASSUME NEW m \in Running, ManagerStep(m)
      PROVE  \E w \in Worker : pc'[w] \in {"tmo", "wake"}
  <2>1. /\ flag /\ waiting' \subseteq waiting
        /\ \E l : pc' = [pc EXCEPT ![m] = l]
    BY <1>5, Zenon DEF ManagerStep, LoopRun, LoopIdle, Chunk, EmergencyPass, EmergencyOver, FlowTimeoutsReset,
       Sizing, Sleep, Wait, WaitTimedOut, Goto
  <2>2. PICK w \in Worker : pc[w] \in {"tmo", "wake"}
    BY <2>1, <1>2, Zenon DEF EmergencyHeard, IInv, Control
  <2>. QED
    BY <2>2, <1>1, <2>1 DEF IInv, Control
<1>. QED
  BY <1>3, <1>4, <1>5, Zenon DEF Next

\* FlowManager tests FLOW_EMERGENCY under flow_manager_ctrl_mutex before every wait, and
\* FlowGetNew signals after it set the flag: whatever the number of managers and packet
\* threads, they never all wait with an emergency declared and no signal to come.
THEOREM EmergencyAlwaysHeard == Spec => []EmergencyHeard
<1>1. Init => EmergencyHeard
  BY Zenon DEF Init, EmergencyHeard
<1>. QED
  BY <1>1, Invariance, HeardStep, PTL DEF Spec

-----------------------------------------------------------------------------
(* One manager, or no packet thread to declare an emergency. *)

\* "flow.managers" is 1 by default; with more, each of them runs its own emergency.
OneManager == \A s \in Setups : s.instances = 1 \/ s.workers = {}

\* An emergency is counted between its declaration and the first pass, and the count of
\* recovered passes is that of this emergency.
EpisodeOf(m) ==
    /\ pc[m] \in {"full", "over"} => flag /\ prevEmerg[m]
    /\ pc[m] = "reset" => setup.workers # {} /\ prevEmerg[m]
    /\ pc[m] # "reset" /\ prevEmerg[m] => flag
    /\ flag /\ (~prevEmerg[m] \/ pc[m] = "reset") => declared = entered + 1
    /\ ~(flag /\ (~prevEmerg[m] \/ pc[m] = "reset")) => declared = entered
    /\ pc[m] # "reset" => overCnt[m] <= passes /\ (~flag => overCnt[m] = 0)

Episode == (setup.workers = {} => ~flag) /\ \A m \in Running : EpisodeOf(m)

LEMMA Alone ==
    ASSUME OneManager, setup \in Setups
    PROVE  Running = {0} \/ setup.workers = {}
  BY DEF Running, OneManager

\* Most steps of a manager are not about emergency mode.
LEMMA QuietStep ==
    ASSUME NEW m \in Running, EpisodeOf(m), pc[m] \notin {"full", "over", "reset"},
           pc'[m] \notin {"full", "over", "reset"},
           UNCHANGED <<setup, flag, prevEmerg, overCnt, declared, entered, passes>>
    PROVE  EpisodeOf(m)'
  BY Zenon DEF EpisodeOf

LEMMA OwnEpisode ==
    ASSUME IInv, Episode, NEW m \in Running, ManagerStep(m), UNCHANGED setup
    PROVE  EpisodeOf(m)' /\ (flag' => flag)
<1>. EpisodeOf(m) /\ m \in Thread
  BY Setup, Zenon DEF Episode, IInv, Control
<1>. DEFINE Same == UNCHANGED <<setup, flag, prevEmerg, overCnt, declared, entered, passes>>
<1>1. \A l \in Label : Goto(m, l) => pc'[m] = l
  BY GotoOne, Zenon DEF IInv
<1>2. CASE LoopRun(m)
  <2>1. CASE flag /\ ~prevEmerg[m]
    BY <1>2, <2>1, BoundsAssumption, <1>1 DEF LoopRun, IInv, Locals, EpisodeOf, MinOf, Counts, Label
  <2>2. CASE ~(flag /\ ~prevEmerg[m])
    BY <1>2, <1>1, <2>2, Zenon DEF EpisodeOf, LoopRun, Label
  <2>. QED
    BY <2>1, <2>2, Zenon
<1>3. CASE LoopIdle(m) \/ Chunk(m) \/ Sizing(m) \/ Sleep(m) \/ Wait(m) \/ WaitTimedOut(m)
  <2>1. Same
    BY <1>3, Zenon DEF LoopIdle, Chunk, Sizing, Sleep, Wait, WaitTimedOut, local, count
  <2>2. PICK l \in {"sleep", "chunk", "size", "top", "lock", "wait"} : Goto(m, l)
    BY <1>3, Zenon DEF LoopIdle, Chunk, Sizing, Sleep, Wait, WaitTimedOut
  <2>. QED
    BY <2>1, <1>3, <1>1, <2>2, QuietStep, Zenon DEF LoopIdle, Chunk, Sizing, Sleep, Wait, WaitTimedOut, Label
<1>4. CASE EmergencyPass(m)
  BY <1>4, <1>1, BoundsAssumption DEF EmergencyPass, Label, IInv, Locals, EpisodeOf, Recovered, Counts, MinOf
<1>5. CASE EmergencyOver(m)
  BY <1>5, <1>1, Zenon DEF EmergencyOver, local, count, Label, EpisodeOf, Episode
<1>6. CASE FlowTimeoutsReset(m)
  BY <1>6, <1>1, BoundsAssumption DEF FlowTimeoutsReset, count, Label, IInv, Locals, Counts, EpisodeOf
<1>. QED
  BY <1>2, <1>3, <1>4, <1>5, <1>6, Zenon DEF ManagerStep

LEMMA OtherEpisode ==
    ASSUME OneManager, IInv, Episode, NEW m \in Running, ManagerStep(m), UNCHANGED setup,
           NEW n \in Running \ {m}
    PROVE  EpisodeOf(n)'
<1>1. setup.workers = {} /\ ~flag
  BY Alone, Zenon DEF IInv, Control, Episode
<1>2. pc[m] \notin {"full", "over", "reset"} /\ pc[n] \notin {"full", "over", "reset"}
  BY <1>1, Setup, Zenon DEF EpisodeOf, Episode, IInv, Control
<1>3. UNCHANGED <<flag, prevEmerg, overCnt, declared, entered, passes>> /\ \E l : Goto(m, l)
  BY <1>1, <1>2, Zenon DEF ManagerStep, LoopRun, LoopIdle, Chunk, EmergencyPass, EmergencyOver,
     FlowTimeoutsReset, Sizing, Sleep, Wait, WaitTimedOut, local, count
<1>. QED
  BY Setup, <1>2, <1>3, QuietStep, Zenon DEF Goto, IInv, Control, Episode

\* A packet thread declares an emergency that no manager has seen yet.
LEMMA WorkerEpisode ==
    ASSUME OneManager, IInv, Episode, NEW w \in setup.workers, DeclareCheck(w) \/ DeclareStep(w),
           UNCHANGED setup, NEW m \in Running
    PROVE  EpisodeOf(m)'
<1>1. /\ EpisodeOf(m) /\ m \in Thread /\ w \in Thread /\ w # m
  BY Setup, Zenon DEF Episode, IInv, Control
<1>2. pc'[m] = pc[m] \/ (pc[m] = "wait" /\ pc'[m] = "lock")
  BY <1>1, Zenon DEF IInv, Control, Goto, DeclareCheck, DeclareStep, DeclareOr, FlowTimeoutsEmergency,
     FlowWakeupFlowManagerThread
<1>3. UNCHANGED <<prevEmerg, overCnt, entered>>
  BY Zenon DEF DeclareCheck, DeclareStep, DeclareOr, FlowTimeoutsEmergency, FlowWakeupFlowManagerThread, local,
     count
<1>4. CASE UNCHANGED <<flag, declared, passes>>
  BY <1>1, <1>2, <1>3, <1>4, Zenon DEF EpisodeOf
<1>5. CASE DeclareOr(w) /\ ~flag
  BY <1>5, <1>1, <1>2, <1>3 DEF DeclareOr, EpisodeOf
<1>. QED
  BY <1>4, <1>5, Zenon DEF DeclareCheck, DeclareStep, DeclareOr, FlowTimeoutsEmergency,
     FlowWakeupFlowManagerThread, count

LEMMA EpisodeStep == OneManager /\ IInv /\ Episode /\ [Next]_vars => Episode'
<1>. SUFFICES ASSUME OneManager, IInv, Episode, [Next]_vars PROVE Episode'
  OBVIOUS
<1>1. UNCHANGED setup /\ Running' = Running
  BY SameSections, Zenon DEF Next, vars
<1>2. ASSUME UNCHANGED vars PROVE Episode'
  BY <1>1, <1>2, Zenon DEF vars, local, count, Episode, EpisodeOf
<1>3. ASSUME NEW w \in setup.workers, DeclareCheck(w) \/ DeclareStep(w) PROVE Episode'
  BY <1>1, <1>3, WorkerEpisode, Zenon DEF Episode
<1>4. ASSUME NEW m \in Running, ManagerStep(m) PROVE Episode'
  BY <1>1, <1>4, OwnEpisode, OtherEpisode, Zenon DEF Episode
<1>. QED
  BY <1>2, <1>3, <1>4, Zenon DEF Next

LEMMA InitEpisode == Init => Episode
<1>. SUFFICES ASSUME Init PROVE Episode
  BY Zenon
<1>1. \A m \in Running : pc[m] = "top" /\ ~prevEmerg[m] /\ overCnt[m] = 0
  BY Setup, Zenon DEF Init
<1>. QED
  BY <1>1 DEF Episode, EpisodeOf, Init

LEMMA EpisodeInvariance ==
    ASSUME OneManager
    PROVE  Spec => []Episode
<1>1. IInv /\ Episode /\ [Next]_vars => Episode'
  BY EpisodeStep, Zenon
<1>. QED
  BY <1>1, Invariance, InitEpisode, PTL DEF Spec

\* FlowManager's prev_emerg: with one manager, flow.emerg_mode_entered counts every
\* emergency a packet thread declares, and none of them twice.
THEOREM EmergenciesCounted ==
    ASSUME OneManager
    PROVE  Spec => []EnteredCounted
<1>1. IInv /\ Episode => EnteredCounted
  BY Setup, BoundsAssumption DEF Episode, IInv, Control, EpisodeOf, Counts, EnteredCounted
<1>2. Spec => []Episode
  BY EpisodeInvariance
<1>. QED
  BY <1>1, <1>2, Invariance, PTL

\* FlowManager's emerg_over_cnt: with one manager, the flag is cleared only after
\* OverPasses passes over the hash since the emergency was declared, because the count
\* of recovered passes is never carried over from an earlier one.
THEOREM EmergencyRunsItsPasses ==
    ASSUME OneManager
    PROVE  Spec => EmergencyNotCutShort
<1>1. IInv /\ Episode /\ [Next]_vars => [flag /\ ~flag' => passes >= OverPasses]_vars
  <2>. SUFFICES ASSUME IInv, Episode, Next, flag, ~flag' PROVE passes >= OverPasses
    OBVIOUS
  <2>1. PICK m \in Running : EmergencyOver(m)
    BY Zenon DEF Next, DeclareCheck, DeclareStep, DeclareOr, FlowTimeoutsEmergency, FlowWakeupFlowManagerThread,
       ManagerStep, LoopRun, LoopIdle, Chunk, EmergencyPass, FlowTimeoutsReset, Sizing, Sleep, Wait, WaitTimedOut
  <2>. QED
    BY <2>1, BoundsAssumption, Zenon DEF EpisodeOf, IInv, Recovered, EmergencyOver, Episode, Counts
<1>2. Spec => []Episode
  BY EpisodeInvariance
<1>. QED
  BY <1>1, <1>2, Invariance, PTL DEF Spec, EmergencyNotCutShort
=============================================================================
