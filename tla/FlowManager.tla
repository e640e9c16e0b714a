----------------------------- MODULE FlowManager -----------------------------
(***************************************************************************)
(* The loop of the flow manager threads (flow-manager.c): which rows each  *)
(* instance scans in a work unit, and how emergency mode is entered by     *)
(* packet threads (FlowGetNew) and left by the flow managers.              *)
(*                                                                         *)
(* What a scan does to a row is FlowTable.  Time is left open: a manager   *)
(* that is not made to run at once may or may not be due.  The memcap      *)
(* pressure and the fill of the spare pool are what the threads happen to  *)
(* read.  The engine reads live traffic: offline, a manager polls and does *)
(* not wait on the condition.                                              *)
(***************************************************************************)
EXTENDS Naturals, FiniteSets

CONSTANTS Setups,        \* the configurations: packet threads (workers), flowmgr_number
                         \* (instances), flow_config.hash_size (rows) and the busy scores
                         \* MemcapsGetPressure may give, in percent (pressure)
          OverPasses,    \* recovered passes that end emergency mode (30)
          MaxDeclared    \* bound of the model on declared emergencies

ASSUME SetupsAssumption ==
    \A s \in Setups :
        /\ s.instances \in Nat \ {0} /\ s.rows \in Nat \ {0}
        /\ s.pressure \subseteq Nat /\ s.pressure # {} /\ s.workers \cap Nat = {}
ASSUME BoundsAssumption == OverPasses \in Nat \ {0} /\ MaxDeclared \in Nat

Worker == UNION {s.workers : s \in Setups}
Manager == UNION {0..(s.instances - 1) : s \in Setups}
Thread == Worker \cup Manager
Row == UNION {0..(s.rows - 1) : s \in Setups}

VARIABLES setup,       \* the configuration this engine runs with
          flag,        \* FLOW_EMERGENCY in flow_flags
          timeouts,    \* flow_timeouts: "normal" or "emerg"; the timeouts of a scan follow
                       \* the flag, so nothing below reads it
          waiting,     \* managers in SCCtrlCondTimedwait
          pc,
          emerg, prevEmerg, overCnt,   \* locals of FlowManager
          pos, rowsPerWu,
          left, lo, hi,                \* the work unit: rows left to do, the rows
                                       \* lo..hi-1 of the last FlowTimeoutHash
          declared, entered,   \* emergencies declared; flow.emerg_mode_entered,
                               \* counted up to MaxDeclared + 1
          passes       \* emergency passes since the last was declared, up to OverPasses

unit == <<pos, rowsPerWu, left, lo, hi>>
local == <<emerg, prevEmerg, overCnt>>
count == <<declared, entered, passes>>
vars == <<setup, flag, timeouts, waiting, pc, local, unit, count>>

-----------------------------------------------------------------------------
(* FlowManagerThreadInit: each instance has its own section of the hash.   *)

Running == 0..(setup.instances - 1)
range == setup.rows \div setup.instances
First(m) == m * range

\* Mutant: the last instance leaves the remainder of the division out.
EndNoRemainder(m) == (m + 1) * range

End(m) == IF m + 1 = setup.instances THEN setup.rows ELSE (m + 1) * range
Rows(m) == End(m) - First(m)

\* GetWorkUnitSizing.  The code's float product is exact for the sizes used here.
WorkUnitRows(rows, mp, em) ==
    IF em THEN rows ELSE (rows * (IF mp > 10 THEN mp ELSE 10)) \div 100

Init ==
    /\ setup \in Setups
    /\ flag = FALSE /\ timeouts = "normal" /\ waiting = {}
    /\ pc = [t \in Thread |-> IF t \in setup.workers THEN "idle"
                              ELSE IF t \in Running THEN "top" ELSE "absent"]
    /\ emerg = [m \in Running |-> FALSE] /\ prevEmerg = [m \in Running |-> FALSE]
    /\ overCnt = [m \in Running |-> 0]
    /\ pos = [m \in Running |-> First(m)] /\ lo = pos /\ hi = pos
    /\ \E mp \in setup.pressure : rowsPerWu = [m \in Running |-> WorkUnitRows(Rows(m), mp, FALSE)]
    /\ left = [m \in Running |-> 0]
    /\ declared = 0 /\ entered = 0 /\ passes = 0

MinOf(a, b) == IF a <= b THEN a ELSE b
Goto(t, l) == pc' = [pc EXCEPT ![t] = l]

-----------------------------------------------------------------------------
(* A packet thread at memcap, in FlowGetNew: the flag is read, set, the     *)
(* timeouts are switched and a manager is woken, one after the other.       *)

DeclareCheck(w) ==
    /\ pc[w] = "idle" /\ ~flag /\ declared < MaxDeclared
    /\ Goto(w, "or")
    /\ UNCHANGED <<flag, timeouts, waiting, local, unit, count>>

DeclareOr(w) ==
    /\ pc[w] = "or"
    /\ flag' = TRUE
    /\ IF flag THEN UNCHANGED <<declared, passes>>
       ELSE declared < MaxDeclared /\ declared' = declared + 1 /\ passes' = 0
    /\ Goto(w, "tmo")
    /\ UNCHANGED <<timeouts, waiting, local, unit, entered>>

FlowTimeoutsEmergency(w) ==
    /\ pc[w] = "tmo"
    /\ timeouts' = "emerg"
    /\ Goto(w, "wake")
    /\ UNCHANGED <<flag, waiting, local, unit, count>>

\* The signal wakes one of the managers that wait.
FlowWakeupFlowManagerThread(w) ==
    /\ pc[w] = "wake"
    /\ IF waiting = {}
       THEN Goto(w, "idle") /\ UNCHANGED waiting
       ELSE \E m \in waiting :
               /\ waiting' = waiting \ {m}
               /\ pc' = [pc EXCEPT ![w] = "idle", ![m] = "lock"]
    /\ UNCHANGED <<flag, timeouts, local, unit, count>>

-----------------------------------------------------------------------------
(* A flow manager. *)

\* The top of the loop, when the next run is due: a new emergency makes it so.
LoopRun(m) ==
    /\ pc[m] = "top"
    /\ emerg' = [emerg EXCEPT ![m] = flag]
    /\ IF flag /\ ~prevEmerg[m]
       THEN /\ prevEmerg' = [prevEmerg EXCEPT ![m] = TRUE]
            /\ entered' = MinOf(entered + 1, MaxDeclared + 1)
       ELSE UNCHANGED <<prevEmerg, entered>>
    /\ left' = [left EXCEPT ![m] = rowsPerWu[m]]
    /\ Goto(m, IF flag THEN "full" ELSE "chunk")
    /\ UNCHANGED <<flag, timeouts, waiting, overCnt, pos, rowsPerWu, lo, hi, declared,
                   passes>>

LoopIdle(m) ==
    /\ pc[m] = "top" /\ ~(flag /\ ~prevEmerg[m])
    /\ emerg' = [emerg EXCEPT ![m] = flag]
    /\ Goto(m, "sleep")
    /\ UNCHANGED <<flag, timeouts, waiting, prevEmerg, overCnt, unit, count>>

\* Mutant: the end of the chunk is not cut off at the last row.
ChunkEndNoClip(m, start) == start + left[m]

ChunkEnd(m, start) == MinOf(start + left[m], End(m))

ChunkPos(m, end) == IF end = End(m) THEN First(m) ELSE end

\* One turn of FlowTimeoutHashInChunks: FlowTimeoutHash over start..end-1.
Chunk(m) ==
    /\ pc[m] = "chunk"
    /\ LET start == IF pos[m] >= End(m) THEN First(m) ELSE pos[m]
           end == ChunkEnd(m, start)
       IN /\ lo' = [lo EXCEPT ![m] = start] /\ hi' = [hi EXCEPT ![m] = end]
          /\ pos' = [pos EXCEPT ![m] = ChunkPos(m, end)]
          /\ left' = [left EXCEPT ![m] = @ - (end - start)]
    /\ Goto(m, IF left'[m] > 0 THEN "chunk" ELSE "size")
    /\ UNCHANGED <<flag, timeouts, waiting, local, rowsPerWu, count>>

\* An emergency pass: all rows, then the test of the spare pool, which is full
\* enough (recovered) or not.
EmergencyPass(m) ==
    /\ pc[m] = "full"
    /\ lo' = [lo EXCEPT ![m] = First(m)] /\ hi' = [hi EXCEPT ![m] = End(m)]
    /\ left' = [left EXCEPT ![m] = 0]
    /\ \E recovered \in BOOLEAN :
          overCnt' = [overCnt EXCEPT ![m] = IF recovered THEN @ + 1 ELSE 0]
    /\ passes' = MinOf(passes + 1, OverPasses)
    /\ Goto(m, IF overCnt'[m] >= OverPasses THEN "over" ELSE "size")
    /\ UNCHANGED <<flag, timeouts, waiting, emerg, prevEmerg, pos, rowsPerWu, declared,
                   entered>>

\* Mutant: resets the timeouts, but not the flag.
EmergencyOverKeepsFlag(m) ==
    /\ pc[m] = "over"
    /\ Goto(m, "reset")
    /\ UNCHANGED <<flag, timeouts, waiting, local, unit, count>>

EmergencyOver(m) ==
    /\ pc[m] = "over"
    /\ flag' = FALSE
    /\ Goto(m, "reset")
    /\ UNCHANGED <<timeouts, waiting, local, unit, count>>

\* Mutant: keeps the count of recovered passes.
FlowTimeoutsResetKeepsCnt(m) ==
    /\ pc[m] = "reset"
    /\ timeouts' = "normal"
    /\ emerg' = [emerg EXCEPT ![m] = FALSE] /\ prevEmerg' = [prevEmerg EXCEPT ![m] = FALSE]
    /\ Goto(m, "size")
    /\ UNCHANGED <<flag, waiting, overCnt, unit, count>>

\* Mutant: forgets that the emergency it has seen is over.
FlowTimeoutsResetKeepsPrev(m) ==
    /\ pc[m] = "reset"
    /\ timeouts' = "normal"
    /\ emerg' = [emerg EXCEPT ![m] = FALSE]
    /\ overCnt' = [overCnt EXCEPT ![m] = 0]
    /\ Goto(m, "size")
    /\ UNCHANGED <<flag, waiting, prevEmerg, unit, count>>

FlowTimeoutsReset(m) ==
    /\ pc[m] = "reset"
    /\ timeouts' = "normal"
    /\ emerg' = [emerg EXCEPT ![m] = FALSE] /\ prevEmerg' = [prevEmerg EXCEPT ![m] = FALSE]
    /\ overCnt' = [overCnt EXCEPT ![m] = 0]
    /\ Goto(m, "size")
    /\ UNCHANGED <<flag, waiting, unit, count>>

\* The size of the next work unit.
Sizing(m) ==
    /\ pc[m] = "size"
    /\ \E mp \in setup.pressure :
          rowsPerWu' = [rowsPerWu EXCEPT ![m] = WorkUnitRows(Rows(m), mp, emerg[m])]
    /\ Goto(m, "sleep")
    /\ UNCHANGED <<flag, timeouts, waiting, local, pos, left, lo, hi, count>>

\* In an emergency a short sleep, otherwise a wait for the signal or the timeout.
Sleep(m) ==
    /\ pc[m] = "sleep"
    /\ Goto(m, IF emerg[m] THEN "top" ELSE "lock")
    /\ UNCHANGED <<flag, timeouts, waiting, local, unit, count>>

\* Mutant: waits without a look at the flag.
WaitNoCheck(m) ==
    /\ pc[m] = "lock"
    /\ waiting' = waiting \cup {m} /\ Goto(m, "wait")
    /\ UNCHANGED <<flag, timeouts, local, unit, count>>

\* With flow_manager_ctrl_mutex: the flag is tested before every wait.
Wait(m) ==
    /\ pc[m] = "lock"
    /\ IF flag
       THEN Goto(m, "top") /\ UNCHANGED waiting
       ELSE waiting' = waiting \cup {m} /\ Goto(m, "wait")
    /\ UNCHANGED <<flag, timeouts, local, unit, count>>

WaitTimedOut(m) ==
    /\ pc[m] = "wait" /\ m \in waiting
    /\ waiting' = waiting \ {m}
    /\ Goto(m, "top")
    /\ UNCHANGED <<flag, timeouts, local, unit, count>>

ManagerStep(m) ==
    \/ LoopRun(m) \/ LoopIdle(m) \/ Chunk(m) \/ EmergencyPass(m) \/ EmergencyOver(m)
    \/ FlowTimeoutsReset(m) \/ Sizing(m) \/ Sleep(m) \/ Wait(m) \/ WaitTimedOut(m)

DeclareStep(w) ==
    DeclareOr(w) \/ FlowTimeoutsEmergency(w) \/ FlowWakeupFlowManagerThread(w)

Next ==
    /\ \/ \E w \in setup.workers : DeclareCheck(w) \/ DeclareStep(w)
       \/ \E m \in Running : ManagerStep(m)
    /\ UNCHANGED setup

Spec == Init /\ [][Next]_vars

\* Threads keep running, and time passes: a wait times out, a run comes due.
FairSpec ==
    /\ Spec
    /\ \A w \in Worker : WF_vars(DeclareStep(w) /\ UNCHANGED setup)
    /\ \A m \in Manager : /\ WF_vars(ManagerStep(m) /\ UNCHANGED setup)
                          /\ SF_vars(LoopRun(m) /\ UNCHANGED setup)

-----------------------------------------------------------------------------
\* No uint32_t of a work unit goes below zero: rows left are never overdrawn.
TypeOK ==
    /\ setup \in Setups /\ flag \in BOOLEAN /\ timeouts \in {"normal", "emerg"} /\ waiting \subseteq Running
    /\ pc \in [Thread -> {"idle", "or", "tmo", "wake", "top", "full", "chunk", "over", "reset",
                          "size", "sleep", "lock", "wait", "absent"}]
    /\ emerg \in [Running -> BOOLEAN] /\ prevEmerg \in [Running -> BOOLEAN]
    /\ overCnt \in [Running -> 0..OverPasses]
    /\ pos \in [Running -> Nat] /\ \A m \in Running : pos[m] \in First(m)..End(m)
    /\ rowsPerWu \in [Running -> Nat] /\ left \in [Running -> Nat]
    /\ lo \in [Running -> 0..setup.rows] /\ hi \in [Running -> 0..setup.rows]
    /\ declared \in 0..MaxDeclared /\ entered \in 0..(MaxDeclared + 1) /\ passes \in 0..OverPasses

\* FlowManagerThreadInit, "each thread has it's own section of the flow hash": two
\* managers never scan the same row, wherever their units begin and end, and none leaves
\* its section or overdraws the rows left of a pass (TypeOK).
OwnSection ==
    /\ TypeOK
    /\ \A m, n \in Running : m < n => hi[m] <= lo[n]

\* Every row is scanned again and again, whatever the memory pressure: the
\* sections and the units leave no row out.
EveryRowScanned ==
    \A r \in Row : []<>(r < setup.rows => \E m \in Running : lo[m] <= r /\ r < hi[m])

\* An emergency is never slept over: while all managers wait, a packet thread
\* that set the flag is still on its way to signal.
EmergencyHeard ==
    flag /\ waiting = Running => \E w \in Worker : pc[w] \in {"tmo", "wake"}

\* Emergency mode ends only after OverPasses passes over the hash, however often
\* it was declared and left before.
EmergencyNotCutShort == [][flag /\ ~flag' => passes >= OverPasses]_vars

\* flow.emerg_mode_entered follows the emergencies: none is missed or counted twice.
EnteredCounted == entered <= declared /\ declared <= entered + 1

\* Once every emergency pass finds the spare pool recovered, emergency mode ends.
EmergencyEnds ==
    <>[][\A m \in Manager : pc[m] = "full" => overCnt'[m] > overCnt[m] \/ pc'[m] = "full"]_vars
        => <>[]~flag
=============================================================================
