--------------------------- MODULE FlowLifecycle ---------------------------
(***************************************************************************)
(* What the flow engine promises about flows, seen from outside: a flow    *)
(* structure serves one tuple at a time, no tuple has two flows, and a     *)
(* flow that has ended is reported before it serves again.                 *)
(***************************************************************************)
CONSTANTS Flow, Key,
          Free,    \* ready for use
          Ending   \* out of the hash, not yet reported and cleared

VARIABLE st        \* of each flow: the tuple it serves, Free or Ending

Init == st = [f \in Flow |-> Free]

Unserved(k) == \A f \in Flow : st[f] # k

\* The first packet of a tuple.  Out of memory, the engine ends, reports and
\* takes over a flow in use.
Start(f, k) ==
    /\ st[f] \in Key \cup {Free} /\ k \in Key /\ Unserved(k)
    /\ st' = [st EXCEPT ![f] = k]

\* A flow times out or is evicted.
End(f) ==
    /\ st[f] \in Key
    /\ st' = [st EXCEPT ![f] = Ending]

\* A session starts over: another flow takes the tuple over.
Replace(f, g) ==
    /\ f # g /\ st[f] \in Key /\ st[g] \in Key \cup {Free}
    /\ st' = [st EXCEPT ![f] = Ending, ![g] = st[f]]

Finish(f) ==
    /\ st[f] = Ending
    /\ st' = [st EXCEPT ![f] = Free]

Next ==
    \E f \in Flow :
        \/ End(f) \/ Finish(f)
        \/ \E k \in Key : Start(f, k)
        \/ \E g \in Flow : Replace(f, g)

Spec == Init /\ [][Next]_st
FairSpec == Spec /\ \A f \in Flow : WF_st(Finish(f))

=============================================================================
