----------------------------- MODULE MCFlowTable -----------------------------
(* Two workers and two flows over one or two rows: every pair of threads meets *)
(* on a row and on a flow, and a flow is taken from a row in use.              *)
EXTENDS FlowTable, TLC

CONSTANTS w1, w2, f1, f2, tcp1, udp1, r1, r2

MCWorker == {w1, w2}
MCFlow == {f1, f2}
MCOneFlow == {f1}
MCKey == {tcp1, udp1}
MCTcpKey == {tcp1}
MCRow1 == {r1}
MCRow2 == {r1, r2}
MCHash1 == [k \in MCKey |-> r1]
MCHash2 == [k \in MCKey |-> IF k = tcp1 THEN r1 ELSE r2]
MCSymmetry == Permutations(MCWorker) \cup Permutations(MCFlow)
MCFlowSymmetry == Permutations(MCFlow)
=============================================================================
