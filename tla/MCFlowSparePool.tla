-------------------------- MODULE MCFlowSparePool --------------------------
(* Two workers, blocks of two flows: a block can be empty, half full or full. *)
EXTENDS FlowSparePool, TLC

CONSTANTS w1, w2

MCWorker == {w1, w2}
MCMemcapValues == {4, 5}
MCSymmetry == Permutations(MCWorker)
=============================================================================
