----------------------------- MODULE MCShutdown -----------------------------
(* autofp with a capture thread and a worker, and the workers run mode    *)
(* with two threads.                                                           *)
EXTENDS Shutdown

CONSTANTS c, w1, x1, x2, f1, f2

MCThread  == {c, w1, x1, x2}
MCReceive == {c, x1, x2}
MCWorkers == {w1, x1, x2}
MCSetups  == {<<c, w1>>, <<x1, x2>>}
MCFlow    == {f1, f2}
MCTcp     == {f1}
=============================================================================
