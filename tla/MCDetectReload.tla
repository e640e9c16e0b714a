--------------------------- MODULE MCDetectReload ---------------------------
(* Two workers; contexts enough for the current one, one that a worker still   *)
(* has after a failed swap, and the next.                                      *)
EXTENDS DetectReload, TLC

CONSTANTS d1, d2, d3

MCCtx == {d1, d2, d3}
=============================================================================
