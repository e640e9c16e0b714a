---------------------------- MODULE MCFlowManager ----------------------------
(* Two managers with sections of 10 and 11 rows, or one manager and two packet *)
(* threads that declare an emergency.                                          *)
EXTENDS FlowManager

CONSTANTS w1, w2

MCScan == [workers |-> {}, instances |-> 2, rows |-> 21, pressure |-> {40, 120}]
MCEmergency == [workers |-> {w1, w2}, instances |-> 1, rows |-> 1, pressure |-> {100}]
MCSetups == {MCScan, MCEmergency}
=============================================================================
