---------------------------- MODULE MCPacketPool ----------------------------
(* One capture thread with two releasers, and two capture threads with one.    *)
(* Pools of two packets and more workers than packets: max_pending_return is   *)
(* at its largest and the first packet of a batch waits for a second.          *)
EXTENDS PacketPool, TLC

CONSTANTS c1, c2, r1, r2, e1

MCCapture  == {c1, c2}
MCReleaser == {r1, r2}
MCExtra    == {e1}
MCSetups   == {{c1, r1, r2}, {c1, c2, r1}}
MCLeaves   == c1 :> 2 @@ c2 :> 0
MCVerdict  == {{c1, r1, r2}}
=============================================================================
