------------------------ MODULE MCIpcTransportQueue ------------------------
(* Constants of IpcTransportQueue for TLC: two client threads that pop and a *)
(* worker, so that two can sleep while the third takes a notification.       *)
EXTENDS IpcTransportQueue

CONSTANTS p1, p2, c1, c2, w1

TwoProducers == {p1, p2}
ThreeConsumers == {c1, c2, w1}
Worker == {w1}
=============================================================================
