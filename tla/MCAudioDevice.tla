--------------------------- MODULE MCAudioDevice ---------------------------
(* AudioDevice on two interchangeable devices: fix which one is the        *)
(* default at first.                                                       *)
EXTENDS AudioDevice

CONSTANT First
ASSUME FirstAssumption == First \in Devices

MCInit == Init /\ default \in {First, None}
MCSpec == MCInit /\ [][Next]_vars /\ Fairness
=============================================================================
