--------------------------- MODULE MCDeviceAdmin ---------------------------
(* DeviceAdmin for TLC. Requests are interchangeable, so that it is enough *)
(* to look at the behaviours in which they come in the order of their      *)
(* numbers. (A symmetry set would do that too, but not for liveness.)      *)
EXTENDS DeviceAdmin

InOrder == \A q, r \in Request : q < r /\ pc[r] # "idle" => pc[q] # "idle"

OrderedSpec == Init /\ [][Next /\ InOrder']_vars /\ Fairness

=============================================================================
