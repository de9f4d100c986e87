----------------------------- MODULE MCAVCenter -----------------------------
(* A small instance of AVCenter: two engines that send to one device.       *)
EXTENDS AVCenter, TLC

MCListener == {Center}
MCDevOf == [c \in Client |-> "d1"]

=============================================================================
