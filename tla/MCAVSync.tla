------------------------------ MODULE MCAVSync ------------------------------
(* A small instance of AVSync: a screen and a speaker that send to one      *)
(* device and form a group.                                                 *)
EXTENDS AVSync, TLC

MCSceneOf == [c \in Client |-> c]
MCDevOf == [c \in Client |-> "d1"]

=============================================================================
