----------------------------- MODULE LossyFifo -----------------------------
(***************************************************************************)
(* What a stage of the media path promises: frames are numbered as they    *)
(* are offered, and come out in that order, each at most once; any number  *)
(* of them may be lost on the way.                                         *)
(***************************************************************************)
EXTENDS Naturals

VARIABLES in,   \* the last frame offered
          out,  \* the last frame delivered
          got   \* how often a frame was delivered

Init == in = 0 /\ out = 0 /\ got = 0

Offer == in' = in + 1 /\ UNCHANGED <<out, got>>

Deliver == out' \in (out + 1) .. in /\ got' = got + 1 /\ UNCHANGED in

Next == Offer \/ Deliver

Spec == Init /\ [][Next]_<<in, out, got>>

=============================================================================
