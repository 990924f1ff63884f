------------------------- MODULE MCFlashController -------------------------
(* TLC instances of FlashController. *)
EXTENDS FlashController, TLC

\* No action or invariant of FlashController tells devices apart.
DeviceSymmetry == Permutations(Devices)
=============================================================================
