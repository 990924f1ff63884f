------------------------ MODULE MCDeviceController ------------------------
(* TLC instances of DeviceController. *)
EXTENDS DeviceController, TLC

\* Neither ids nor configurations are told apart.
DeviceSymmetry == Permutations(Ids) \cup Permutations(Configs)

\* Bound: once a profile has been applied the history is followed no further
\* than one entry.
ProfiledIsShort == profiled => Len(undo) + Len(redo) <= 1
=============================================================================
