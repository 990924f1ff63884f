-------------------------- MODULE WorkerContract --------------------------
(***************************************************************************)
(* What FlashController assumes of one FlashWorker: it starts, reports     *)
(* that it is at work, and ends once with a badge and a history result     *)
(* that fit together (Endings); a cancel may be requested at any time.     *)
(* FlashController's WorkerActive, WorkerFinish and CancelRunning are      *)
(* these actions for each device; FlashWorker is shown to implement them.  *)
(***************************************************************************)
EXTENDS FlashOutcome

VARIABLES
    phase,      \* "started", "active" or "finished"
    cancel,     \* has a cancel been requested?
    ending      \* the [badge, result] the run ended with, or NoEnding

contractVars == <<phase, cancel, ending>>

NoEnding == [badge |-> "none", result |-> "none"]

Init ==
    /\ phase = "started"
    /\ cancel = FALSE
    /\ ending = NoEnding

Activate ==
    /\ phase = "started"
    /\ phase' = "active"
    /\ UNCHANGED <<cancel, ending>>

Cancel ==
    /\ cancel' = TRUE
    /\ UNCHANGED <<phase, ending>>

End ==
    /\ phase = "active"
    /\ phase' = "finished"
    /\ ending' \in Endings(cancel)
    /\ UNCHANGED cancel

Next == Activate \/ Cancel \/ End

Spec == Init /\ [][Next]_contractVars
=============================================================================
