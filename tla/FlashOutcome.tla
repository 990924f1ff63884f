--------------------------- MODULE FlashOutcome ---------------------------
(***************************************************************************)
(* How a flash attempt can end, as the rest of the program sees it: the    *)
(* badge of its last status_changed, and the result that                   *)
(* _on_worker_finished derives from its finished_flash for the history.    *)
(***************************************************************************)

Results == {"Completed", "Cancelled", "Failed"}

\* The badge of a run that did not succeed is Cancelled whenever a cancel was
\* requested by the time it ends (FlashWorker._finish), while the history
\* result follows the message the worker had already chosen.
EndingsUnknown(cancel) == {[badge |-> "Error", result |-> "Error"]}  \* mutant: new status

Endings(cancel) ==
    {[badge |-> "Completed", result |-> "Completed"]} \cup
    (IF cancel
     THEN {[badge |-> "Cancelled", result |-> "Cancelled"],
           [badge |-> "Cancelled", result |-> "Failed"]}
     ELSE {[badge |-> "Failed", result |-> "Failed"]})
=============================================================================
