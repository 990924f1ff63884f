--------------------------- MODULE SettingsPanel ---------------------------
(***************************************************************************)
(* The Device Settings and Security panels of the main window beside the   *)
(* flash scheduler: when are their fields locked?                          *)
(* (app/ui/device_settings_widget.py, app/ui/main_window.py)               *)
(*                                                                         *)
(* The lock is a copy of is_busy(), taken when a device is selected and    *)
(* again whenever one of its status changes reaches the main window.  Every*)
(* step of FlashController either leaves the lock alone or delivers a      *)
(* status and so takes the copy anew.                                      *)
(***************************************************************************)
EXTENDS FlashController

CONSTANT NoDevice   \* no row is selected

ASSUME PanelAssumption == NoDevice \notin Devices

VARIABLES
    selected,   \* the device the panels show, or NoDevice
    locked      \* _locked: are their fields disabled?

panelVars == <<vars, selected, locked>>

PanelTypeOK ==
    /\ TypeOK
    /\ selected \in Devices \cup {NoDevice}
    /\ locked \in BOOLEAN

PanelInit == Init /\ selected = NoDevice /\ locked = FALSE

\* _on_device_selected
Select(d) ==
    /\ selected' = d
    /\ locked' = (d # NoDevice /\ IsBusy(d))
    /\ UNCHANGED vars

\* _on_status_changed for device d: the lock is what is_busy() says now.
\* busyNow is that answer at the moment the slot runs.
RefreshLockByStatus(d, busyNow) ==                       \* mutant: only unlocks
    locked' = IF d = selected THEN locked /\ busyNow ELSE locked

RefreshLock(d, busyNow) ==
    locked' = IF d = selected THEN busyNow ELSE locked

PanelDeliverStatus ==
    /\ DeliverStatus
    /\ RefreshLock(Head(inbox).dev, IsBusy(Head(inbox).dev))

\* A device cancelled in the queue has left it when its status is emitted.
PanelCancelQueued(d) ==
    /\ CancelQueued(d)
    /\ RefreshLock(d, FALSE)

PanelCancelAll ==
    /\ CancelAll
    /\ IF selected \in Queued THEN RefreshLock(selected, FALSE) ELSE UNCHANGED locked

\* The steps that emit no status to the main window: start_batch, and the
\* launch of a queued device, set runtime.status themselves.
Silent ==
    \/ \E devices \in SUBSET Devices, cap \in Caps : StartBatch(devices, cap)
    \/ \E d \in Devices : WorkerActive(d) \/ WorkerFinish(d) \/ CancelRunning(d)
    \/ DeliverFinished

PanelNext ==
    \/ \E d \in Devices \cup {NoDevice} : Select(d)
    \/ PanelDeliverStatus /\ UNCHANGED selected
    \/ (\E d \in Devices : PanelCancelQueued(d)) /\ UNCHANGED selected
    \/ PanelCancelAll /\ UNCHANGED selected
    \/ Silent /\ UNCHANGED <<selected, locked>>

PanelSpec == PanelInit /\ [][PanelNext]_panelVars

PanelDeliver ==
    \/ PanelDeliverStatus /\ UNCHANGED selected
    \/ DeliverFinished /\ UNCHANGED <<selected, locked>>

\* The fairness of FlashController: selecting a device keeps neither a worker
\* nor the event loop from going on.
PanelFairness ==
    /\ \A d \in Devices :
          /\ WF_panelVars(WorkerActive(d) /\ UNCHANGED <<selected, locked>>)
          /\ WF_panelVars(WorkerFinish(d) /\ UNCHANGED <<selected, locked>>)
    /\ WF_panelVars(PanelDeliver)

FairPanelSpec == PanelSpec /\ PanelFairness

-----------------------------------------------------------------------------
(* Properties. *)

\* While the badge of the selected device shows a flash under way (Preparing
\* to Verifying) its panel is locked, whichever came first, the selection or
\* the upload: no field of it can be changed under its FlashWorker's feet.
ActiveIsLocked ==
    /\ PanelTypeOK
    /\ selected # NoDevice /\ status[selected] = "Active" => locked

\* What the manual says: "Wait for it to finish or cancel it first; the panel
\* unlocks automatically the moment it's no longer busy."
LockedOnlyWhileBusy == locked => IsBusy(selected)
=============================================================================
