----------------------------- MODULE MainWindow -----------------------------
(***************************************************************************)
(* The main window (app/ui/main_window.py): the device table and its       *)
(* panels under the two interface locks, while devices are flashed and the *)
(* device list is changed, undone and replaced.                            *)
(***************************************************************************)
EXTENDS InterfaceLock, DeviceTable

ASSUME SameDevices == Devices = Ids

vars == <<lockVars, tableVars>>

TypeOK == LockTypeOK /\ TableTypeOK

Init == LockInit /\ TableInit

-----------------------------------------------------------------------------
(* Each operation is one of the table, with what it does to the rest. *)

\* A rebuild and the removal of the row that is shown end the selection.
Deselect == ShowDevice(NoDevice, FALSE)

\* _on_device_selected
SelectRow(d) ==
    /\ menusOn
    /\ ShowDevice(d, d \in busy)
    /\ UNCHANGED <<keyVars, factory, overlay, windows, canUndo, actionVars, deletionOn, tableVars>>

\* Adding and duplicating stay possible under Settings Lock.
Add(d) ==
    /\ menusOn
    /\ AddDevice(d)
    /\ Deselect
    /\ RefreshUndo(TRUE)
    /\ UNCHANGED <<keyVars, factory, overlay, windows, editOn, menusOn, deletionOn>>

\* Another row that was selected with it may be shown after a removal.
RemoveRows(out) ==
    /\ menusOn /\ deletionOn
    /\ RemoveDevices(out)
    /\ IF panel \in out
       THEN \E d \in {NoDevice} \cup (Listed \ out) : ShowDevice(d, d \in busy)
       ELSE UNCHANGED panelVars
    /\ RefreshUndo(TRUE)
    /\ UNCHANGED <<keyVars, factory, overlay, windows, editOn, menusOn, deletionOn>>

\* Edit > Undo and Redo, whose history may be at its end then
UndoOrRedo(devices) ==
    /\ undoOn /\ canUndo
    /\ ResetDevices(devices)
    /\ Deselect
    /\ \E can \in BOOLEAN : RefreshUndo(can)
    /\ UNCHANGED <<keyVars, factory, overlay, windows, editOn, menusOn, deletionOn>>

\* Opening a project, from a menu or handed over by the system, which no lock
\* stops
OpenProject(devices) ==
    /\ ResetDevices(devices)
    /\ Deselect
    /\ RefreshUndo(FALSE)
    /\ UNCHANGED <<keyVars, factory, overlay, windows, editOn, menusOn, deletionOn>>

Sort ==
    /\ menusOn
    /\ SortTable
    /\ Deselect
    /\ UNCHANGED <<keyVars, factory, overlay, windows, canUndo, actionVars, deletionOn>>

\* A field of a panel is committed, and with it an undo step.
CommitField ==
    /\ menusOn
    /\ fieldsOn \/ firmwareOn
    /\ RefreshPanels(factory)
    /\ RefreshUndo(TRUE)
    /\ UNCHANGED <<keyVars, factory, overlay, windows, editOn, menusOn, firmwareOn, deletionOn,
                   tableVars>>

Upload(d) ==
    /\ menusOn
    /\ StartUpload(d)
    /\ UNCHANGED lockVars

\* _on_status_changed
StatusArrives(d) ==
    /\ \/ StatusActive(d) /\ LockPanel(d, TRUE)
       \/ \E still \in BOOLEAN : StatusOver(d, still) /\ LockPanel(d, still)
    /\ UNCHANGED <<keyVars, factory, overlay, windows, canUndo, actionVars, firmwareOn, deletionOn>>

Next ==
    \/ LockNext /\ UNCHANGED tableVars
    \/ \E d \in Listed \cup {NoDevice} : SelectRow(d)
    \/ \E d \in Devices : Add(d)
    \/ \E out \in SUBSET Listed : RemoveRows(out)
    \/ \E devices \in Lists : UndoOrRedo(devices) \/ OpenProject(devices)
    \/ Sort
    \/ CommitField
    \/ \E d \in Devices : Upload(d) \/ StatusArrives(d)
    \/ \E d \in Devices : NoLongerBusy(d) /\ UNCHANGED lockVars

Spec == Init /\ [][Next]_vars

-----------------------------------------------------------------------------
(* Properties. *)

\* A lock holds whatever is selected, refreshed, flashed, added or opened
\* under it: under Settings Lock no field of a panel, no control of the
\* Firmware panel and no Remove is enabled; under Full Lock nothing is, no
\* window is open beside it, and only the key is left; and no field of a
\* device is enabled while it is being written to.
LocksHold ==
    /\ factory => ~fieldsOn /\ ~firmwareOn /\ ~deletionOn
    /\ overlay => ~menusOn /\ ~editOn /\ ~undoOn /\ ~windows
    /\ panel \in active => ~fieldsOn

\* Nobody is locked out, and a lock ends only with the key set last: while one
\* is on there is a key, and what is stored is of the key that was set last,
\* whether it has been converted from the old form or not.  Under the Settings
\* Lock a new key may be set by anybody, for its action stays enabled.
OnlyTheKeyOpens ==
    /\ [](stored.key = lastSet /\ (factory \/ overlay => KeyIsSet /\ lastSet # NoKey))
    /\ [][(factory /\ ~factory') \/ (overlay /\ ~overlay') => entered' = lastSet]_vars

\* After any sequence of additions, removals, undos and sorts the dictionary
\* finds every device in its row, so a status is shown with the device it is
\* of; and a time that is measured is of the attempt that runs, also when the
\* device was out of the table as its last one ended.
TableIsTrue ==
    /\ TypeOK
    /\ rows = Display(list, sorted)
    /\ DOMAIN rowOf = Listed
    /\ \A d \in Listed : rowOf[d] \in DOMAIN rows /\ rows[rowOf[d]] = d
    /\ \A d \in Listed : started[d] # "earlier"

\* What the manual says of Full Lock and Settings Lock, "The two modes are
\* independent and can be combined": under Settings Lock the actions that
\* change what is flashed stay disabled.
SettingsLockHolds == factory => ~editOn
=============================================================================
