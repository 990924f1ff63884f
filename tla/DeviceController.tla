------------------------- MODULE DeviceController -------------------------
(***************************************************************************)
(* The device list of a project and its undo history:                      *)
(* app/controllers/device_controller.py with undo_stack.py, and the parts  *)
(* of app/ui/main_window.py that decide when a device may be edited and    *)
(* what an edit is compared with (the "pre-edit snapshot").                *)
(*                                                                         *)
(* All of it runs on the main thread.  What makes it hard is that the      *)
(* history stores whole device lists, runtime status included, while       *)
(* flashes start and end in between, and that the settings panels change   *)
(* the selected device in place and only then report it.                   *)
(*                                                                         *)
(* A device's persisted fields (name, port, firmware, tags, security) are  *)
(* one value; the order of the list is left out.  The flash controller is  *)
(* here only as the set of busy devices: module FlashController has it.    *)
(***************************************************************************)
EXTENDS Integers, SequencesExt

CONSTANTS
    Ids,        \* device ids; new_uuid picks one that is not in use
    Configs,    \* the values a device's persisted fields can take
    NoDevice,   \* no row is selected
    MaxDepth    \* bound: the largest "Undo History Depth" in Settings

ASSUME DeviceAssumption ==
    /\ NoDevice \notin Ids
    /\ MaxDepth \in Nat \ {0}

VARIABLES
    devices,    \* project.devices: id -> [config, status]
    undo,       \* _undo: entries [before, after], oldest first
    redo,       \* _redo: the entry to redo next is the last
    depth,      \* max_depth
    selected,   \* the device the panels show, or NoDevice
    baseline,   \* _pre_edit_snapshot of the selected device, or NoDevice
    busy,       \* the devices FlashController.is_busy() says are busy
    profiled    \* has a profile been applied since the history was empty?

vars == <<devices, undo, redo, depth, selected, baseline, busy, profiled>>

Device == [config : Configs, status : {"Idle", "Active"}]
DeviceList == UNION {[S -> Device] : S \in SUBSET Ids}
Entry == [before : DeviceList, after : DeviceList]

TypeOK ==
    /\ devices \in DeviceList
    /\ undo \in Seq(Entry)
    /\ redo \in Seq(Entry)
    /\ depth \in 1..MaxDepth
    /\ selected \in DOMAIN devices \cup {NoDevice}
    /\ baseline \in Device \cup {NoDevice}
    /\ busy \in SUBSET Ids
    /\ profiled \in BOOLEAN

Present == DOMAIN devices

\* The persisted part of a device list: what to_dict() would compare.
ConfigsOf(list) == [d \in DOMAIN list |-> list[d].config]

\* UndoStack.push: the newest entry last, the oldest trimmed, redo cleared.
Trim(s, n) == IF Len(s) > n THEN SubSeq(s, Len(s) - n + 1, Len(s)) ELSE s

PushKeepsRedo(before, after) ==                             \* mutant: redo kept
    /\ undo' = Trim(Append(undo, [before |-> before, after |-> after]), depth)
    /\ UNCHANGED redo
PushUntrimmed(before, after) ==                             \* mutant: no trim
    /\ undo' = Append(undo, [before |-> before, after |-> after])
    /\ redo' = <<>>

Push(before, after) ==
    /\ undo' = Trim(Append(undo, [before |-> before, after |-> after]), depth)
    /\ redo' = <<>>

\* DevicePanel.rebuild drops the selection, and with it the baseline.
Deselect == selected' = NoDevice /\ baseline' = NoDevice

Init ==
    /\ devices = << >>
    /\ undo = <<>>
    /\ redo = <<>>
    /\ depth = MaxDepth
    /\ selected = NoDevice
    /\ baseline = NoDevice
    /\ busy = {}
    /\ profiled = FALSE

-----------------------------------------------------------------------------
(* The operations of DeviceController.  Each pushes one entry. *)

\* Several devices at once appear in the list: add_device, duplicate_device,
\* import_from_csv and import_from_zip_bundle.
AddDevices(new) ==
    /\ devices' = [d \in Present \cup DOMAIN new |->
                      IF d \in Present THEN devices[d]
                      ELSE [config |-> new[d], status |-> "Idle"]]
    /\ Push(devices, devices')
    /\ Deselect
    /\ UNCHANGED <<depth, busy, profiled>>

\* remove_devices, which MainWindow._on_remove_devices only gets to call for
\* devices that are not busy.  One of the rows left may be selected then.
RemoveDevices(out) ==
    /\ out # {} /\ out \subseteq Present
    /\ out \cap busy = {}
    /\ devices' = Restrict(devices, Present \ out)
    /\ Push(devices, devices')
    /\ \/ Deselect
       \/ \E d \in Present \ out : selected' = d /\ baseline' = devices[d]
    /\ UNCHANGED <<depth, busy, profiled>>

\* What _exclude_busy_devices and _is_device_busy leave of the targets.
EditableAll(targets) == targets                             \* mutant: no check

Editable(targets) == targets \ busy

\* Batch Edit, tags and Assign Firmware Set: the fields of the targets are
\* overwritten, busy targets are skipped, and nothing is done when the preview
\* shows no change.
BatchEdit(targets, value) ==
    LET edited == Editable(targets)
    IN  /\ edited \subseteq Present
        /\ \E d \in edited : devices[d].config # value
        /\ devices' = [d \in Present |->
                          IF d \in edited THEN [devices[d] EXCEPT !.config = value]
                          ELSE devices[d]]
        /\ Push(devices, devices')
        /\ Deselect
        /\ UNCHANGED <<depth, busy, profiled>>

\* undo: the device list becomes the entry's before snapshot, wholesale.
UndoEdit ==
    /\ undo # <<>>
    /\ devices' = Last(undo).before
    /\ redo' = Append(redo, Last(undo))
    /\ undo' = Front(undo)
    /\ Deselect
    /\ UNCHANGED <<depth, busy, profiled>>

\* redo: the same with the after snapshot; the undo stack is not trimmed.
RedoSnapshotBefore == Last(redo).before                     \* mutant: wrong snapshot

RedoSnapshot == Last(redo).after

RedoEdit ==
    /\ redo # <<>>
    /\ devices' = RedoSnapshot
    /\ undo' = Append(undo, Last(redo))
    /\ redo' = Front(redo)
    /\ Deselect
    /\ UNCHANGED <<depth, busy, profiled>>

\* refresh_undo_stack_depth after Settings: only the undo stack is trimmed.
SetDepth(n) ==
    /\ depth' = n
    /\ undo' = Trim(undo, n)
    /\ UNCHANGED <<devices, redo, selected, baseline, busy, profiled>>

\* set_project: another device list, no history.
SetProject(list) ==
    /\ devices' = list
    /\ undo' = <<>>
    /\ redo' = <<>>
    /\ Deselect
    /\ profiled' = FALSE
    /\ UNCHANGED <<depth, busy>>

-----------------------------------------------------------------------------
(* The panels of the main window. *)

\* _on_device_selected: the panels get the device, the baseline its copy.
Select(d) ==
    /\ d \in Present \cup {NoDevice}
    /\ selected' = d
    /\ baseline' = IF d = NoDevice THEN NoDevice ELSE devices[d]
    /\ UNCHANGED <<devices, undo, redo, depth, busy, profiled>>

\* A panel commits a field of the selected device (the Firmware panel also
\* while the device is busy); push_device_edit_undo compares it with the
\* baseline and pushes the list with the baseline put back in.
NextBaselineStale == baseline                               \* mutant: no re-baseline

NextBaseline == devices'[selected]

PanelEdit(value) ==
    /\ selected # NoDevice
    /\ devices' = [devices EXCEPT ![selected].config = value]
    /\ IF value = baseline.config
       THEN UNCHANGED <<undo, redo>>
       ELSE Push([devices' EXCEPT ![selected] = baseline], devices')
    /\ baseline' = NextBaseline
    /\ UNCHANGED <<depth, selected, busy, profiled>>

\* Devices -> Firmware Profiles... -> Apply, for a device that is not busy:
\* MainWindow changes the device in place and pushes nothing.
ApplyProfile(value) ==
    /\ selected # NoDevice /\ selected \notin busy
    /\ devices' = [devices EXCEPT ![selected].config = value]
    /\ profiled' = TRUE
    /\ UNCHANGED <<undo, redo, depth, selected, baseline, busy>>

-----------------------------------------------------------------------------
(* Flashing, as far as the device list sees it. *)

StartFlash(d) ==
    /\ d \in Present \ busy
    /\ busy' = busy \cup {d}
    /\ devices' = [devices EXCEPT ![d].status = "Active"]
    /\ UNCHANGED <<undo, redo, depth, selected, baseline, profiled>>

\* The terminal status reaches MainWindow, which looks the device up in the
\* list as it is now: it may be gone, or be another object.
EndFlash(d) ==
    /\ d \in busy
    /\ busy' = busy \ {d}
    /\ devices' = IF d \in Present THEN [devices EXCEPT ![d].status = "Idle"]
                  ELSE devices
    /\ UNCHANGED <<undo, redo, depth, selected, baseline, profiled>>

-----------------------------------------------------------------------------

\* Ids no snapshot of the history has used.
Unused == {d \in Ids \ (Present \cup busy) :
              \A e \in ToSet(undo) \cup ToSet(redo) :
                  d \notin DOMAIN e.before \cup DOMAIN e.after}

\* A loaded project shows every device as idle, even one that is being flashed
\* when its own project is opened again: the status is not persisted.
LoadedLists == UNION {[S -> [config : Configs, status : {"Idle"}]] : S \in SUBSET Ids}

Next ==
    \/ \E S \in (SUBSET Unused) \ {{}} : \E new \in [S -> Configs] : AddDevices(new)
    \/ \E out \in SUBSET Present : RemoveDevices(out)
    \/ \E targets \in SUBSET Present, value \in Configs : BatchEdit(targets, value)
    \/ UndoEdit
    \/ RedoEdit
    \/ \E n \in 1..MaxDepth : SetDepth(n)
    \/ \E list \in LoadedLists : SetProject(list)
    \/ \E d \in Present \cup {NoDevice} : Select(d)
    \/ \E value \in Configs : PanelEdit(value)
    \/ \E value \in Configs : ApplyProfile(value)
    \/ \E d \in Present : StartFlash(d)
    \/ \E d \in busy : EndFlash(d)

Spec == Init /\ [][Next]_vars

-----------------------------------------------------------------------------
(* Properties. *)

\* Every entry of the history starts where the one before it ended, and the
\* device list is where the newest one ended: no undo can silently take back
\* more than the operation its label names.  (A firmware profile is applied
\* behind the history's back, so this holds until one is.)
OneTimeline == ~profiled =>
    /\ \A i \in 1..(Len(undo) - 1) :
          ConfigsOf(undo[i].after) = ConfigsOf(undo[i + 1].before)
    /\ undo # <<>> => ConfigsOf(Last(undo).after) = ConfigsOf(devices)
    /\ \A i \in 1..(Len(redo) - 1) :
          ConfigsOf(redo[i + 1].after) = ConfigsOf(redo[i].before)
    /\ redo # <<>> => ConfigsOf(Last(redo).before) = ConfigsOf(devices)

\* The baseline a panel's next edit will be compared with is the device as
\* the panel shows it, profiles apart.
BaselineFresh ==
    selected # NoDevice /\ ~profiled => baseline.config = devices[selected].config

\* However the depth is changed, undo and redo together never hold more
\* snapshots than the deepest setting allows.
HistoryBounded == TypeOK /\ Len(undo) + Len(redo) <= MaxDepth

\* The history is the user's own edits, each as long as its label says, and the
\* next one will be too.
HistoryIsTrue == OneTimeline /\ BaselineFresh /\ HistoryBounded

\* Apart from undo, redo and opening another project, nothing removes a device
\* that is being flashed or changes its settings, but the Firmware panel that
\* shows it: its worker still holds the object.
BusySpared ==
    [][UndoEdit \/ RedoEdit \/ (\E list \in LoadedLists : SetProject(list)) \/
       \A d \in busy \cap Present :
          /\ d \in Present'
          /\ devices'[d].config # devices[d].config => d = selected]_vars

\* Undo and redo move along one line of device lists, until a profile is
\* applied and again from the next project on.
Line == INSTANCE EditTimeline WITH
    Empty <- << >>,
    States <- UNION {[S -> Configs] : S \in SUBSET Ids},
    past <- [i \in 1..Len(undo) |-> ConfigsOf(undo[i].before)],
    present <- ConfigsOf(devices),
    future <- [i \in 1..Len(redo) |-> ConfigsOf(redo[Len(redo) + 1 - i].after)]

ImplementsTimeline == Line!Init /\ [][profiled' \/ Line!Next]_(Line!lineVars)

=============================================================================
