----------------------------- MODULE DeviceTable -----------------------------
(***************************************************************************)
(* The table of devices: DevicePanel (app/ui/device_panel.py) and the      *)
(* slots of the main window that keep it in step with the device list.     *)
(*                                                                         *)
(* The panel finds the row of a device by a dictionary of its own, shifts  *)
(* it by hand when a row goes, and keeps the time each flash was first     *)
(* seen active in another one, which a row that goes leaves behind.        *)
(***************************************************************************)
EXTENDS Naturals, SequencesExt, ListSelection

CONSTANT ByName     \* the ids of the devices there may be, in the order of their names

Ids == ToSet(ByName)

ASSUME TableAssumption == ByName \in Seq(Ids) /\ IsInjective(ByName)

VARIABLES
    list,       \* project.devices
    sorted,     \* is the table sorted by name?
    rows,       \* the device of each row
    rowOf,      \* _row_by_device_id
    busy,       \* the devices flash_controller.is_busy() is true of
    active,     \* those whose last status was one of ACTIVE_STATUSES
    started     \* _start_times: "none", "this", or "earlier" when it is left
                \* from an attempt that another one has followed

tableVars == <<list, sorted, rows, rowOf, busy, active, started>>

Lists == UNION {SetToSeqs(S) : S \in SUBSET Ids}

TableTypeOK ==
    /\ list \in Lists
    /\ sorted \in BOOLEAN
    /\ rows \in Seq(Ids)
    /\ DOMAIN rowOf \subseteq Ids
    /\ busy \subseteq Ids /\ active \subseteq Ids
    /\ started \in [Ids -> {"none", "this", "earlier"}]

TableInit ==
    /\ list = <<>> /\ sorted = FALSE
    /\ rows = <<>> /\ rowOf = <<>>
    /\ busy = {} /\ active = {}
    /\ started = [d \in Ids |-> "none"]

Listed == ToSet(list)

-----------------------------------------------------------------------------

\* _get_sorted_devices.  A device that is renamed stays where it is until the
\* next rebuild; here names do not change.
Display(devices, byName) ==
    IF byName THEN Keep(ByName, {i \in DOMAIN ByName : Contains(devices, ByName[i])})
    ELSE devices

\* The dictionary that _add_row makes, row by row
RowsOf(table) == [d \in ToSet(table) |-> CHOOSE row \in DOMAIN table : table[row] = d]

\* rebuild
Rebuild(devices, byName) ==
    /\ rows' = Display(devices, byName)
    /\ rowOf' = RowsOf(rows')

\* _on_device_added: a new device, a duplicate or an imported one
AddDevice(d) ==
    /\ d \notin Listed \cup busy
    /\ list' = Append(list, d)
    /\ Rebuild(list', sorted)
    /\ UNCHANGED <<sorted, busy, active, started>>

\* remove_device_row
RowRemovedUnshifted(table, d) ==                            \* mutant: the dictionary is not shifted
    IF d \notin DOMAIN table.rowOf THEN table
    ELSE [rows |-> RemoveAt(table.rows, table.rowOf[d]),
          rowOf |-> [e \in DOMAIN table.rowOf \ {d} |-> table.rowOf[e]]]

RowRemoved(table, d) ==
    IF d \notin DOMAIN table.rowOf THEN table
    ELSE LET row == table.rowOf[d]
         IN  [rows |-> RemoveAt(table.rows, row),
              rowOf |-> [e \in DOMAIN table.rowOf \ {d} |->
                            IF table.rowOf[e] > row THEN table.rowOf[e] - 1 ELSE table.rowOf[e]]]

\* One device_removed each, in the order they were selected in
AfterRemovals(table, gone) ==
    LET after[n \in 0..Len(gone)] ==
            IF n = 0 THEN table ELSE RowRemoved(after[n - 1], gone[n])
    IN  after[Len(gone)]

\* _on_remove_devices, of those that are not busy
RemoveDevices(out) ==
    /\ out # {}
    /\ out \subseteq Listed \ busy
    /\ list' = Keep(list, {i \in DOMAIN list : list[i] \notin out})
    /\ \E gone \in SetToSeqs(out) :
          LET left == AfterRemovals([rows |-> rows, rowOf |-> rowOf], gone)
          IN  rows' = left.rows /\ rowOf' = left.rowOf
    /\ UNCHANGED <<sorted, busy, active, started>>

\* _on_devices_reset after undo, redo and opening a project: which list it is
\* now, DeviceController tells; it may lack devices that are being flashed.
ResetDevices(devices) ==
    /\ list' = devices
    /\ Rebuild(devices, sorted)
    /\ UNCHANGED <<sorted, busy, active, started>>

\* _on_sort_mode_changed
SortTable ==
    /\ sorted' = ~sorted
    /\ Rebuild(list, sorted')
    /\ UNCHANGED <<list, busy, active, started>>

-----------------------------------------------------------------------------
(* Flashing, as far as the table sees it. *)

ResetProgressOnly(times, d) == times                        \* mutant: the start time stays

\* reset_progress
Reset(times, d) == IF d \in DOMAIN rowOf THEN [times EXCEPT ![d] = "none"] ELSE times

\* An attempt begins: what is still noted is of an earlier one.
Aged(times, d) == [times EXCEPT ![d] = IF @ = "none" THEN "none" ELSE "earlier"]

\* _upload_device_ids and start_batch, which passes over a device that is busy
StartUpload(d) ==
    /\ d \in Listed
    /\ busy' = busy \cup {d}
    /\ started' = IF d \in busy THEN Reset(started, d) ELSE Aged(Reset(started, d), d)
    /\ UNCHANGED <<list, sorted, rows, rowOf, active>>

\* set_status with one of ACTIVE_STATUSES
StatusActive(d) ==
    /\ d \in busy
    /\ active' = active \cup {d}
    /\ started' = IF d \in DOMAIN rowOf /\ started[d] = "none"
                  THEN [started EXCEPT ![d] = "this"] ELSE started
    /\ UNCHANGED <<list, sorted, rows, rowOf, busy>>

\* set_status with another; the device stops being busy with it, or later.
StatusOver(d, stillBusy) ==
    /\ d \in busy
    /\ active' = active \ {d}
    /\ busy' = IF stillBusy THEN busy ELSE busy \ {d}
    /\ started' = IF d \in DOMAIN rowOf THEN [started EXCEPT ![d] = "none"] ELSE started
    /\ UNCHANGED <<list, sorted, rows, rowOf>>

NoLongerBusy(d) ==
    /\ d \in busy \ active
    /\ busy' = busy \ {d}
    /\ UNCHANGED <<list, sorted, rows, rowOf, active, started>>
=============================================================================
