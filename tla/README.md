# Verification of ESP32 Multi Flash Manager

TLA+ models of the parts of the application whose correctness depends on the
order of events (the batch scheduler, the worker that drives esptool, the undo
history, eFuse provisioning of one device and of many, the life of a project,
serial monitors, the dialogs that hold a port, the main window under its two
locks, firmware lists and their merging), and of the algorithms whose result has
to be right (project files, imports, security commands, settings, previews).
They are checked by TLC on small instances, and every property checked of the
scheduler, the panels' lock, the worker, the history, provisioning, the dialogs
that hold a port, project sessions, serial monitors, the main window, the
firmware lists, settings, security settings and edits of the bench, but liveness,
is proved with TLAPS for every number of devices, ports, dialogs, runs, keys,
rows, files and writes (section 4). The program is a PySide6 desktop application in Python
(`src/app`, about 15 000 lines); paths below are relative to `src/app`.

## 1. Inventory: the system and its parts

The main thread runs Qt's event loop, and every controller and every widget
lives on it. Work that blocks runs in `QThread` workers, which share nothing
with the main thread but a cancel flag, the reference to their subprocess and
queued signals: a signal emitted in a worker is delivered by the event loop
later, in the order posted.

| Component | State it keeps | Operations | Interacts with |
|---|---|---|---|
| Flash scheduler, `controllers/flash_controller.py` | queue, `_workers`, `_busy`, `_batch_size`, `_batch_results` | `start_batch`, `cancel`, `cancel_all`, `_on_worker_finished` | starts workers; gets their signals; tells MainWindow and the history panel |
| Flash worker, `workers/flash_worker.py`, and `FlashProcess`, `flash_engine/esptool_wrapper.py` | cancel flag, process, reader thread with its line queue | run, `request_cancel`, `terminate`, `wait` | esptool's process; posts `status_changed`, `finished_flash` |
| Device list and undo history, `controllers/device_controller.py`, `controllers/undo_stack.py` | the devices, the undo and redo stacks, the panels' baseline | add, duplicate, import, remove, batch edit, tags, firmware sets, undo, redo, depth, project change | the panels edit devices in place; the scheduler holds the same objects |
| Settings and Security panels, `ui/device_settings_widget.py`, `ui/security_settings_widget.py` | shown device, lock | select, commit, lock | `is_busy()` and status changes |
| Provisioning, `workers/security_worker.py`, `ui/provision_dialog.py`, `flash_engine/security_manager.py`, `utilities/key_vault.py` | run, cancel flag, key files, keychain | generate keys, burn eFuses, cancel, close | espsecure, espefuse: nothing it does can be undone |
| Batch provisioning, `controllers/provision_controller.py`, `ui/batch_provision_dialog.py` | a controller for every dialog opened: queue, workers, results; the dialog's buttons | start, Cancel All, close, hide | provisioning workers; the ports of the devices |
| Project lifecycle, `controllers/project_controller.py`, `project_manager/project_io.py`, `main.py` | project, path, dirty and migration flags; on disk the files, recovery slot and lock sidecars | new, open, save, Save As, autosave, recover, close | replaces the device list; coworkers' installations through the sidecars |
| Serial monitors, `ui/serial_monitor.py`, `MainWindow._monitor_ports` | windows, reader threads, text held back by Pause, bytes to send | open, connect, disconnect, pause, send, clear, close | a flash wants the same port |
| Firmware list, `models/firmware_model.py`, `ui/firmware_panel.py` | rows with address, enabled flag, cached size and missing flag | add, import, remove, duplicate, move, edit, merge | files a build changes; the command is built from the rows |
| Validation, `flash_engine/validator.py`, `firmware_manager/bin_merge.py` | none | checks before an upload and before a merge | rows, ports, monitors |
| Merge Bins, `ui/merge_bin_dialog.py`, `workers/merge_worker.py` | dialog, worker, process, cancel flag | merge, cancel, close | esptool's process; adds a row |
| Read worker and dialog, `workers/read_worker.py`, `ui/read_device_dialog.py` | process, cancel flag, the operation shown | run, cancel, close, hide | holds the port; says whether flash encryption is on |
| Port watcher, `workers/port_watcher.py` | known ports | poll | a port may vanish at any moment |
| Interface lock, `ui/lock_overlay.py`, `utilities/key_hashing.py`, `ui/main_window.py` | Settings Lock, Full Lock, the hash of the key, the enabled state of each widget | set the key, lock, unlock | selection, status changes, undo, everything that enables a widget |
| Device table, `ui/device_panel.py` | rows, the dictionary from device to row, start times, sort mode | rebuild, remove a row, status, progress | the device list; the scheduler's signals |
| Project file, `project_manager/project_io.py`, `models/` | none | to and from JSON, recent projects | files somebody else may have written |
| Imports, `project_manager/csv_import.py`, `zip_manifest_import.py` | a folder of extracted files | import from CSV, from a bundle | the device list |
| Security settings, `flash_engine/security_manager.py`, `ui/security_settings_widget.py` | the panel's controls | show, commit, check, build commands | provisioning, the validator |
| Settings, `utilities/app_settings.py`, `ui/settings_dialog.py` | `settings.json` and its copy in memory | getters, setValue, the dialog's OK | caps, timeouts, depth of the history |
| Bench checks and edits, `flash_engine/validator.py`, `DeviceController` | none | checks, previews, filters | before an upload, Batch Edit, Assign Firmware Set |
| History panel, profiles, updates, telemetry, logging, theme | files and widgets | | inputs of the above |

What is hard, and hard to test:

* **Concurrency.** Uploads, retries and cancels at any moment of a running
  batch; `request_cancel` raises a flag and then looks for a process while the
  worker looks at the flag and then creates one; the busy flag is the main
  thread's idea of a thread it has not joined.
* **Ordering.** The terminal status precedes `finished_flash`, and both are
  delivered later: what a listener sees of `is_busy()` differs between them.
* **Timeouts.** A stall timeout races a late line, the exit of the process and
  a cancel; `wait(timeout=10)` may give up on a process that lives.
* **Snapshots.** The undo history stores and restores whole device lists while
  flashes start and end in between.
* **Stale copies.** A row's size and missing flag are those of its last refresh;
  the panels' lock is a copy of `is_busy()`; a question on the screen may be
  about something that has meanwhile ended.
* **Irreversible steps.** A run of provisioning can fail, be cancelled,
  abandoned or repeated between two burns.
* **Crashes.** A project must survive one at any step of a save, autosave or
  recovery, and `settings.json` one at any write.
* **Widgets with two masters.** What one lock, a selection or a status change
  enables, another may have disabled; nothing derives the one from the other.
* **Hidden work.** Close and Esc hide a dialog whose burns or reads go on.
* **Foreign data.** Project files, settings, CSV files and bundles may hold
  anything, and every field is converted on the way in and on the way out.

Every hazard found, at its line, is in `PROJECT.json` under `hazards`, with the
properties that cover it or the reason why none does yet.

What makes each component correct: the scheduler runs no device twice, forgets
none, logs each attempt once and keeps the cap; the worker reports success only
if esptool succeeded, always ends, and leaves no process behind after a cancel;
undo and redo move along one line of device lists; no device is edited under
its worker; a monitor loses no data and never shares its port with an upload;
rows that pass validation can be written, and only a whole image is added by a
merge; provisioning reports what is true of the eFuses and loses no key;
a project is dropped only with consent, and what is called saved is on disk;
a batch of burns is booked exactly and launches nothing after a cancel; a lock
holds whatever happens under it and only the key ends it; the table shows a
status with its own device; a project comes back from its file as it was; a row
of an import is a device or an error; what passes the security checks can be
burned; a setting is in its range; a preview lists what an edit changes.

## 2. The modules

| Module | Models | Uses |
|---|---|---|
| `FlashOutcome` | how an attempt can end: badge and history result | |
| `FlashController` | the batch scheduler, with the workers as threads that post signals to an inbox | `FlashOutcome`, refines `FlashJobs` |
| `FlashJobs` | abstract specification: a pool of pending and running devices with a log | |
| `FlashController_proofs` | theorems about the scheduler, its records, the panels' lock, the worker and its contract | extends `SettingsPanel` and `FlashWorker` |
| `FlashWorker` | one run of the worker: its thread, the cancel, the process and its output, the join | `FlashOutcome`, refines `WorkerContract` |
| `WorkerContract` | abstract specification: what the scheduler assumes of a worker | `FlashOutcome` |
| `SettingsPanel` | the panels' lock beside the scheduler | extends `FlashController` |
| `DeviceController` | device list, undo history, panels' baseline, busy guards | refines `EditTimeline` |
| `EditTimeline` | abstract specification: one line of states with undo and redo | |
| `DeviceController_proofs` | theorems about the history | `DeviceController` |
| `Provisioning` | provisioning runs of one device, key files and eFuses | |
| `Provisioning_proofs` | theorems about provisioning runs, and about batches and dialogs | `Provisioning`, `PortDialogs` |
| `ProjectSession` | sessions of one installation: saves, autosave, recovery, questions, legacy files, lock sidecar, crashes | |
| `ProjectSession_proofs` | theorems about project sessions | `ProjectSession` |
| `SerialMonitor` | monitor windows, their readers, and uploads as far as ports are concerned | |
| `SerialMonitor_proofs` | theorems about monitors | `SerialMonitor` |
| `ListSelection` | a list without some of its entries: operators only | |
| `ListSelection_proofs` | lemmas: induction by hand, and what a list keeps and where | `ListSelection` |
| `FirmwareRows` | rows, both validators, what is written and merged: operators only | |
| `FirmwarePanel` | the panel's operations, the Merge Bins dialog, its worker and process, a build | extends `FirmwareRows`, `ListSelection` |
| `BatchProvision` | the controllers of all batch provisioning dialogs, with their workers and buttons | |
| `ReadDialog` | the read dialogs with their workers | |
| `PortDialogs` | both kinds of dialogs beside uploads | extends `BatchProvision`, instantiates `ReadDialog`, refines `FlashJobs` |
| `InterfaceLock` | Settings Lock, Full Lock, the key, the enabled widgets | |
| `DeviceTable` | rows, dictionary of rows, start times, sorting | extends `ListSelection` |
| `MainWindow` | the window's operations on both | extends `InterfaceLock`, `DeviceTable` |
| `MainWindow_proofs` | theorems about the locks, the table and the firmware lists | `MainWindow`, `FirmwarePanel`, `ListSelection_proofs` |
| `ProjectFile` | project to JSON and back, paths, limits, recent projects: operators only | extends `ListSelection` |
| `Imports` | CSV files and bundles: operators only | |
| `SecuritySettings` | checks, commands, the panel's controls, clone: operators only | |
| `AppSettings` | getters, boxes of the dialog, writes of the file: operators only | |
| `BenchEdits` | checks of the bench, previews and edits, filters: operators only | |
| `Records` | one task at a time: an input, and what these operators make of it | extends the five above |
| `Records_proofs` | theorems about project files, imports, settings, security settings and edits | `Records`, `ListSelection_proofs` |
| `MCFlashController`, `MCDeviceController`, `MCFirmwarePanel`, `MCMainWindow`, `MCRecords` | symmetry sets, files, addresses, the order of names and the tasks for TLC | |

How they fit together: `FlashController` abstracts each worker to
`WorkerActive`, `WorkerFinish` and `CancelRunning`; `FlashWorker` shows that
the real worker implements exactly these (`ImplementsContract`), that it always
ends (`RunsEnd`), which is the fairness
`FlashController` assumes, and both take the possible endings from
`FlashOutcome`. `SettingsPanel` adds the panel's variables to the scheduler's
steps. `DeviceController`, `PortDialogs` and `DeviceTable` keep of the scheduler
only the set of busy devices. `BatchProvision` abstracts each run of
`Provisioning` to an outcome, and each of its controllers implements the same
`FlashJobs` as the flash scheduler.

### Correspondence with the code

*FlashController.* `queue`, `busy`, `results` are `_queue`, `_busy`,
`_batch_results`; `batch` is the list whose length is `_batch_size`. `inbox` is
Qt's queue of posted signals. `thread` is what `isRunning()` and `wait()` see.
Each public method and each slot is one action, because the main thread runs
them to their end: `StartBatch`, `CancelQueued`, `CancelRunning`, `CancelAll`,
`DeliverStatus` (with MainWindow's slot), `DeliverFinished` (the whole of
`_on_worker_finished`, the launch of the next queued device and
`_maybe_finish_batch` included). The MAC address, progress and speed are left
out.

*FlashWorker.* `pc` is the position in `_run_impl` and `_finish`; the process
has an output that can be open or closed, unread lines (at most `MaxUnread`)
and an exit code; `canceller` and `handler` are the main thread inside
`request_cancel` and `_on_worker_finished`. A line of progress may end the run:
`_update_speed` converts the address of every enabled row, a row ticked meanwhile
may hold no number, and `except Exception` ends the run as failed and leaves the
process as it is (`UpdateSpeedRaises`, history variable `raised`). The text of a
line and the failure patterns are left out.

*DeviceController.* A device is one value for its persisted fields and a
runtime status; undo and redo entries hold whole lists as in the code. `busy`
is `FlashController.is_busy`. `profiled` is a history variable: a firmware profile
has been applied since the history was last emptied. The order of the list is
left out.

*Provisioning.* `pc[r]` is the position of run `r` in `_run_impl`; keys are
numbers, so that a key generated over another is seen; espefuse burns at any
moment while it runs.

*ProjectSession.* A project is its version number; `disk`, `slot` and `sidecar`
are the files; `question` is what the window asks before a command, under which
the event loop (autosave timer, files handed over by the system) goes on;
`saving` splits a save at the atomic `os.replace`. Two warnings come in the middle
of a handler and run the event loop there: a save to a file a coworker has open
warns between moving its lock and setting `path`, `dirty`, `legacy` and the slot
(`project_controller.py:164`), and opening a file with unsupported chips warns
before its lock is taken (line 119, `main_window.py:1327` and 1342, then 133). They
are the stack `boxes`; `SaveGoesOn` and `OpenGoesOn` are the halves behind them,
which go on with the file they were called with and whatever is in memory by then.
`protected`, `heir`, `consent`, `misled` (the system opened a file under a question
about another project) and `crossed` (it opened one under a box) are history.

*SerialMonitor.* One record of variables per port, for a port has at most one
window: `thread`, `running`, `outgoing` and `inbox` are the reader, its flag, its
list of writes and the signals it has posted; `taken` is what the swap under the
lock has taken. `stopping` is the main thread inside `stop()`. A reader whose
window has gone is `stray`. Uploads are the set `busy`. Data is numbered chunks;
decoding, search and saving are left out, and so is the change of a busy
device's port by undo, which `DeviceController` has.

*FirmwarePanel.* `firmware` is `device.firmware`, `disk` the files as byte sequences.
A check is made on some of the rows, a function of the places these rows have,
which is what the code's list of enabled or included entries is but for the gaps;
ranges are compared in the order the stable sort gives them (`Before`). `NewIds`
gives new rows ids nobody has, as `new_uuid` does; the order in which an imported
folder is listed is any that the addresses allow (`Scans`).
The dialog is modal, so panel operations need it closed; under the question of
`reject()` signals are still delivered, and a rejected dialog may be accepted
by a result that gets in before `exec()` returns. `worker` is the position in
`_run_impl`. esptool's process is external: it rejects overlaps, reads the
sources and writes the output, in an order that may empty an output that is
also a source. That merge-bin may rewrite the flash parameters in the image's
header is left out.

*BatchProvision, ReadDialog, PortDialogs.* `shown` and `readShown` are the modal
dialogs on the screen: while there is one no other is opened and no upload is
started, but workers go on. The controller of a dialog outlives it, so every
variable is indexed by the dialog. `worker[k][d]` is `_workers` and `_busy`
together, with a result that is under way; `CloseWindow` is `closeEvent`,
`CloseButton` is `reject()`, which calls none. Which devices a dialog
offers is a set, `eligible`: `start_batch` launches the first of the table's order
and queues the rest, and that order may be any. A user who does not confirm
changes nothing and is no step. A read that is "lost" has ended by the
`TimeoutExpired` nobody catches. `ProvisionController.cancel` of one device is
called from nowhere but `cancel_all`.

*InterfaceLock, DeviceTable, MainWindow.* Every widget that a handler enables or
disables has a variable of its own, and widgets that are set in the same calls
share one: the two panels' fields, the actions of `_factory_lock_actions` apart
from Undo and Redo (`editOn`), all other actions with the menu bar and the
central widget (`menusOn`). `entered` and `lastSet` are history variables. `rowOf`
is `_row_by_device_id`, built row by row (`RowsOf`) and shifted when rows go
(`AfterRemovals`, one removal after the other); `started` tells a start time of the attempt that runs
from one left by an earlier attempt. Which list an undo or a project brings is
any list, because `DeviceController` has that.

*Records.* A behaviour is one input and one step that converts it; the order of
things is in the other modules. A path is a drive and names, or so many parents
up and names; JSON is what `from_dict` tells apart; a key file is "none", "gone",
of a key's size or of another; numbers of settings are counted in halves, so that
a fraction is seen, and an infinity is beyond the largest float; the files of an
archive are paths. What depends on texts the models do not spell out is a
constant: `Bytes` and `Encodable` say how long a file with a content is and whether
UTF-8 can encode it, `MaxFileSize` is the limit of 25 MiB, `BinNames` the names
`*.bin` matches, `Lower` a name in lower case; `LargestInt` and `LargestFloat` are what
a `QSpinBox` and `float()` take at most. The proofs hold for any of them. Every property relates the
result to the input by a definition that is not the code's. `TypedTask` says what the
inputs are: objects of the program with any content. Of a preview the set of
devices is kept, not the order in which it lists them.

## 3. What is checked

| Run | Module, cfg | Shows |
|---|---|---|
| `flash_scheduler` | `MCFlashController`, `FlashScheduler` | 3 devices, caps 1 and 2, 2 batches started at any moment. Queue and busy flags exclusive, no stranded queue, signals in order (`SchedulerInv`); one log entry per attempt, no stuck badge, no result of a busy device (`RecordsAgree`); cap and exact report for a batch started on an idle bench (`BatchExact`); slot handover; refinement of `FlashJobs` |
| `flash_and_panel` | `SettingsPanel`, `SettingsPanel` | 2 devices, caps 1 and 2, 2 batches, fair: each attempt ends and each batch is reported (`EverythingEnds`), and a device shown with a flash under way has its panel locked |
| `worker` | `FlashWorker`, `FlashWorker` | one run, all interleavings: genuine success; no process left after a cancel, and only one that closed its output, or over whose progress the worker raised, is abandoned (`NoneForgotten`); contract, honest "Cancelled" included; a cancelled run ends, any other ends unless the process talks for ever (`RunsEnd`) |
| `devices` | `MCDeviceController`, `Devices` | 2 ids, 2 configurations, depth up to 2: one timeline, fresh baseline, bounded history (`HistoryIsTrue`), refinement of `EditTimeline` (`ImplementsTimeline`), each until a profile is applied; busy devices are spared by everything but undo, redo and a project change |
| `provisioning` | `Provisioning`, `Provisioning` | 2 runs of one device: true reports and no forgotten burn (`RunsAreAccountedFor`); encryption first, and a cancel stops all burns but one (`BurnsInOrder`) |
| `project_session` | `ProjectSession`, `ProjectSession` | 2 files, 1 legacy file, 2 edits, 2 boxes over one another: clean means saved, lock follows path, whole files and a recovery slot that keeps what it protects (`WrittenSurvives`), nothing dropped unasked (`NothingDroppedUnasked`), each but for what follows from a file the system opens under a box or a question (`crossed`, `misled`) |
| `serial_monitor` | `SerialMonitor`, `SerialMonitor` | 1 port, 2 devices, 3 chunks, 3 texts, fair: the button tells the truth and no stop of Disconnect is lost, data is kept through pause and resume and texts are sent in order (`StreamsAreKept`), an upload starts on a port no window holds (`UploadStartsClear`), no window hangs but one whose reader is for ever in a write to its port (`Settles`) |
| `firmware` | `MCFirmwarePanel`, `FirmwarePanel` | 2 files, 3 rows, 4 address texts, 2 operations, 1 build: rows the validator accepts can be written, and a merge the dialog lets through is one esptool can make (`ChecksAreSound`); only a whole image of a merge that ended well is added, and no byte to be written is lost by what is done with the sources (`MergeIsFaithful`) |
| `port_dialogs` | `PortDialogs`, `PortDialogs` | 2 devices, caps 1 and 2, 2 dialogs opened, fair: every device of a batch waits, burns or has its result, the cap is kept and used, one report with the right counts, the buttons agree (`BatchBooks`); nothing is launched after a cancel; every batch is reported, hidden or not (`EveryBatchEnds`); the dialog in front spares the devices being flashed and starts no second read over the first (`FrontSparesFlash`); refinement of `FlashJobs` (`ImplementsPool`) |
| `main_window` | `MCMainWindow`, `MainWindow` | 2 devices, 2 keys: no widget a lock has disabled is enabled by anything done under it, and no field of a device being written to is enabled (`LocksHold`); a lock ends with the key set last and there is one (`OnlyTheKeyOpens`); the dictionary finds each device's row and a time is that of the running attempt (`TableIsTrue`) |
| `records` | `MCRecords`, `Records` | 128 000 tasks: what is saved opens again, in its folder or moved, exactly if it is within the limits and its file fits, and any file is refused or opened as something stable (`ProjectSurvives`); a row of an import is a device or an error, an accepted row of a bundle names a `.bin` file of it, and firmware goes to the device the row names (`ImportsAreExact`); settings that pass the checks give commands that can be burned, a touched control sets its own setting and no other, the last line of a check counts (`SecurityIsSound`); a getter is in its range unless it raises for an infinity or a number too large, OK changes nothing by more than rounding, and the disk holds one state of the memory (`SettingsHold`); devices let through have ports of their own, and a preview lists what an edit changes, that of firmware by names and addresses (`ChecksAreExact`) |
| `settings_lock_claim` | `MCMainWindow`, `SettingsLockClaim` | finding 1 (`SettingsLockHolds`) |

The type invariant of a module is a conjunct of a safety invariant of its run
(`ActiveIsLocked`, `CompletedIsGenuine`, `HistoryBounded`, `ReportsAreTrue`,
`FilesAreWhole`, `ButtonIsTrue`, `ChecksAreSound`, `BatchBooks`, `TableIsTrue`);
the scheduler's is a property of its own, the base of all its proofs. `Records` has
none: its variables are the task and its result. A property that is named in
brackets after several statements is their conjunction, and each of them has its
own definition and comment in the module.

Each property of a passing run has a mutant in `PROJECT.json`: a plausible bug
in the modelled code (an operator marked `mutant` beside the one it replaces)
under which TLC refutes the property.

**Bounds.** Three devices and caps of one and two are the least that give a
queue of two behind a running worker and a slot handed over between devices of
different batches; two batches give every overlap (an old batch running while a
new one starts). `MaxUnread = 3` lets
the process be ahead of the reader by more than the lines one step consumes.
Two ids and two configurations with a depth of two give trimming, redo after
undo, and removal beside an edit; nothing in the history compares more than two
neighbouring entries. Once a profile has been applied the history is followed no
further than one entry (`ProfiledIsShort`): only `BusySpared` and `HistoryBounded`
speak of what comes then. Two provisioning runs give every overlap and repetition;
a third can only repeat the second. Two files and one legacy file are what Save
As, a second open and a migration need; two boxes give a file opened under a
warning, whose own warning closes first; two edits distinguish what was
autosaved from what was changed since. Ports do not influence each other but
through the main thread that waits for one reader at a time, so one port and
two devices that want it are enough; three chunks give one shown, one held back
and one under way, three texts one written, one taken and one waiting. Two files
and three rows give rows of the same file, an output among the sources and an
overlap of rows that are not next to each other in the list, and a row that does
not know that an earlier merge wrote over its file; four texts give
equal numbers spelled differently, neighbours and what is no address; files of
one and two bytes overlap or not; two operations give an edit before or after
a merge, or a second merge. Two devices and two dialogs give a queue behind a
worker at a cap of one, a batch hidden behind another dialog, and an upload
beside it; a batch is started once in each dialog, for its controller is in the
same state after a report as before a start, but for the results that the next
start clears. Two devices with rows in two orders give a shift, an undo that
takes a device away under its flash and brings it back, and a removal that shows
another row; two keys tell the right one from a wrong one and a changed one from
an old one. The tasks of `records` are all combinations of small parts: two
drives and folders inside one another, two devices of two rows, limits of two
devices, rows and recent projects and of three rows of a manifest, projects at
and over them, members of an archive that lead out of its folder, back into it or
to the folder itself, tables of up to three rows (four over the limit), every combination of the security settings
a check reads, every JSON type of a setting at, next to and outside the bounds,
three writes with every outcome, three devices on two ports.

**Fairness.** Scheduler: `WF` on each worker's two steps (threads run, and
`FlashWorker` proves by model checking that their runs end) and on the delivery
of signals (the event loop runs). The user is never obliged to act. Worker:
`WF` on the worker's and the main thread's steps, because the operating system
schedules both, and `SF` on `Announce`, because a cancel may keep the main
thread busy again and again, but the event loop comes back to a posted signal.
The process is not fair: it may hang for ever. Serial monitor: `WF` on the steps
of the reader (opening a port ends some time, a read returns after 0.2 s), but not
on a write, for the port is opened without a write timeout
(`serial_monitor.py:84`, 96): the reader is only obliged to leave its loop when it
is told to and in no write (`InWrite`), and `Settles` excepts one that stays in a
write for ever. `WF` also on the return of `stop()` after two seconds, `SF` on the delivery of a window's
signals, because `stop()` may block the event loop again and again but signals
posted before are delivered in their order in between. Port dialogs: `WF` on the
end of each burn (espefuse ends, or its stall timeout ends it) and on the
delivery of its result; nobody has to open a dialog again.

`CHECK_DEADLOCK FALSE` is set where the system may come to rest: when the bound
on batches or runs is used up and nothing is under way; a flash worker that has
ended; a device list no operation changes in the instance; a monitor or a
firmware list that nobody touches any more; dialogs that have all been opened
and closed; a task that is done. The main window stops when Full Lock is on,
nobody knows the key, and nothing is flashed.

### Findings

1. To leave Full Lock enables every action, whether Settings Lock is still on or
   not: Settings Lock, Full Lock, unlock, and Batch Edit, Assign Firmware Set,
   Firmware Profiles and Provision Devices can be used under Settings Lock
   (`ui/main_window.py:1052`), though `docs/USER_MANUAL.md:804-805` says the two are
   independent and can be combined. Run `settings_lock_claim`.

Seven more are stated in the modules as properties no run lists; TLC refutes each
when it is added to the cfg of its run:

2. A file handed over by the system replaces unsaved, even recovered, work
   without a question (`ui/main_window.py:1281`), whose docstring says "there is
   nothing to discard yet". `NothingToDiscardYet`, run `project_session`.
3. After a save to a file a coworker has open the recovery slot is emptied when
   the warning has been read, whatever is in it by then
   (`controllers/project_controller.py:164-170`): a project the system opened under
   the warning, and the autosave has put there, is then saved nowhere, though the
   comment says that a save "always supersedes" what is in the slot. In the same
   way path, dirty and legacy become those of the save while another project is
   in memory. `SaveSupersedesSlot`, run `project_session`.
4. `int()` of an infinity and `float()` of an int of more than 1024 bits raise
   OverflowError, which no getter catches (`utilities/app_settings.py:218`, 193),
   though their docstrings say they fall back and clamp whatever a corrupted
   `settings.json` holds. `GettersNeverRaise`, run `records`.
5. Of the two combos for the key source that of secure boot is read last and
   always wins (`ui/security_settings_widget.py:334`): to touch that of flash
   encryption changes nothing, though the comment above says that the one "the
   user touched last wins". `LastTouchedWins`, run `records`.
6. `batch_finished` can be emitted while devices of the batch still run: results
   of an earlier batch are counted for it (`flash_controller.py:185`), where the
   comment at 271-274 says it "only fires once every queued device has also
   actually had a chance to run". `ReportedWhenDone`, run `flash_scheduler`.
7. The panel of a device stays locked after its flash has ended: the lock is
   copied from `is_busy()` when the terminal status arrives, one signal too early
   (`ui/main_window.py:1148`); `docs/USER_MANUAL.md:943-946` says it "unlocks
   automatically the moment it's no longer busy". `LockedOnlyWhileBusy`, run
   `flash_and_panel`.
8. A provisioning run that is repeated generates a new key over the file of a key
   that was burned (`workers/security_worker.py:99`); `docs/USER_MANUAL.md:207-209`
   says the key "is only ever written to disk once". `BurnedKeyIsKept`, run
   `provisioning`.

Also met while modelling, without a run of their own: the validator uses each
row's cached size and missing flag, which are renewed when a row is added, the
project loaded or a profile applied, not before an upload, so a file that a
build has removed or enlarged since is not reported though
`docs/USER_MANUAL.md:318-324` lists missing files and overlaps among the errors
that block it (esptool then fails); a monitor window that is closed while its
reader is opening the port loses the stop, because `run()` raises `_running`
afterwards (`serial_monitor.py:89`, 113-115), and the port stays held by a reader
that `_monitor_ports` does not know; the Connect button of an existing window is
not checked against uploads under way, only the opening of a window is; duplicate
ports are looked for within one upload, not against uploads under way; a merge
whose process closes its output and lives on for ten seconds is never reported
(`merge_worker.py:163`, where the class promises `merge_finished` "exactly once"),
the same in `read_worker.py:162`; a Yes to "Cancel Merge?" after the merge has
ended fails with an AttributeError (`merge_bin_dialog.py:323`); the firmware of a
queued device is not locked, and its command is built from the rows at launch; a second batch is launched
up to the cap without counting running workers; redo goes around the history
depth; undo replaces devices that are being flashed; a firmware profile is
applied outside the undo history; a row ticked during its flash whose address is
no number makes the worker raise over the next line of progress, and the process
goes on writing the chip while the device is shown as Failed
(`flash_worker.py:301`, 261-264); the badge reads the cancel flag again after
the history's message was chosen, so it may say Cancelled where the history says
Failed; `device_finished` is emitted before the worker's thread is joined; a
cancel that lands between the two looks of a run without flash encryption is
reported as "Cancelled after flash encryption key burn."; Save As renames the
project before the save, and the name stays if that fails
(`ui/main_window.py:1306`).

*Dialogs.* After Close or Esc a burn or a read goes on, and an upload, or another
dialog, may use the same device and port (`docs/USER_MANUAL.md:239-240` leaves a
device that is being flashed out of a batch; nothing keeps a flash off a device
that is being burned); Exit asks about flashes under way, not about burns
(`ui/main_window.py:1815-1849`); a read's answer is judged by the operation the
combo shows when it arrives, not by the one that was run
(`read_device_dialog.py:250`); a read that ends by `TimeoutExpired` leaves its
button disabled.

*Locks and table.* Under Settings Lock Undo and Redo are enabled again by the next
addition of a device (`ui/main_window.py:518`), so an edit from before the lock can
be taken back, and Set Interface Lock Key stays available; under Full Lock a file
handed over by the system is still opened; `rebuild()` shows rows the search box
had hidden; the tag filter falls back to All Tags when the last device with the
tag goes; a start time stays behind when undo takes a device away under its
flash, until the next upload resets it.

*Files and settings.* Firmware paths become relative in a project file, key paths
do not; the limits on devices and rows are looked at in loading only, so a project
over them is saved, and refused when it is opened (`project_io.py:161-176`): a bundle
can bring that many. The same is true of the limit of 25 MiB
(`project_io.py:247-256`), which a project within the other two can exceed, where
`utilities/constants.py:667-669` says that "no legitimate project is ever rejected". A
name that UTF-8 cannot encode makes saving raise what nobody catches. CSV files and
`settings.json` that are no UTF-8 raise an exception nobody catches; an int beyond
32 bits is refused by the spin box of the Settings dialog, which then does not
open; a stored text where a number is wanted gives
the default in the getter but keeps the Settings dialog from opening; OK replaces
stored values the lists do not offer (autosave interval, baud rate) by the first
one they do; `AppSettings._save` fails with an UnboundLocalError if the folder
cannot be made (`app_settings.py:112-134`).

*Security and previews.* Secure Boot V1 on a chip other
than the first ESP32 is burned as a V2 digest, and flash encryption and secure
boot may name the same block: the checks say nothing of either, so
`SecurityIsSound` speaks of the version on the first ESP32 only and not of blocks
of the two features together. `preview_firmware_assignment` compares file names
and addresses, so rows of the same name in another folder are replaced though
the preview says that no device would change (`device_controller.py:436-449`).

## 4. What is proved

Every theorem below is of the whole specification, without fairness, for every
value of the constants that the named assumption of the module admits. These
assumptions only say what the program guarantees: that bounds and caps are
positive numbers, sets of devices finite, and "no device" or "no path" none of
them. The bounds of the models (`MaxRuns`, `MaxChunks` ...) are arbitrary. None of
the invariants is inductive alone; what each needs is named, and TLC has
checked the strengthened invariants on the instances of the runs as well.

`FlashController_proofs`, part 1, the scheduler (`ControllerAssumption`):

* `TypeCorrect`: `Spec => []TypeOK`.
* `SchedulerSafe`: `Spec => []SchedulerInv`, the conjunction of
  `QueueDiscipline`, `NoStrandedQueue` and `SignalDiscipline`. None of the three is
  inductive alone. That a queued device has no worker needs `BusyIsThread` and
  `FinishedIsPosted`: a finish is delivered only for a device that is busy. That
  the queue is not stranded needs the same, for the slot freed by a finish is
  handed over in that very step. That a late signal never meets a new run needs
  that the finish is the last signal of its device in the inbox. So the
  invariant is the conjunction; one lemma per action shows that it is kept.
* `Refinement`: `Spec => ImplementsJobs`: each step is a step of `FlashJobs` or
  leaves its variables alone, using `TypeOK` and `SchedulerInv`.
* `SlotsAreHandedOver`: `Spec => SlotHandover`, from the same two.

Part 2, its records and the panels' lock (`PanelAssumption` of `SettingsPanel`):

* `RecordsAlwaysAgree`: `Spec => []RecordsAgree`. That no badge is left showing a
  run that is over needs `BadgeInv`: a terminal status is posted by a worker that
  has ended and is the last status of its device, and it is delivered before the
  finish behind it, whatever signals of other devices stand between.
* `BatchesAreExact`: `Spec => []BatchExact`. `AloneInv` says how far a batch that was
  started on an idle bench has come: its devices are those still occupied and
  those with a result, each result is the last entry of the history, and the
  report is out exactly when nobody is occupied. The counting is done on sets:
  a device leaves `Occupied` in the step in which it gets its result.
* `ActiveStaysLocked`: `PanelSpec => []ActiveIsLocked`. A device shown as active is
  locked because it is busy while a status is under way, which is part 1's.

Part 3, the worker (`WorkerAssumption`):

* `CompletedIsTrue` and `NoProcessForgotten`, from `WorkerInv`: where the sentinel is
  in the queue of lines (`LinesInv`), which process there is at each point of
  `_run_impl` and what the run has found out (`RunInv`), and that a process still
  running after the cancel call is one the worker will look at (`SignalInv`).
* `WorkerKeepsContract`: `RunSpec => ImplementsContract`, so what the scheduler's model
  assumes of a worker is a theorem of the worker's model.

`DeviceController_proofs` (`DeviceAssumption`):

* `HistoryStaysTrue`: `Spec => []HistoryIsTrue`, with the history as a chain of
  entries that each start where the one before ended; lemmas say what pushing,
  trimming, and taking from either end of a stack do to a chain. The invariant
  adds that the panels have a device to compare with while one is selected.
* `BusyAreSpared`: `Spec => BusySpared`.
* `HistoryIsALine`: `Spec => ImplementsTimeline`: under the mapping from entries to
  their states each push, trim, undo and redo is a step of `EditTimeline`.

`Provisioning_proofs`, part 1, one device (`ProvisioningAssumption`), for any number of
runs:

* `ReportsStayTrue` and `BurnsStayInOrder`, from `ProvisionInv`: how far a run has
  come and which tool it has left behind (`ProgressInv`), that every burned key is
  one and encryption is first (`BurnInv`), what was reported and what a cancel has
  still let happen (`ReportInv`), and what files and fuses hold (`KeyInv`). Runs
  overlap, so each step of one is shown to leave the other runs' part alone: a key
  file may be overwritten (finding 8) but is never empty again, nor is a fuse.

Part 2, batches and dialogs (`BatchProvisionAssumption`,
`PortAssumption`), for any number of dialogs open at once:

* `BooksBalance`, `FrontStaysClear`, the action property `NoLaunchAfterCancel`, and
  `DialogsArePools`: each controller implements `FlashJobs`. The invariant has
  a part for each dialog: every device of the batch is waiting, working or
  resolved and in one of these only; the cap is used up while somebody waits; a
  batch of devices the dialog offered; a batch called off has no queue. Steps of
  one dialog leave the part of another alone.

`ProjectSession_proofs` (`SessionAssumption`), for any number of files and edits:

* `CleanIsSaved`, `LockStaysWithPath`, `WrittenIsKept` and the action property
  `NothingGoesUnasked`, from `SessionInv`: these hold together only with what a write
  in progress is of (`SaveInv`), what has been asked before a command is carried
  out (`AskedInv`), that the project in memory is the one the slot protects (`NetInv`),
  what is known when no session runs (`RestInv`), which steps exclude one another
  (`OrderInv`), and what a box on the screen still has to do to which file
  (`BoxInv`), each weakened where the system opened a file meanwhile.

`SerialMonitor_proofs` (`MonitorAssumption`), for any ports and amounts of data:

* `ButtonStaysTrue`: `Linked` adds that the signal of the end is posted once and
  last, and that a reader which has not reached its loop has posted nothing: so
  a window never hears of a reader it no longer has.
* `StreamsStayKept`: `Heard` and `Sent` are kept because each step moves the head of
  one sequence to the end of the next (`DataHead`, `HeadMoves`, `ConcatAppend`); that
  nothing overtakes what Pause holds back needs `HeldByPause`.
* `UploadsStartClear`: a reader at work belongs to a window that is listed.

`MainWindow_proofs`, for any devices, keys and order of names (`LockAssumption`,
`TableAssumption`, `SameDevices`):

* `LocksAlwaysHold`: `Spec => []LocksHold`. `LocksHold` is not inductive: that a
  field is closed while its device is written to needs that the panels' copy of
  `is_busy()` is set whenever the device shown is active, that what is active is
  busy, for a device is shown with `is_busy()` as it is then, and that fields are
  enabled only when neither copy nor lock stands against it. The invariant
  `LockInv` adds these; the proof has one step per action.
* `TheKeyAlwaysOpens`: `Spec => OnlyTheKeyOpens`, both its parts. The invariant
  `KeyInv` says that the hash is of the key set last in whichever form, and that
  while a lock is on there is one; the action property follows from it, for a
  lock ends only in a step that has verified the key that was typed.
* `TableStaysTrue`: `Spec => []TableIsTrue`. The invariant `TableInv` says that the
  rows are those of the list in the order of the display, that the dictionary is
  the one of these rows, and where each start time may come from. That removing
  any devices one after the other, shifting the dictionary each time, gives the
  dictionary of the rows that remain is an induction over the number of rows
  removed (`RebuildStep`). The library's induction rules are out of reach, so it is
  done by hand: were there a number for which it fails, there would be a least one
  (`LeastNat` of `ListSelection_proofs`, from the well-foundedness of the numbers),
  and the step before it holds. That module also has the lemmas on what a list
  keeps, and where (`Places`, `KeepPlaces`, `KeepAppend`).

The same module, the Firmware panel, for any files, rows, address texts and builds
(`RowsAssumption`, `PanelAssumption`: at most so many rows, files of numbers):

* `ChecksStaySound`: `FirmwareSpec => []ChecksAreSound`. Two ranges that overlap need
  not be neighbours; but then the first range after the earlier one overlaps it
  too (`NeighboursSuffice`, again by a least element: the least start, and the
  least place among those that start there). Of the merge the invariant `ReadyInv`
  says that its sources have been found sound on the files as they are from the
  check until esptool reads them, if no build has come in between.
* `MergesAreFaithful`: `FirmwareSpec => MergeIsFaithful`, both its parts. The
  invariant `FirmwareInv` has four: rows of different ids, and room for the one a
  dialog may add (`RowsInv`); how the dialog, its question, its worker and a result
  on its way go together (`DialogInv`: a result that waits or is accepted is of
  the one worker there was, which has ended; a dialog accepted under the question
  has let go of its worker, one that waits asks nothing); that exit code 0 comes
  after the image (`ToolInv`); and that the rows are those the merge was started
  with as long as it can still be added (`SourcesInv`). That no byte is lost needs
  that of sound sources the merged file has every byte in its place
  (`MergedHasBytes`) and that the rows taken out or deselected are among the
  sources, which is true of ids and would be false of paths (`BytesAreKept`).
  `MergeKeepsImage` speaks of merges whose output is what merging the sources
  gives and whose sources are sound when the rows change: a build may have made
  it otherwise.

`Records_proofs` (`RecordsAssumption`: tasks are of the types of `TypedTask`, and the
chips include `AutoChip`; `FileAssumption`, `ImportsAssumption`, `SettingsAssumption`:
limits are numbers):

* `SettingsAlwaysHold`: `Spec => []SettingsHold`. A getter that does not raise
  gives a number, for every type of value (`GettersNeverRaise` is false, finding 4).
  Rounding moves a number by half a unit and clamping never moves two numbers apart (`Clamped`), so what the dialog
  stores again is as near to what was in force. How the disk relates to the
  memory after any number of writes is an induction over the writes (`SaveHolds`):
  the recursive function is unfolded by hand from a function that satisfies its
  equation (`WritesExist`), and after n writes the memory is what the first n
  changes make of it (`MemoryGrows`).
* `ChecksStayExact`: `Spec => []ChecksAreExact`. The two ways to check are compared
  error by error (`ErrorsAnswer`, `AnswersAgree`); that devices let through share no
  port needs that none of them is without one. A preview of a field or a
  tag is right because it compares the very field that is replaced, and a tag that
  is appended makes the list longer; that of firmware is shown right by its own
  summary of names and addresses, no further.
* `SecurityStaysSound`: `Spec => []SecurityIsSound`, for settings of any content: the
  errors of the checks exclude each way a command could be refused or lack its
  block or key (`ChecksPassed`), the panel shows settings that it offers as they
  are (`ShownAsIs`), so that a touched control is the only difference, and by induction over the lines the state read is that of the
  last one that says any (`LinesHold`).
* `ImportsStayExact`: `Spec => []ImportsAreExact`, for any tables and archives. After m
  rows of a CSV file the devices are those of the good rows and the errors the
  numbers of the others, both in order (`CsvSplit`). That a row of a bundle
  is not reported means that `BinFiles` of its name is not empty, so its file is one
  of the archive's. Of the devices the same must be said by name: `Holds` relates the devices so far to the set of
  good rows, one device for each name and its entries those of the rows with
  that name; the step to the next row either extends the one device that has the
  name or adds one (`RowIsHeld`). That nothing is written outside the folder is an
  induction over the members (`ExtractedInBundle`).
* `ProjectAlwaysSurvives`: `Spec => []ProjectSurvives`, all its three parts. A relative
  path starts where it leaves the folder of the file: the longest common start of
  both is one, and is the longest (`CommonIs`), so what is taken apart there is put
  together again (`BackInPlace`), and what is below the folder moves with it
  (`BackBelow`). What is written is read again, device by device, and refused
  exactly over the limits, that on the file's length among them (`LoadsWritten`); and whatever is read from a file is a
  project that can be written (`FileReadIn`), so that opening, saving and opening is
  opening. The list of recent projects holds after each use the places of last
  uses, the latest first, and leaves one out only if it is full of later ones
  (`RecentHeld`); that it stays full when one is dropped for its new spelling needs
  that one file has one last use (`RecentsGrow`).

A task and its result do not interact, so the inductive invariant is each property
with the types of the task. To state these theorems for any content the properties
had to say which settings the panel offers: a version or a key source the lists
do not have is shown as the first item, or as what the device before had.

What the invariants do not claim is as telling: the firmware profile (outside
the history), the file opened by the system under a question or a box (`misled`,
`crossed`), the window closed while its reader opens the port (`stray`), the process
that closed its output and the one whose worker raised (`raised`) had to be excepted, each of them listed under Findings or Also met.

Only model-checked:

* Liveness (`EverythingEnds`, `RunsEnd`, `Settles`, `EveryBatchEnds`): out of the
  prover's reach.

Every safety property of a passing run is a theorem.

## 5. What is not modelled, and the plan

Not modelled: see `components` in `PROJECT.json`; each has its reason. In short,
presentation, the patterns that read esptool's output, most of its command
lines, the update check and telemetry have no state whose order matters; the
single instance is Qt's `QLockFile`, the port watcher a poll, and firmware
profiles are named lists of rows.

What is done: scheduler, worker and their contract; device list and history;
panels' lock; provisioning of one device and of batches; the dialogs that hold a
port; project sessions and project files; serial monitors; firmware lists,
validation and merging; the main window under its locks; imports, security
settings, settings and edits of the bench. What is left, most important first:

1. The sidecar protocol between several installations: staleness, pids, the
   steps between reading and writing; the single-instance lock at start-up.
2. Device objects with identity, so that a queue holding a detached object is
   seen, and firmware profiles with them.
3. Uploads, burns and reads on one port after a dialog has been hidden, as a
   property once the program states what it wants there.
4. The decoding of what is read: the text of a CSV file, a chip's name in the
   output of esptool.
