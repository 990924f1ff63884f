--------------------------- MODULE FirmwarePanel ---------------------------
(***************************************************************************)
(* The Firmware panel of a device with the Merge Bins dialog and its       *)
(* worker, beside files that a build writes at any time:                   *)
(* app/ui/firmware_panel.py, app/ui/merge_bin_dialog.py,                   *)
(* app/workers/merge_worker.py.                                            *)
(*                                                                         *)
(* The dialog is modal.  While its worker runs, closing it first asks a    *)
(* question, under which the event loop goes on and may deliver the        *)
(* worker's result.  esptool is a process that reads the sources, empties  *)
(* the output, writes it and exits, or fails at any of these steps, or     *)
(* closes its output and stays.                                            *)
(***************************************************************************)
EXTENDS FirmwareRows, ListSelection

CONSTANTS
    Output,         \* the output path chosen for a merge
    Builds,         \* what a build may write into a file
    Loaded,         \* rows, as files with addresses, a project may come with
    KnownAddress,   \* the address auto-detection gives to a file, by its name
    AddAddress,     \* the address of a file added by hand
    MaxRows,        \* bound: rows of the device
    MaxEdits,       \* bound: operations on the panel, merges started
    MaxBuilds       \* bound: files written by a build

ASSUME PanelAssumption ==
    /\ \A list \in Loaded : list \in Seq(Paths \X Texts) /\ Len(list) <= MaxRows
    /\ KnownAddress \in [Paths -> Texts]
    /\ AddAddress \in Texts
    /\ Output \in Paths /\ IsFiniteSet(Paths)
    /\ Builds \subseteq Seq(Nat) /\ Pad \in Nat
    /\ MaxRows \in Nat /\ MaxEdits \in Nat /\ MaxBuilds \in Nat

VARIABLES
    disk,       \* the files
    builds,     \* number of files a build has written
    firmware,       \* device.firmware
    edits,      \* number of operations on the panel
    dialog,     \* the Merge Bins dialog: closed, open, accepted under a question,
                \* or rejected with exec() yet to return
    asking,     \* is the question of reject() on the screen?
    waiting,    \* is the main thread in the worker's wait(5000)?
    hasWorker,  \* does the dialog hold a _worker?
    merged,     \* its _merged_entry, if accepted
    sources,    \* the entries being merged
    worker,     \* where the worker is
    cancel,     \* its _cancel_requested
    report,     \* its merge_finished, if posted and not delivered
    tool,       \* esptool merge-bin: where it is ...
    code,       \* ... its exit code ...
    image       \* ... and what it writes

diskVars == <<disk, builds>>
rowVars == <<firmware, edits>>
dialogVars == <<dialog, asking, waiting, hasWorker, merged>>
workerVars == <<worker, cancel, report>>
toolVars == <<tool, code, image>>
firmwareVars == <<diskVars, rowVars, dialogVars, sources, workerVars, toolVars>>

Row == [id : 0..MaxRows, path : Paths, address : Texts, enabled : BOOLEAN,
        size : Nat, missing : BOOLEAN]

FirmwareTypeOK ==
    /\ \A p \in Paths : disk[p] # Absent => disk[p] \in Seq(Nat)
    /\ builds \in 0..MaxBuilds
    /\ firmware \in Seq(Row)
    /\ \A i, j \in 1..Len(firmware) : firmware[i].id = firmware[j].id => i = j
    /\ edits \in 0..MaxEdits
    /\ dialog \in {"closed", "open", "accepted", "rejected"}
    /\ asking \in BOOLEAN /\ waiting \in BOOLEAN /\ hasWorker \in BOOLEAN
    /\ merged \in Seq(Row)
    /\ DOMAIN sources \subseteq 1..MaxRows /\ \A i \in DOMAIN sources : sources[i] \in Row
    /\ worker \in {"none", "checking", "starting", "reading", "waiting", "ended"}
    /\ cancel \in BOOLEAN
    /\ report \in {"none", "success", "failure"}
    /\ tool \in {"none", "running", "writing", "silent", "exited"}
    /\ code \in {0, 1}
    /\ image \in Seq(Nat)

\* A project as load_project leaves it: every row refreshed.
FirmwareInit ==
    /\ disk \in [Paths -> Builds \cup {Absent}]
    /\ builds = 0
    /\ \E list \in Loaded :
          firmware = [i \in 1..Len(list) |-> NewRow(i, list[i][1], list[i][2], disk)]
    /\ edits = 0
    /\ dialog = "closed" /\ asking = FALSE /\ waiting = FALSE
    /\ hasWorker = FALSE /\ merged = <<>>
    /\ sources = <<>>
    /\ worker = "none" /\ cancel = FALSE /\ report = "none"
    /\ tool = "none" /\ code = 1 /\ image = <<>>

-----------------------------------------------------------------------------
(* The panel.  The dialog is modal, so it is closed. *)

FreeIds(list) == (1..MaxRows) \ {list[i].id : i \in DOMAIN list}

\* Ids for n more rows: new_uuid gives each one of its own.
NewIds(list, n) == CHOOSE ids \in Injection(1..n, FreeIds(list)) : TRUE

\* The rows of files that are added at the end.
Added(list, paths, address) ==
    LET ids == NewIds(list, Len(paths))
    IN  list \o [i \in 1..Len(paths) |->
                    NewRow(ids[i], paths[i], address[paths[i]], disk)]

Edit(new) ==
    /\ dialog = "closed"
    /\ edits < MaxEdits
    /\ firmware' = new
    /\ edits' = edits + 1
    /\ UNCHANGED <<diskVars, dialogVars, sources, workerVars, toolVars>>

Room(n) == Len(firmware) + n <= MaxRows

\* _add_bin, and a file dropped on the table
AddBin(path) ==
    /\ Room(1)
    /\ Edit(Added(firmware, <<path>>, [p \in Paths |-> AddAddress]))

\* scan_firmware_folder: the files there are, known ones first and in the
\* order of their addresses, then the others; names decide where addresses
\* do not, and may be any.
Scans ==
    {s \in SetToSeqs({p \in Paths : disk[p] # Absent}) :
        \A i, j \in DOMAIN s : i < j /\ KnownAddress[s[j]] # Zero =>
            /\ KnownAddress[s[i]] # Zero
            /\ Value[KnownAddress[s[i]]] <= Value[KnownAddress[s[j]]]}

\* _import_folder
ImportFolder == \E scan \in Scans :
    /\ scan # <<>> /\ Room(Len(scan))
    /\ Edit(Added(firmware, scan, KnownAddress))

\* _remove_selected, _duplicate_selected, _move_selected
RemoveRow(i) == Edit(RemoveAt(firmware, i))

\* The copy takes the cached size along, it is not refreshed.
Duplicate(i) ==
    /\ Room(1)
    /\ Edit(InsertAt(firmware, i + 1, [firmware[i] EXCEPT !.id = NewIds(firmware, 1)[1]]))

MoveDown(i) ==
    /\ i < Len(firmware)
    /\ Edit([firmware EXCEPT ![i] = firmware[i + 1], ![i + 1] = firmware[i]])

\* _on_item_changed: an address that is no hex number is refused.
SetEnabled(i) == Edit([firmware EXCEPT ![i].enabled = ~@])

SetAddress(i, text) ==
    /\ Value[text] # -1
    /\ firmware[i].address # text
    /\ Edit([firmware EXCEPT ![i].address = text])

\* The project is opened again, or a profile with these rows applied.
Reload == Edit([i \in 1..Len(firmware) |-> Refresh(firmware[i], disk)])

-----------------------------------------------------------------------------
(* The Merge Bins dialog. *)

\* _open_merge_dialog.  The bounds: room for one row, and no worker of an
\* earlier dialog is left.
OpenDialog ==
    /\ dialog = "closed"
    /\ firmware # <<>> /\ Room(1)
    /\ worker \in {"none", "ended"} /\ report = "none"
    /\ dialog' = "open"
    /\ UNCHANGED <<diskVars, rowVars, asking, waiting, hasWorker, merged, sources,
                   workerVars, toolVars>>

\* _on_merge_clicked for the included rows.  The output may be a file there is
\* already, a source of the merge even.
StartMerge(included) ==
    /\ dialog = "open" /\ ~hasWorker /\ ~asking
    /\ edits < MaxEdits
    /\ edits' = edits + 1
    /\ MergePasses(Restrict(firmware, included), disk)
    /\ sources' = Restrict(firmware, included)
    /\ hasWorker' = TRUE
    /\ worker' = "checking" /\ cancel' = FALSE /\ report' = "none"
    /\ tool' = "none" /\ code' = 1 /\ image' = <<>>
    /\ UNCHANGED <<diskVars, firmware, dialog, asking, waiting, merged>>

\* FlashProcess.terminate, from either thread; see FlashWorker for its steps.
Terminate ==
    /\ tool' = IF tool = "none" THEN "none" ELSE "exited"
    /\ code' = IF tool \in {"running", "writing", "silent"} THEN 1 ELSE code
    /\ UNCHANGED image

\* _on_cancel_merge_clicked: the button works once.
CancelMerge ==
    /\ dialog = "open" /\ hasWorker /\ ~asking /\ ~waiting
    /\ ~cancel
    /\ cancel' = TRUE
    /\ Terminate
    /\ UNCHANGED <<diskVars, rowVars, dialogVars, sources, worker, report>>

\* What the panel does with the merged entry when exec() has returned.
SourceIds == {sources[i].id : i \in DOMAIN sources}
SourcePaths == {sources[i].path : i \in DOMAIN sources}

WithoutSourcesByPath(list) ==                       \* mutant: by file, not by id
    Keep(list, {i \in DOMAIN list : list[i].path \notin SourcePaths})

WithoutSources(list) == Keep(list, {i \in DOMAIN list : list[i].id \notin SourceIds})

AfterMerge(entry) ==
    LET all == Append(firmware, [entry EXCEPT !.id = NewIds(firmware, 1)[1]])
    IN  \/ firmware' = firmware
        \/ firmware' = all
        \/ firmware' = WithoutSources(all)
        \/ firmware' = [i \in 1..Len(all) |->
                       [all[i] EXCEPT !.enabled = @ /\ all[i].id \notin SourceIds]]

\* exec() returns with the dialog accepted.
Apply(entry) ==
    /\ AfterMerge(entry)
    /\ dialog' = "closed"
    /\ merged' = <<>>

\* reject() with no merge under way
CloseIdle ==
    /\ dialog = "open" /\ ~asking /\ ~waiting
    /\ hasWorker => worker = "ended"
    /\ dialog' = "rejected"
    /\ UNCHANGED <<diskVars, rowVars, asking, waiting, hasWorker, merged, sources,
                   workerVars, toolVars>>

\* reject() with a merge under way puts a question ...
AskToClose ==
    /\ dialog = "open" /\ ~asking /\ ~waiting
    /\ hasWorker /\ worker # "ended"
    /\ asking' = TRUE
    /\ UNCHANGED <<diskVars, rowVars, dialog, waiting, hasWorker, merged, sources,
                   workerVars, toolVars>>

\* ... and after a Yes cancels and waits.
AnswerYes ==
    /\ asking /\ hasWorker
    /\ asking' = FALSE
    /\ waiting' = TRUE
    /\ cancel' = TRUE
    /\ Terminate
    /\ UNCHANGED <<diskVars, rowVars, dialog, hasWorker, merged, sources, worker, report>>

\* A No, or a Yes when the result came in meanwhile: then _worker is None,
\* reject() fails with an AttributeError and what was decided stays.
AnswerNo ==
    /\ asking
    /\ asking' = FALSE
    /\ IF dialog = "accepted" THEN Apply(merged[1]) ELSE UNCHANGED <<firmware, dialog, merged>>
    /\ UNCHANGED <<diskVars, edits, waiting, hasWorker, sources, workerVars, toolVars>>

\* wait(5000) returns, with the worker ended or not.
WaitReturns ==
    /\ waiting
    /\ waiting' = FALSE
    /\ dialog' = "rejected"
    /\ UNCHANGED <<diskVars, rowVars, asking, hasWorker, merged, sources, workerVars,
                   toolVars>>

\* exec() returns after a reject(), with the dialog accepted after all if the
\* result got in between.
ExecReturns ==
    /\ dialog = "rejected"
    /\ IF merged # <<>> THEN Apply(merged[1])
                       ELSE dialog' = "closed" /\ UNCHANGED <<firmware, merged>>
    /\ hasWorker' = FALSE
    /\ UNCHANGED <<diskVars, edits, asking, waiting, sources, workerVars, toolVars>>

\* _on_merge_finished.  Once exec() has returned nothing is added any more.
MergedEntry == NewRow(0, Output, Zero, disk)

Deliver ==
    /\ report # "none" /\ ~waiting
    /\ report' = "none"
    /\ hasWorker' = FALSE
    /\ \/ /\ dialog = "closed" \/ report = "failure"
          /\ UNCHANGED <<firmware, dialog, merged>>
       \/ /\ dialog = "open" /\ ~asking /\ report = "success"
          /\ Apply(MergedEntry)
       \/ /\ dialog = "rejected" \/ asking
          /\ report = "success"
          /\ merged' = <<MergedEntry>>
          /\ dialog' = IF asking THEN "accepted" ELSE "rejected"
          /\ UNCHANGED firmware
    /\ UNCHANGED <<diskVars, edits, asking, waiting, sources, worker, cancel, toolVars>>

-----------------------------------------------------------------------------
(* The worker: MergeWorker._run_impl. *)

End(result) == worker' = "ended" /\ report' = result

CheckCancel ==
    /\ worker = "checking"
    /\ IF cancel THEN End("failure") ELSE worker' = "starting" /\ UNCHANGED report
    /\ UNCHANGED <<diskVars, rowVars, dialogVars, sources, cancel, toolVars>>

StartTool ==
    /\ worker = "starting"
    /\ \/ worker' = "reading" /\ tool' = "running" /\ UNCHANGED report
       \/ End("failure") /\ UNCHANGED tool
    /\ UNCHANGED <<diskVars, rowVars, dialogVars, sources, cancel, code, image>>

\* The cancel is seen at the next line or after half a second without one.
StopOnCancel ==
    /\ worker = "reading" /\ cancel
    /\ Terminate
    /\ End("failure")
    /\ UNCHANGED <<diskVars, rowVars, dialogVars, sources, cancel>>

\* MERGE_TIMEOUT_SECONDS are over.
TimeOut ==
    /\ worker = "reading" /\ ~cancel
    /\ Terminate
    /\ End("failure")
    /\ UNCHANGED <<diskVars, rowVars, dialogVars, sources, cancel>>

OutputClosed ==
    /\ worker = "reading" /\ ~cancel
    /\ tool \in {"silent", "exited"}
    /\ worker' = "waiting"
    /\ UNCHANGED <<diskVars, rowVars, dialogVars, sources, cancel, report, toolVars>>

\* Success: exit code 0, and there is an output file.
VerdictByFile ==                                    \* mutant: the file is enough
    IF disk[Output] # Absent THEN "success" ELSE "failure"

Verdict == IF code = 0 /\ disk[Output] # Absent THEN "success" ELSE "failure"

WaitTool ==
    /\ worker = "waiting"
    /\ tool = "exited"
    /\ End(Verdict)
    /\ UNCHANGED <<diskVars, rowVars, dialogVars, sources, cancel, toolVars>>

\* TimeoutExpired of wait(timeout=10) is caught nowhere: nothing is reported.
WaitExpires ==
    /\ worker = "waiting"
    /\ tool = "silent"
    /\ End("none")
    /\ UNCHANGED <<diskVars, rowVars, dialogVars, sources, cancel, toolVars>>

-----------------------------------------------------------------------------
(* esptool merge-bin, and the build. *)

\* It checks its arguments, and empties the output before or after it has read
\* the sources: an output among them may be read as empty.
ToolReads ==
    /\ tool = "running"
    /\ Sound(sources, disk)
    /\ disk' = [disk EXCEPT ![Output] = <<>>]
    /\ image' \in {Merged(sources, disk), Merged(sources, disk')}
    /\ tool' = "writing"
    /\ UNCHANGED <<builds, rowVars, dialogVars, sources, workerVars, code>>

ToolWrites ==
    /\ tool = "writing"
    /\ disk' = [disk EXCEPT ![Output] = image]
    /\ tool' = "silent" /\ code' = 0
    /\ UNCHANGED <<builds, rowVars, dialogVars, sources, workerVars, image>>

ToolFails ==
    /\ tool \in {"running", "writing"}
    /\ tool' = "exited" /\ code' = 1
    /\ UNCHANGED <<diskVars, rowVars, dialogVars, sources, workerVars, image>>

ToolExits ==
    /\ tool = "silent"
    /\ tool' = "exited"
    /\ UNCHANGED <<diskVars, rowVars, dialogVars, sources, workerVars, code, image>>

\* A build, or a clean, changes a file at any moment.
Build(path, content) ==
    /\ builds < MaxBuilds
    /\ disk[path] # content
    /\ disk' = [disk EXCEPT ![path] = content]
    /\ builds' = builds + 1
    /\ UNCHANGED <<rowVars, dialogVars, sources, workerVars, toolVars>>

-----------------------------------------------------------------------------

PanelStep ==
    \/ \E p \in Paths : AddBin(p)
    \/ ImportFolder
    \/ \E i \in 1..Len(firmware) :
          \/ RemoveRow(i)
          \/ Duplicate(i)
          \/ MoveDown(i)
          \/ SetEnabled(i)
          \/ \E text \in Texts : SetAddress(i, text)
    \/ Reload

DialogStep ==
    \/ OpenDialog
    \/ \E included \in SUBSET DOMAIN firmware : StartMerge(included)
    \/ CancelMerge
    \/ CloseIdle
    \/ AskToClose
    \/ AnswerYes
    \/ AnswerNo

WorkerStep ==
    \/ CheckCancel
    \/ StartTool
    \/ StopOnCancel
    \/ TimeOut
    \/ OutputClosed
    \/ WaitTool
    \/ WaitExpires

ToolStep == ToolReads \/ ToolWrites \/ ToolFails \/ ToolExits

FirmwareNext ==
    \/ PanelStep
    \/ DialogStep
    \/ WaitReturns
    \/ ExecReturns
    \/ Deliver
    \/ WorkerStep
    \/ ToolStep
    \/ \E p \in Paths, c \in Builds \cup {Absent} : Build(p, c)

FirmwareSpec == FirmwareInit /\ [][FirmwareNext]_firmwareVars

-----------------------------------------------------------------------------
(* Properties. *)

\* What an upload is let through with can be written: if the rows know the
\* files as they are, the validator's comparison of neighbours misses no
\* overlap, for any addresses, spellings and sizes.
AcceptedIsSound ==
    /\ FirmwareTypeOK
    /\ Accepts(firmware) /\ (\A i \in 1..Len(firmware) : firmware[i] = Refresh(firmware[i], disk))
          => Sound(Enabled(firmware), disk)

\* A merge that the dialog has let through is one that esptool can make, unless
\* a build comes in between: the dialog's check asks the files, not the rows.
MergeIsReady == builds = 0 /\ tool = "running" => Sound(sources, disk)

\* What validate_devices and validate_merge_entries let through is what esptool
\* insists on, each from what it knows of the files.
ChecksAreSound == AcceptedIsSound /\ MergeIsReady

\* A merge that changes the rows has ended with code 0, and unless a build
\* interfered the new row knows the whole image that esptool wrote: no image
\* of a merge that failed, was stopped or is still being written gets in.
MergeAdded == dialog # "closed" /\ dialog' = "closed" /\ firmware' # firmware

AddedIsComplete ==
    [][MergeAdded =>
          /\ tool = "exited" /\ code = 0
          /\ builds = 0 => disk[Output] = image]_firmwareVars

\* Whatever is chosen to be done with the sources, the bytes the rows would
\* have written before the merge are written after it, if the output is what
\* merging the sources gives: no build has made them overlap or changed them.
MergeKeepsImage ==
    [][MergeAdded /\ Sound(sources, disk) /\ disk[Output] = Merged(sources, disk) =>
          Written(Enabled(firmware), disk) \subseteq Written(Enabled(firmware'), disk)]_firmwareVars

\* A merge adds a whole image and takes no bytes away.
MergeIsFaithful == AddedIsComplete /\ MergeKeepsImage
=============================================================================
