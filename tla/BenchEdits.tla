----------------------------- MODULE BenchEdits -----------------------------
(***************************************************************************)
(* What the main window works out about the whole bench before it acts:    *)
(* the checks before an upload and of a dry run                            *)
(* (app/flash_engine/validator.py), the previews of Batch Edit and Assign  *)
(* Firmware Set (app/controllers/device_controller.py), and which rows the *)
(* search box and the tag filter leave (app/ui/main_window.py).            *)
(* Operators only; FirmwareRows has the checks of the firmware list.       *)
(***************************************************************************)
EXTENDS Integers, SequencesExt

CONSTANTS
    BaudRates,      \* BAUD_RATES
    FlashModes,     \* FLASH_MODES
    AutoChip        \* AUTO_CHIP, the chip type that leaves it to esptool

-----------------------------------------------------------------------------
(* Checks. *)

BaudMin == 300
BaudMax == 5000000

\* _validate_baud_rate
BaudErrors(baud) == IF baud <= 0 \/ baud > BaudMax \/ baud < BaudMin THEN {"baud"} ELSE {}

BaudWarnings(baud) == IF BaudErrors(baud) = {} /\ baud \notin BaudRates THEN {"baud"} ELSE {}

\* The first checks of _validate_single_device
PortErrors(device, connected, monitored) ==
    IF device.port = "" THEN {"no port"}
    ELSE IF device.port \notin connected THEN {"not connected"}
    ELSE IF device.port \in monitored THEN {"monitored"} ELSE {}

ChoiceErrors(device, chips) ==
    (IF device.chip \notin chips THEN {"chip"} ELSE {})
        \cup (IF device.mode \notin FlashModes THEN {"mode"} ELSE {})

SharedPortNextTo(devices, i) ==                 \* mutant: only neighbours are compared
    \E j \in DOMAIN devices \cap {i - 1, i + 1} : devices[j].port # "" /\ devices[j].port = devices[i].port

SharedPort(devices, i) ==
    \E j \in DOMAIN devices \ {i} : devices[j].port # "" /\ devices[j].port = devices[i].port

\* validate_devices, the errors of each device.  A dry run takes every port
\* that is configured for one that is connected.
BenchErrors(devices, connected, monitored, chips, dryRun) ==
    LET there == IF dryRun THEN {devices[i].port : i \in DOMAIN devices} \ {""} ELSE connected
    IN  [i \in DOMAIN devices |->
            (IF SharedPort(devices, i) THEN {"shared port"} ELSE {})
                \cup PortErrors(devices[i], there, monitored)
                \cup ChoiceErrors(devices[i], chips)
                \cup BaudErrors(devices[i].baud)]

\* find_unsupported_chips, when a project is loaded
UnsupportedChips(devices, chips) ==
    {i \in DOMAIN devices : devices[i].chip \notin chips \cup {"", AutoChip}}

-----------------------------------------------------------------------------
(* Edits of many devices, given as the set of their ids: a preview tells    *)
(* which of them it lists.  A device has fields, among them "tags" and      *)
(* "firmware", a sequence of [name, address, path].                         *)

\* _exclude_busy_devices
Safe(targets, busy) == targets \ busy

\* preview_field_change
FieldPreview(devices, targets, busy, field, value) ==
    {d \in (targets \ busy) \cap DOMAIN devices : devices[d][field] # value}

\* apply_to_selected
FieldApplied(devices, targets, busy, field, value) ==
    [d \in DOMAIN devices |->
        IF d \in targets \ busy
        THEN [devices[d] EXCEPT ![field] = value] ELSE devices[d]]

\* preview_tag_addition and add_tag_to_devices, of a tag that is not blank
TagPreview(devices, targets, tag) ==
    {d \in targets \cap DOMAIN devices : ~Contains(devices[d].tags, tag)}

TagApplied(devices, targets, tag) ==
    [d \in DOMAIN devices |->
        IF d \in targets /\ ~Contains(devices[d].tags, tag)
        THEN [devices[d] EXCEPT !.tags = Append(@, tag)] ELSE devices[d]]

\* preview_firmware_assignment compares what it would list: the names of the
\* files and their addresses.
Summary(firmware) == [i \in DOMAIN firmware |-> [name |-> firmware[i].name, address |-> firmware[i].address]]

FirmwarePreview(devices, targets, busy, entries) ==
    {d \in (targets \ busy) \cap DOMAIN devices : Summary(devices[d].firmware) # Summary(entries)}

\* apply_firmware_to_devices
FirmwareApplied(devices, targets, busy, entries) ==
    FieldApplied(devices, targets, busy, "firmware", entries)

-----------------------------------------------------------------------------
(* The rows that are shown.  A device matches the words it has in it. *)

AllTags == "All Tags"

\* all_tags
TagsInUse(devices) == UNION {ToSet(devices[d].tags) : d \in DOMAIN devices}

\* set_tag_filter_options: the selection falls back if the tag is gone.
TagSelected(devices, before) == IF before \in TagsInUse(devices) THEN before ELSE AllTags

\* search and _apply_device_filters; a blank query matches everything.
RowsVisible(devices, query, tag) ==
    {d \in DOMAIN devices :
        /\ query = "" \/ query \in devices[d].words
        /\ tag = AllTags \/ Contains(devices[d].tags, tag)}
=============================================================================
