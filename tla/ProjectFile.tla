---------------------------- MODULE ProjectFile ----------------------------
(***************************************************************************)
(* What a project becomes on its way to a file and back:                   *)
(* app/project_manager/project_io.py, to_dict() and from_dict() of         *)
(* app/models, DeviceConfig.clone, and the list of recent projects.        *)
(* Operators only; ProjectSession has the order of saves and crashes.      *)
(*                                                                         *)
(* A path is absolute, [drive, names], or relative, [up, names]: so many   *)
(* parents up and then down.  JSON is what from_dict tells apart: a field  *)
(* is absent, of the right type, or of a wrong one, and a wrong one may    *)
(* still be something Python iterates over ("text" character by character, *)
(* "empty" not at all).  What the texts of a file come to is left open: how*)
(* long it is, and whether it can be encoded.                              *)
(***************************************************************************)
EXTENDS Naturals, SequencesExt, ListSelection

CONSTANTS
    MaxDevices,     \* MAX_DEVICES_PER_PROJECT
    MaxEntries,     \* MAX_FIRMWARE_ENTRIES_PER_DEVICE
    MaxRecent,      \* MAX_RECENT_PROJECTS
    AppVersion,     \* APP_VERSION, a sequence of numbers
    Bytes(_),       \* the size of a file with this content
    Encodable(_),   \* UTF-8 has every character of this content
    MaxFileSize     \* MAX_PROJECT_FILE_SIZE_BYTES

ASSUME FileAssumption ==
    /\ MaxDevices \in Nat /\ MaxEntries \in Nat
    /\ MaxRecent \in Nat \ {0}
    /\ MaxFileSize \in Nat
    /\ AppVersion \in Seq(Nat) /\ AppVersion # <<>>

-----------------------------------------------------------------------------
(* Paths. *)

IsAbsolute(path) == "drive" \in DOMAIN path

Common(s, t) == Len(LongestCommonPrefix({s, t}))

\* os.path.relpath; there is none from one drive to another.
RelPath(path, base) ==
    IF path.drive # base.drive THEN path
    ELSE LET shared == Common(path.names, base.names)
         IN  [up |-> Len(base.names) - shared,
              names |-> SubSeq(path.names, shared + 1, Len(path.names))]

\* (base_dir / candidate).resolve()
Resolve(base, path) ==
    IF IsAbsolute(path) THEN path
    ELSE LET above == IF path.up > Len(base.names) THEN 0 ELSE Len(base.names) - path.up
         IN  [drive |-> base.drive, names |-> SubSeq(base.names, 1, above) \o path.names]

\* What a path becomes in a file next to which the project is saved; Resolve is
\* what _absolutize_firmware_paths makes of it.
PathInFileOfAnyDrive(path, base) ==                 \* mutant: the drive forgotten
    IF path = <<>> \/ ~IsAbsolute(path) THEN path
    ELSE RelPath([path EXCEPT !.drive = base.drive], base)

PathInFile(path, base) ==
    IF path = <<>> \/ ~IsAbsolute(path) THEN path ELSE RelPath(path, base)

\* _relativize_firmware_paths
RelativeEntry(entry, base) == [entry EXCEPT !.path = PathInFile(@, base)]

Relativize(devices, base) ==
    [d \in DOMAIN devices |->
        [devices[d] EXCEPT !.firmware = [i \in DOMAIN @ |-> RelativeEntry(@[i], base)]]]

-----------------------------------------------------------------------------
(* Saving. *)

List(items) == [t |-> "list", items |-> items]

\* to_dict: no runtime state, no checksum, and the version of this build.
EntryDict(entry) == [t |-> "object", path |-> entry.path, address |-> entry.address]

DeviceDict(device) ==
    [t |-> "object",
     id |-> device.id,
     tags |-> List(device.tags),
     security |-> [t |-> "object", value |-> device.security],
     firmware |-> List([i \in DOMAIN device.firmware |-> EntryDict(device.firmware[i])])]

\* What save_project writes; it looks at no limit.
Written(project, base) ==
    LET devices == Relativize(project.devices, base)
    IN  [t |-> "object",
         version |-> AppVersion,
         devices |-> List([d \in DOMAIN devices |-> DeviceDict(devices[d])])]

\* save_project: the file there is afterwards.  Text that cannot be encoded is an
\* error nobody catches, before the file has been replaced.
SavedFile(project, base) ==
    IF Encodable(Written(project, base)) THEN Written(project, base) ELSE [t |-> "nothing"]

\* add_recent_project: spellings of one file's path are one entry, the last
\* spelling stays.
AddRecent(recents, path) ==
    LET others == Keep(recents, {i \in DOMAIN recents : recents[i].file # path.file})
    IN  SubSeq(<<path>> \o others, 1, IF Len(others) < MaxRecent THEN Len(others) + 1 ELSE MaxRecent)

\* The list after these projects have been used, one after the other
RecentsAfter(paths) ==
    LET after[i \in 0..Len(paths)] ==
            IF i = 0 THEN <<>> ELSE AddRecent(after[i - 1], paths[i])
    IN  after[Len(paths)]

-----------------------------------------------------------------------------
(* Loading.  A failure is a ProjectLoadError. *)

Failure == [ok |-> FALSE]

\* _validate_project_shape: only lists are counted.
TooLarge(raw) ==
    /\ raw.devices.t = "list"
    /\ \/ Len(raw.devices.items) > MaxDevices
       \/ \E i \in DOMAIN raw.devices.items :
             LET device == raw.devices.items[i]
             IN  /\ device.t = "object"
                 /\ device.firmware.t = "list"
                 /\ Len(device.firmware.items) > MaxEntries

\* What iterating over a field gives: its items, nothing, or an error.
Iterable(field) == field.t \in {"list", "absent", "empty"}
ItemsOf(field) == IF field.t = "list" THEN field.items ELSE <<>>

\* list(data.get("tags", [])): a text falls apart into its characters.
TagsReadable(field) == Iterable(field) \/ field.t = "text"
TagsOf(field) == IF field.t = "text" THEN field.chars ELSE ItemsOf(field)

\* DeviceConfig.from_dict fails on what is no object, and on fields of a type
\* it cannot iterate over or take values from.
DeviceReadable(device) ==
    /\ device.t = "object"
    /\ Iterable(device.firmware)
    /\ \A i \in DOMAIN ItemsOf(device.firmware) : ItemsOf(device.firmware)[i].t = "object"
    /\ TagsReadable(device.tags)
    /\ device.security.t \in {"absent", "object"}

\* Fields of a device that are absent get their defaults; FirmwareEntry.refresh
\* fills in size and checksum.
DeviceOf(device, base, defaultSecurity) ==
    [id |-> device.id,
     tags |-> TagsOf(device.tags),
     security |-> IF device.security.t = "object" THEN device.security.value ELSE defaultSecurity,
     firmware |-> [i \in DOMAIN ItemsOf(device.firmware) |->
                      LET row == ItemsOf(device.firmware)[i]
                      IN  [path |-> IF row.path = <<>> THEN <<>> ELSE Resolve(base, row.path),
                           address |-> row.address]]]

Newer(v, w) ==
    \E i \in 1..Len(v) :
        /\ \A j \in 1..(i - 1) : j <= Len(w) /\ v[j] = w[j]
        /\ i <= Len(w) => v[i] > w[i]

\* load_project, on what json.load has made of the file: raw.t is "object",
\* "other" JSON, "unreadable" (no JSON, no UTF-8) or "nothing".  A file is too
\* large whoever has written it.
Load(raw, base, defaultSecurity) ==
    IF \/ raw.t # "object"
       \/ Bytes(raw) > MaxFileSize
       \/ TooLarge(raw)
       \/ ~Iterable(raw.devices)
       \/ \E i \in DOMAIN ItemsOf(raw.devices) : ~DeviceReadable(ItemsOf(raw.devices)[i])
    THEN Failure
    ELSE [ok |-> TRUE,
          warned |-> Newer(raw.version, AppVersion),
          devices |-> [i \in DOMAIN ItemsOf(raw.devices) |->
                          DeviceOf(ItemsOf(raw.devices)[i], base, defaultSecurity)]]
=============================================================================
