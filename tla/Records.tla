------------------------------ MODULE Records ------------------------------
(***************************************************************************)
(* What the application makes of the data it reads, converts and compares, *)
(* one task at a time: projects and their files, imported tables and       *)
(* bundles, security settings, stored settings, and the whole bench before *)
(* it is uploaded or edited.  A task is the input of one such function and *)
(* the step from it is the function; every property relates the result to  *)
(* its input by a definition of its own.                                   *)
(***************************************************************************)
EXTENDS ProjectFile, Imports, SecuritySettings, AppSettings, BenchEdits

CONSTANTS
    Tasks,          \* bound: the tasks that are looked at
    DefaultSecurity,\* a fresh SecurityConfig
    ChipTypes       \* the chips esptool supports, and AutoChip

-----------------------------------------------------------------------------
(* What tasks are made of, as far as the proofs need to know: the types of  *)
(* the program's objects, and any content of them that a user or a file may *)
(* have put there.                                                          *)

Whole == {n \in Int : n % 2 = 0}        \* in halves

Ranges ==
    {f \in [default : Whole, min : Whole, max : Whole] : f.min <= f.default /\ f.default <= f.max}

Values ==
    [t : {"text", "null", "list", "nan"}]
        \cup [t : {"inf", "infText"}, positive : BOOLEAN]
        \cup [t : {"flag"}, b : BOOLEAN]
        \cup [t : {"int", "digits"}, n : Whole]
        \cup [t : {"decimal"}, n : Int]
        \cup [t : {"real"}, n : {n \in Int : ~Beyond(n)}]

Security ==
    [fe : BOOLEAN, sb : BOOLEAN, key_source : STRING, fe_key : KeyFiles, sb_key : KeyFiles,
     fe_block : STRING, sb_block : STRING, mode : STRING, sb_version : STRING, sb_scheme : STRING,
     custom : {"none", "fine", "bad"}, readable : BOOLEAN]

SecuredDevice == [chip : Chips, detected : {"on", "off", "unknown"}, port : STRING, sec : Security]

CheckedDevice == [port : STRING, chip : STRING, mode : STRING, baud : Int]

EditedDevice ==
    [port : STRING, tags : Seq(STRING), firmware : Seq([name : STRING, address : STRING, path : STRING])]

ListedDevice == [words : SUBSET STRING, tags : Seq(STRING)]

\* A list of whatever it has in it
IsList(s) == s \in Seq(ToSet(s))

AbsolutePath(p) ==
    /\ DOMAIN p = {"drive", "names"} /\ IsList(p.names)
    /\ p = [drive |-> p.drive, names |-> p.names]

RelativePath(p) ==
    /\ DOMAIN p = {"up", "names"} /\ p.up \in Nat /\ IsList(p.names)
    /\ p = [up |-> p.up, names |-> p.names]

SavedRow(row) ==
    /\ row = [path |-> row.path, address |-> row.address]
    /\ row.path = <<>> \/ AbsolutePath(row.path)

SavedDevice(device) ==
    /\ device = [id |-> device.id, tags |-> device.tags, security |-> device.security,
                 firmware |-> device.firmware]
    /\ IsList(device.firmware)
    /\ \A i \in DOMAIN device.firmware : SavedRow(device.firmware[i])

\* What json.load gives where a list of rows is expected
ReadRow(row) ==
    row.t = "object" => row.path = <<>> \/ AbsolutePath(row.path) \/ RelativePath(row.path)

ReadDevice(device) ==
    device.t = "object" /\ device.firmware.t = "list" =>
        /\ IsList(device.firmware.items)
        /\ \A i \in DOMAIN device.firmware.items : ReadRow(device.firmware.items[i])

ReadFile(raw) ==
    raw.t = "object" /\ raw.devices.t = "list" =>
        IsList(raw.devices.items) /\ \A d \in DOMAIN raw.devices.items : ReadDevice(raw.devices.items[d])

TypedTask(t) ==
    /\ t.kind = "project" =>
          /\ AbsolutePath(t.base) /\ AbsolutePath(t.place)
          /\ IsList(t.devices) /\ \A d \in DOMAIN t.devices : SavedDevice(t.devices[d])
    /\ t.kind = "file" => AbsolutePath(t.base) /\ ReadFile(t.raw)
    /\ t.kind = "recent" => IsList(t.paths)
    /\ t.kind = "csv" => IsList(t.table.rows)
    /\ t.kind = "bundle" => IsList(t.bundle.members) /\ IsList(t.bundle.table.rows)
    /\ t.kind \in {"int", "float"} => t.field \in Ranges /\ t.raw \in Values \cup {Absent}
    /\ t.kind = "choice" =>
          /\ t.default \in BOOLEAN
          /\ t.raw \in Values \cup {Absent} /\ t.given \in Values \cup {Absent}
          /\ t.options \in Seq(Values) /\ t.options # <<>>
    /\ t.kind = "save" =>
          /\ t.changes \in Seq([key : STRING, value : Values]) /\ t.changes # <<>>
          /\ t.outcomes \in [DOMAIN t.changes -> Outcomes]
          /\ t.store.memory \in [DOMAIN t.store.memory -> Values \cup {Absent}]
          /\ t.store.alive
    /\ t.kind \in {"burns", "panel"} => t.device \in SecuredDevice
    /\ t.kind = "panel" /\ t.touch # <<>> =>
          /\ t.touch[1] # "key_source"             \* a setting and no control
          /\ t.touch[1] \in {"fe_block", "sb_block"} => t.touch[2] # ""
    /\ t.kind = "lines" => t.lines \in Seq(SUBSET {"enabled", "disabled", "true", "false"})
    /\ t.kind = "bench" => t.devices \in Seq(CheckedDevice)
    /\ t.kind = "edit" => t.devices \in [DOMAIN t.devices -> EditedDevice]
    /\ t.kind = "filter" => t.devices \in [DOMAIN t.devices -> ListedDevice]

ASSUME RecordsAssumption == AutoChip \in ChipTypes /\ \A t \in Tasks : TypedTask(t)

VARIABLES
    task,       \* what is given
    result      \* <<>>, or what has been made of it

vars == <<task, result>>

Init == task \in Tasks /\ result = <<>>

Makes(kind, value) ==
    /\ task.kind = kind
    /\ result = <<>>
    /\ result' = <<value>>
    /\ UNCHANGED task

-----------------------------------------------------------------------------
(* The steps. *)

\* A project is saved in one folder and opened in the same or another one.
SaveAndOpen ==
    task.kind = "project" /\
    Makes("project", Load(SavedFile([devices |-> task.devices], task.base), task.place, DefaultSecurity))

\* A file is opened that something else may have written; if it can be read,
\* it is saved and opened again.
OpenFile ==
    task.kind = "file" /\
    Makes("file",
        LET first == Load(task.raw, task.base, DefaultSecurity)
        IN  [first |-> first,
             second |-> IF first.ok
                        THEN Load(SavedFile([devices |-> first.devices], task.base), task.base, DefaultSecurity)
                        ELSE Failure])

\* Projects are opened one after the other.
UseProjects ==
    task.kind = "recent" /\
    Makes("recent", RecentsAfter(task.paths))

ImportFromCsv == task.kind = "csv" /\ Makes("csv", ImportCsv(task.table))

ImportFromBundle == task.kind = "bundle" /\ Makes("bundle", ImportBundle(task.bundle))

\* A device is checked for provisioning, and its commands built.
BuildBurns ==
    task.kind = "burns" /\
    Makes("burns", [errors |-> UploadSecurityErrors(task.device),
                    warnings |-> SecurityWarnings(task.device),
                    signing |-> GenerateSigningKey(task.device.sec),
                    burns |-> Burns(task.device)])

\* A device is selected, one of its controls touched and committed; or it is
\* duplicated.
TouchPanel ==
    task.kind = "panel" /\
    Makes("panel", [committed |-> Commit(Touch(Show(task.device.sec, task.before), task.touch)),
                    clone |-> Clone(task.device)])

\* The output of a security check is read.
ReadState ==
    task.kind = "lines" /\
    Makes("lines", StateOf(task.lines))

\* A setting is read; the dialog shows it, and OK stores what is shown.
ReadInt ==
    task.kind = "int" /\
    Makes("int", LET shown == IntShown(task.field, task.raw)
                 IN  [read |-> IntSetting(task.field, task.raw),
                      reread |-> IF shown.is = "number" THEN IntSetting(task.field, Stored("int", shown)) ELSE shown])

ReadFloat ==
    /\ task.kind = "float"
    /\ \E shown \in FloatShown(task.field, task.raw) :
          Makes("float", [read |-> FloatSetting(task.field, task.raw),
                          reread |-> IF shown.is = "number" THEN FloatSetting(task.field, Stored("real", shown)) ELSE shown])

\* The same of a check box and of a list, which have no range.
ReadChoice ==
    task.kind = "choice" /\
    Makes("choice",
        LET flag == FlagSetting(task.default, task.raw)
            option == OptionShown(task.options, task.given, task.options[1])
        IN  [flag |-> flag, flagAgain |-> FlagSetting(task.default, [t |-> "flag", b |-> flag]),
             option |-> option, optionAgain |-> OptionShown(task.options, option, task.options[1])])

SaveSettings ==
    task.kind = "save" /\ Makes("save", SaveAll(task.store, task.changes, task.outcomes))

\* The bench is checked for an upload and for a dry run.
CheckBench ==
    task.kind = "bench" /\
    Makes("bench",
        [upload |-> BenchErrors(task.devices, task.connected, task.monitored, ChipTypes, FALSE),
         warned |-> {i \in DOMAIN task.devices : BaudWarnings(task.devices[i].baud) # {}},
         unsupported |-> UnsupportedChips(task.devices, ChipTypes),
         dryRun |-> BenchErrors(task.devices, task.connected, task.monitored, ChipTypes, TRUE)])

\* Many devices are edited at once, after a preview.
EditBench ==
    task.kind = "edit" /\
    Makes("edit",
        [field |-> [preview |-> FieldPreview(task.devices, task.targets, task.busy, "port", task.port),
                    after |-> FieldApplied(task.devices, task.targets, task.busy, "port", task.port)],
         tag |-> [preview |-> TagPreview(task.devices, Safe(task.targets, task.busy), task.tag),
                  after |-> TagApplied(task.devices, Safe(task.targets, task.busy), task.tag)],
         firmware |-> [preview |-> FirmwarePreview(task.devices, task.targets, task.busy, task.entries),
                       after |-> FirmwareApplied(task.devices, task.targets, task.busy, task.entries)]])

\* The rows are filtered, by a tag that was selected before.
FilterRows ==
    task.kind = "filter" /\
    Makes("filter", LET tag == TagSelected(task.devices, task.tag)
                    IN  [tag |-> tag, rows |-> RowsVisible(task.devices, task.query, tag)])

Next ==
    \/ SaveAndOpen \/ OpenFile \/ UseProjects
    \/ ImportFromCsv \/ ImportFromBundle
    \/ BuildBurns \/ TouchPanel \/ ReadState
    \/ ReadInt \/ ReadFloat \/ ReadChoice \/ SaveSettings
    \/ CheckBench \/ EditBench \/ FilterRows

Spec == Init /\ [][Next]_vars

-----------------------------------------------------------------------------
(* Properties. *)

Made(kind) == result # <<>> /\ task.kind = kind
It == result[1]

Below(path, base) == path.drive = base.drive /\ IsPrefix(base.names, path.names)

\* Where a file is after its folder `base` has become `place`: it moves along
\* if it is below the folder.  Nothing is said of the other files of a folder
\* that moves on their own drive.
MovedAlong(path, base, place) ==
    IF path = <<>> \/ base = place THEN path
    ELSE IF ~IsAbsolute(path) THEN path
    ELSE IF Below(path, base)
    THEN [drive |-> place.drive, names |-> place.names \o SubSeq(path.names, Len(base.names) + 1, Len(path.names))]
    ELSE path

Determined(path, base, place) ==
    path = <<>> \/ base = place \/ Below(path, base) \/ path.drive # base.drive

WithinLimits(devices) ==
    /\ Len(devices) <= MaxDevices
    /\ \A d \in DOMAIN devices : Len(devices[d].firmware) <= MaxEntries

SavedIsOpened ==
    /\ ~It.warned
    /\ Len(It.devices) = Len(task.devices)
    /\ \A d \in DOMAIN It.devices :
          LET was == task.devices[d]
              is == It.devices[d]
          IN  /\ is.id = was.id /\ is.tags = was.tags /\ is.security = was.security
              /\ Len(is.firmware) = Len(was.firmware)
              /\ \A i \in DOMAIN is.firmware :
                    /\ is.firmware[i].address = was.firmware[i].address
                    /\ Determined(was.firmware[i].path, task.base, task.place) =>
                          is.firmware[i].path = MovedAlong(was.firmware[i].path, task.base, task.place)

\* What is written can be written, and is not longer than what is read
Fits(devices, base) ==
    LET file == Written([devices |-> devices], base)
    IN  Encodable(file) /\ ~(Bytes(file) > MaxFileSize)

\* A project that is saved opens again if it and its file are within the limits,
\* which only loading looks at, and its text can be encoded: in its place as it
\* was and without a warning, and elsewhere with the firmware of its own folder,
\* while files on other drives stay where they are (project_io.save_project,
\* load_project).
SavedOpensAgain ==
    Made("project") =>
        /\ It.ok = (WithinLimits(task.devices) /\ Fits(task.devices, task.base))
        /\ It.ok => SavedIsOpened

\* Whatever is in a file, it is refused or makes a project that is within the
\* limits and that the next save and open leave as it is, if what is written then
\* fits: it may be longer than what was read.
OpenedIsStable ==
    Made("file") /\ It.first.ok =>
        /\ Len(It.first.devices) <= MaxDevices
        /\ \A d \in DOMAIN It.first.devices :
              /\ Len(It.first.devices[d].firmware) <= MaxEntries
              /\ \A i \in DOMAIN It.first.devices[d].firmware :
                    LET path == It.first.devices[d].firmware[i].path
                    IN  path = <<>> \/ IsAbsolute(path)
        /\ It.second.ok = Fits(It.first.devices, task.base)
        /\ It.second.ok => ~It.second.warned /\ It.second.devices = It.first.devices

\* The recent projects are the last ones that were used, the latest first, each
\* once and as it was last spelled.
LastUse(paths) ==
    {i \in DOMAIN paths : \A j \in (i + 1)..Len(paths) : paths[j].file # paths[i].file}

RecentsAreLatest ==
    Made("recent") =>
        /\ Len(It) <= MaxRecent
        /\ \E at \in [DOMAIN It -> LastUse(task.paths)] :
              /\ \A i \in DOMAIN It : It[i] = task.paths[at[i]]
              /\ \A i, j \in DOMAIN It : i < j => at[i] > at[j]
              /\ \A u \in LastUse(task.paths) \ {at[i] : i \in DOMAIN It} :
                    Len(It) = MaxRecent /\ \A i \in DOMAIN It : at[i] > u

ProjectSurvives == SavedOpensAgain /\ OpenedIsStable /\ RecentsAreLatest

\* The rows of a table that have become devices are those that are not
\* reported: every row is one or the other, in the order of the table.
Unreported(count, errors) == {i \in 1..count : ~Contains(errors, i)}

InOrder(numbers, count) == Keep([i \in 1..count |-> i], numbers)

CsvIsExact ==
    Made("csv") =>
        LET table == task.table
            count == Len(table.rows)
            good == InOrder(Unreported(count, It.errors), count)
        IN  IF "name" \notin table.header THEN It = NoDevices(<<0>>)
            ELSE /\ \A i \in DOMAIN It.errors :
                       It.errors[i] \in 1..count /\ ~CsvRowIsGood(table, table.rows[It.errors[i]])
                 /\ \A i, j \in DOMAIN It.errors : i < j => It.errors[i] < It.errors[j]
                 /\ It.devices = [i \in DOMAIN good |-> CsvDevice(table, table.rows[good[i]])]

\* Nothing of a bundle is written outside its folder.  Of a bundle that is
\* accepted every row up to the limit is reported, and then it names no device or
\* no .bin file of the bundle, or it names both and is one entry of the one
\* device with its name, with the entries in the order of the rows
\* (zip_manifest_import._parse_manifest, _apply_row).
NameIn(table, i) == table.rows[i]["device_name"]

NamedRows(table, rows, name) == {i \in rows : NameIn(table, i) = name}

EntriesOf(table, rows, written) == [i \in DOMAIN rows |-> EntryOf(table, table.rows[rows[i]], written)]

\* The row names a device, and a .bin file of the bundle
Bundled(table, i, written) ==
    /\ Cell(table, table.rows[i], "device_name") # Blank
    /\ Cell(table, table.rows[i], "firmware_file") # Blank
    /\ \E path \in written :
          /\ Last(path) \in BinNames
          /\ Lower(Last(path)) = Lower(Cell(table, table.rows[i], "firmware_file"))

RowsAreEntries(made, table, count) ==
    LET good == Unreported(count, made.errors)
    IN  /\ \A i \in ToSet(made.errors) :
              \/ i = MaxRows + 1 /\ Len(table.rows) > MaxRows
              \/ i \in 1..count /\ ~Bundled(table, i, made.written)
        /\ \A i \in good : Bundled(table, i, made.written)
        /\ \A c, d \in DOMAIN made.devices : made.devices[c].name = made.devices[d].name => c = d
        /\ {NameIn(table, i) : i \in good} = {made.devices[d].name : d \in DOMAIN made.devices}
        /\ \A d \in DOMAIN made.devices :
              made.devices[d].firmware =
                  EntriesOf(table, InOrder(NamedRows(table, good, made.devices[d].name), count), made.written)

BundleIsExact ==
    Made("bundle") =>
        LET table == task.bundle.table
        IN  /\ \A path \in It.written : Len(path) > Len(ExtractDir) /\ IsPrefix(ExtractDir, path)
            /\ It.raised => It.devices = <<>>
            /\ ~It.raised =>
                  IF {"device_name", "firmware_file"} \subseteq table.header
                  THEN RowsAreEntries(It, table, IF Len(table.rows) < MaxRows THEN Len(table.rows) ELSE MaxRows)
                  ELSE It.devices = <<>> /\ It.errors = <<0>>

ImportsAreExact == CsvIsExact /\ BundleIsExact

VersionOffered(sec) == sec.sb_version \in ToSet(VersionItems) /\ sec.sb_scheme \in ToSet(SchemeItems)

\* A device whose settings pass the checks has a command for each feature that
\* is on, it names the chip and a block, and a key that should exist does; it is
\* as long as a key if there is no warning.  On a chip with blocks of its own for
\* each version a signing key is made for the version of its block, if the version
\* and the scheme are those the panel offers.
PassedCanBurn ==
    Made("burns") /\ It.errors = {} =>
        /\ Len(It.burns) = Cardinality({f \in {"fe", "sb"} : task.device.sec[f]})
        /\ \A i \in DOMAIN It.burns :
              /\ It.burns[i] # Refused
              /\ It.burns[i].chip # "detect"
              /\ It.burns[i].block # ""
              /\ task.device.sec.key_source = "existing" =>
                    /\ Found(It.burns[i].key)
                    /\ It.warnings = {} /\ task.device.sec.fe /\ i = 1 => It.burns[i].key = "aes"
        /\ task.device.sec.sb /\ IsLegacy(task.device.chip) /\ VersionOffered(task.device.sec) =>
              (It.signing.scheme = "") = (Last(It.burns).block = "secure_boot_v1")

\* A control that is touched gives the setting it is for its value and changes no
\* other, whatever device was shown before, if the values are those the panel
\* offers.  The key source of flash encryption is for none: it shares its setting
\* with that of secure boot, which alone is kept (_commit of
\* security_settings_widget).  And a copy of a device shares no key with it that
\* was generated for it.
Offered(sec) ==
    /\ VersionOffered(sec)
    /\ sec.mode \in ToSet(ModeItems)
    /\ sec.key_source \in Sources
    /\ sec.fe_block # "" /\ sec.sb_block # ""

SettingOf(control) == IF control = "sb_source" THEN "key_source" ELSE control

TouchChangesOne ==
    Made("panel") =>
        /\ Offered(task.device.sec) =>
              \A setting \in DOMAIN task.device.sec :
                 It.committed[setting] = IF task.touch # <<>> /\ SettingOf(task.touch[1]) = setting
                                         THEN task.touch[2] ELSE task.device.sec[setting]
        /\ task.device.sec.key_source \in Sources => \A key \in {"fe_key", "sb_key"} :
              It.clone.sec[key] = task.device.sec[key] =>
                  It.clone.sec[key] = "none" \/ It.clone.sec.key_source = "existing"

\* The state a check reports is that of the last line that says one.
Says(line) ==
    IF line \cap {"enabled", "disabled", "true", "false"} = {} THEN "nothing"
    ELSE IF "enabled" \in line THEN "on"
    ELSE IF "disabled" \in line THEN "off"
    ELSE IF "true" \in line THEN "on" ELSE "off"

LastLineCounts ==
    Made("lines") =>
        LET saying == {i \in DOMAIN task.lines : Says(task.lines[i]) # "nothing"}
        IN  It = IF saying = {} THEN "unknown"
                 ELSE Says(task.lines[CHOOSE i \in saying : \A j \in saying : j <= i])

SecurityIsSound == PassedCanBurn /\ TouchChangesOne /\ LastLineCounts

\* What a comment of _commit says of the two key sources (line 333): "whichever
\* combo the user touched last wins".
LastTouchedWins ==
    /\ Made("panel") /\ task.device.sec.key_source \in Sources
    /\ task.touch # <<>> /\ task.touch[1] \in {"fe_source", "sb_source"}
    => It.committed.key_source = task.touch[2]

\* Whatever is in settings.json, a getter gives a number in its range, unless it
\* raises: that of a whole number for an infinity and that of a float for an int
\* no float can have (app_settings.get_max_parallel_flashes and the other
\* getters).  Where the dialog opens, OK changes what is in force by half a unit
\* at most, apart from no number ("nan"), which the dialog shows as the maximum.
Near(m, n) == m - n \in -1..1

InRange(field, n) == n >= field.min /\ n <= field.max

Raises(kind, raw) ==
    IF kind = "int" THEN raw.t = "inf"
    ELSE raw.t = "int" /\ raw.n \notin -LargestFloat..LargestFloat

ReadingsAreInRange ==
    /\ Made("int") \/ Made("float") =>
          /\ IF Raises(task.kind, task.raw)
             THEN It.read.is = "overflow"
             ELSE It.read.is = "number" /\ InRange(task.field, It.read.n)
          /\ It.reread.is = "number" =>
                /\ It.read.is = "number" /\ InRange(task.field, It.reread.n)
                /\ task.raw.t # "nan" => Near(It.reread.n, It.read.n)
    /\ Made("choice") =>
          /\ It.flagAgain = It.flag
          /\ It.optionAgain = It.option /\ It.option \in ToSet(task.options)

\* However the writes of an OK end, what is on the disk is the old file or the
\* memory after one of them, and if the last has been written the whole memory.
MemoryAfter(store, changes, n) ==
    [key \in DOMAIN store.memory |->
        LET of == {i \in 1..n : changes[i].key = key}
        IN  IF of = {} THEN store.memory[key]
            ELSE changes[CHOOSE i \in of : \A j \in of : j <= i].value]

DiskIsAMemory ==
    Made("save") =>
        /\ \/ It.disk = task.store.disk
           \/ \E n \in 1..Len(task.changes) : It.disk = MemoryAfter(task.store, task.changes, n)
        /\ It.alive /\ task.outcomes[Len(task.changes)] = "written" =>
              It.disk = MemoryAfter(task.store, task.changes, Len(task.changes))

SettingsHold == ReadingsAreInRange /\ DiskIsAMemory

\* What the getters' comments promise of a corrupted or edited settings.json:
\* each of them falls back to its default or clamps (app_settings.py:208).
GettersNeverRaise == Made("int") \/ Made("float") => It.read.is = "number"

\* The devices an upload is let through with have ports of their own that are
\* connected and not monitored; and the errors of a dry run are those of an
\* upload apart from the ports that are not there.  A chip that is an error then
\* has been named when the project was opened.
UploadIsSound ==
    Made("bench") =>
        /\ (\A i \in DOMAIN task.devices : It.upload[i] = {}) =>
              /\ \A i, j \in DOMAIN task.devices :
                    task.devices[i].port = task.devices[j].port => i = j
              /\ \A i \in DOMAIN task.devices :
                    task.devices[i].port \in task.connected \ task.monitored
              /\ {i \in DOMAIN task.devices : task.devices[i].baud \notin BaudRates} = It.warned
        /\ \A i \in DOMAIN task.devices :
              task.devices[i].chip # "" => (i \in It.unsupported) = ("chip" \in It.upload[i])
        /\ \A i \in DOMAIN task.devices :
              /\ It.dryRun[i] \ {"monitored"} = It.upload[i] \ {"monitored", "not connected"}
              /\ "monitored" \in It.upload[i] => "monitored" \in It.dryRun[i]

\* A preview lists the devices that differ afterwards and no others.  That of
\* firmware is exact as far as its own summary goes: it lists the devices whose
\* names and addresses differ, and a file that is replaced by one of the same name
\* from another folder is not listed (preview_firmware_assignment).
Differs(edit, Part(_)) ==
    {d \in DOMAIN task.devices : Part(task.devices[d]) # Part(edit.after[d])}

PreviewsAreExact ==
    Made("edit") =>
        /\ It.field.preview = Differs(It.field, LAMBDA d : d)
        /\ It.tag.preview = Differs(It.tag, LAMBDA d : d)
        /\ It.firmware.preview = Differs(It.firmware, LAMBDA d : Summary(d.firmware))
        /\ \A d \in task.busy \cap DOMAIN task.devices :
              /\ It.field.after[d] = task.devices[d]
              /\ It.tag.after[d] = task.devices[d]
              /\ It.firmware.after[d] = task.devices[d]

\* No row is hidden by a tag that no device has.
FilterShowsSome ==
    Made("filter") => (task.query = "" /\ DOMAIN task.devices # {} => It.rows # {})

ChecksAreExact == UploadIsSound /\ PreviewsAreExact /\ FilterShowsSome
=============================================================================
