------------------------------ MODULE Imports ------------------------------
(***************************************************************************)
(* Devices from a CSV file and from a firmware bundle:                     *)
(* app/project_manager/csv_import.py, zip_manifest_import.py.              *)
(*                                                                         *)
(* A table is a header, the set of its columns, and rows; a cell is Blank, *)
(* or a value, or Unreadable where a number is wanted and none is given.   *)
(* Operators only.                                                         *)
(***************************************************************************)
EXTENDS Naturals, SequencesExt

CONSTANTS
    Blank,          \* an empty cell
    Unreadable,     \* a text where a number is wanted
    DefaultChip,    \* DEFAULT_CHIP
    DefaultBaud,    \* DEFAULT_BAUD
    KnownAddress,   \* the address for the name of a file, in lower case
    BinNames,       \* the names "*.bin" matches
    Lower(_),       \* a name in lower case
    MaxRows,        \* MAX_ZIP_MANIFEST_ROWS
    MaxSize         \* MAX_ZIP_BUNDLE_SIZE_BYTES

ASSUME ImportsAssumption ==
    /\ Blank # Unreadable
    /\ MaxRows \in Nat /\ MaxSize \in Nat

\* get() of both importers
Cell(table, row, column) == IF column \in table.header THEN row[column] ELSE Blank

Or(cell, default) == IF cell = Blank THEN default ELSE cell

Tags(cell) == IF cell = Blank THEN <<>> ELSE cell

-----------------------------------------------------------------------------
(* CSV. *)

CsvRowIsGood(table, row) ==
    /\ Cell(table, row, "name") # Blank
    /\ Cell(table, row, "baud_rate") # Unreadable

\* _row_to_device
CsvDevice(table, row) ==
    [name |-> Cell(table, row, "name"),
     port |-> Cell(table, row, "com_port"),
     chip |-> Or(Cell(table, row, "chip_type"), DefaultChip),
     baud |-> Or(Cell(table, row, "baud_rate"), DefaultBaud),
     tags |-> Tags(Cell(table, row, "tags"))]

NoDevices(errors) == [devices |-> <<>>, errors |-> errors]

\* A row that is no good is reported by its number, and the others go on.
CsvStep(table, done, i) ==
    IF CsvRowIsGood(table, table.rows[i])
    THEN [done EXCEPT !.devices = Append(@, CsvDevice(table, table.rows[i]))]
    ELSE [done EXCEPT !.errors = Append(@, i)]

\* import_devices_from_csv; 0 is the error about the header.
ImportCsv(table) ==
    IF "name" \notin table.header THEN NoDevices(<<0>>)
    ELSE LET after[i \in 0..Len(table.rows)] ==
                IF i = 0 THEN NoDevices(<<>>) ELSE CsvStep(table, after[i - 1], i)
         IN  after[Len(table.rows)]

-----------------------------------------------------------------------------
(* Bundles: the archive. *)

ExtractDir == <<"appdata", "bundle">>

\* Path.resolve() of a member's name in the folder of the bundle
Target(member) ==
    FoldLeft(LAMBDA path, name : IF name # ".." THEN Append(path, name)
                                 ELSE IF path = <<>> THEN path ELSE Front(path),
             IF member.absolute THEN <<>> ELSE ExtractDir,
             member.names)

\* Below the folder: the folder itself passes the check, and cannot be opened
\* for writing.
InBundle(path) == Len(path) > Len(ExtractDir) /\ IsPrefix(ExtractDir, path)

\* _safe_extract_all stops at the first member that would be written elsewhere;
\* those before it have been written.
NothingWritten == [safe |-> TRUE, written |-> {}]

ExtractStep(done, member) ==
    IF ~done.safe THEN done
    ELSE IF InBundle(Target(member))
    THEN [safe |-> TRUE, written |-> done.written \cup {Target(member)}]
    ELSE [safe |-> FALSE, written |-> done.written]

Extracted(members) ==
    LET after[i \in 0..Len(members)] ==
            IF i = 0 THEN NothingWritten ELSE ExtractStep(after[i - 1], members[i])
    IN  after[Len(members)]

SizeOf(members) == FoldLeft(LAMBDA sum, member : sum + member.size, 0, members)

\* _find_manifest
HasManifest(written) == \E path \in written : Lower(Last(path)) = "manifest.csv"

\* _index_bin_files: the files a row may mean that names one of them, in whatever
\* folder; the one indexed last is taken.
FilesOfAnyKind(written, name) ==                    \* mutant: every file is indexed
    {path \in written : Lower(Last(path)) = Lower(name)}

BinFiles(written, name) ==
    {path \in written : Last(path) \in BinNames /\ Lower(Last(path)) = Lower(name)}

Indexed(written, name) == CHOOSE path \in BinFiles(written, name) : TRUE

-----------------------------------------------------------------------------
(* Bundles: the manifest. *)

RowIsGood(table, row, written) ==
    /\ Cell(table, row, "device_name") # Blank
    /\ Cell(table, row, "firmware_file") # Blank
    /\ BinFiles(written, Cell(table, row, "firmware_file")) # {}

\* The FirmwareEntry of a row
EntryOf(table, row, written) ==
    LET name == Cell(table, row, "firmware_file")
    IN  [file |-> Indexed(written, name),
         address |-> Or(Cell(table, row, "address"), KnownAddress[Lower(name)]),
         enabled |-> Cell(table, row, "enabled") # "false"]

NewBundleDevice(table, row) ==
    [name |-> Cell(table, row, "device_name"),
     chip |-> Or(Cell(table, row, "chip_type"), DefaultChip),
     tags |-> <<>>, firmware |-> <<>>]

\* A later row names the chip if none has been named so far.
NamedChip(device, cell) == IF device.chip = DefaultChip THEN Or(cell, DefaultChip) ELSE device.chip

AddTags(tags, more) ==
    FoldLeft(LAMBDA all, tag : IF Contains(all, tag) THEN all ELSE Append(all, tag), tags, more)

\* _apply_row, of a row that is good
WithRowAnew(devices, table, row, written) ==        \* mutant: each row its own device
    Append(devices, [NewBundleDevice(table, row) EXCEPT
                        !.tags = AddTags(@, Tags(Cell(table, row, "tags"))),
                        !.firmware = <<EntryOf(table, row, written)>>])

\* The device after one more row
Extended(device, table, row, written) ==
    [name |-> device.name,
     chip |-> NamedChip(device, Cell(table, row, "chip_type")),
     tags |-> AddTags(device.tags, Tags(Cell(table, row, "tags"))),
     firmware |-> Append(device.firmware, EntryOf(table, row, written))]

WithRow(devices, table, row, written) ==
    LET named == {i \in DOMAIN devices : devices[i].name = Cell(table, row, "device_name")}
        known == CHOOSE i \in named : TRUE
    IN  IF named = {} THEN Append(devices, Extended(NewBundleDevice(table, row), table, row, written))
        ELSE [devices EXCEPT ![known] = Extended(devices[known], table, row, written)]

ManifestStep(table, written, done, i) ==
    IF RowIsGood(table, table.rows[i], written)
    THEN [done EXCEPT !.devices = WithRow(@, table, table.rows[i], written)]
    ELSE [done EXCEPT !.errors = Append(@, i)]

\* The row after the limit is an error.
Limited(table, done) ==
    IF Len(table.rows) > MaxRows THEN [done EXCEPT !.errors = Append(@, MaxRows + 1)] ELSE done

\* _parse_manifest: the rows up to the limit.
Manifest(table, written) ==
    IF ~({"device_name", "firmware_file"} \subseteq table.header) THEN NoDevices(<<0>>)
    ELSE LET count == IF Len(table.rows) > MaxRows THEN MaxRows ELSE Len(table.rows)
             after[i \in 0..count] ==
                IF i = 0 THEN NoDevices(<<>>) ELSE ManifestStep(table, written, after[i - 1], i)
         IN  Limited(table, after[count])

\* import_devices_from_zip_bundle: what it returns, or that it raises, and what
\* is in the folder of the bundle afterwards.
Raised(written) == [raised |-> TRUE, written |-> written, devices |-> <<>>, errors |-> <<>>]

ImportBundle(bundle) ==
    LET extracted == Extracted(bundle.members)
        read == Manifest(bundle.table, extracted.written)
    IN  IF ~bundle.isZip \/ SizeOf(bundle.members) > MaxSize THEN Raised({})
        ELSE IF ~extracted.safe \/ ~HasManifest(extracted.written) THEN Raised(extracted.written)
        ELSE [raised |-> FALSE, written |-> extracted.written,
              devices |-> read.devices, errors |-> read.errors]
=============================================================================
