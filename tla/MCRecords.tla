------------------------------ MODULE MCRecords ------------------------------
(* The tasks of Records that TLC looks at. *)
EXTENDS Records

Sequences(set, n) == UNION {[1..k -> set] : k \in 0..n}

-----------------------------------------------------------------------------
(* Projects: two drives, folders inside one another and beside.  *)

On(drive, names) == [drive |-> drive, names |-> names]

Folders == {On("C", <<"work">>), On("C", <<"work", "old">>), On("C", <<>>), On("D", <<"work">>)}

FirmwarePaths == {<<>>, On("C", <<"work", "app">>), On("C", <<"work", "old", "app">>),
                  On("C", <<"lib">>), On("D", <<"work", "app">>)}

Rows == {[path |-> p, address |-> "0x0"] : p \in FirmwarePaths}

SomeDevices ==
    {[id |-> "d1", tags |-> tags, security |-> "on", firmware |-> rows] :
        tags \in {<<>>, <<"t", "u">>, <<"surrogate">>}, rows \in Sequences(Rows, 2)}

OtherDevice == [id |-> "d2", tags |-> <<>>, security |-> "default",
                firmware |-> <<[path |-> On("C", <<"work", "app">>), address |-> "0x1"]>>]

ProjectTasks ==
    [kind : {"project"}, base : Folders, place : Folders,
     devices : {<<>>} \cup {<<d>> : d \in SomeDevices} \cup {<<OtherDevice, d>> : d \in SomeDevices}
                 \cup {<<OtherDevice, OtherDevice, d>> : d \in {e \in SomeDevices : e.tags = <<>>}}
                 \cup {<<[OtherDevice EXCEPT !.firmware = @ \o @ \o @]>>}]

\* One unit for each object of a file; and one tag is half of a character.
MCBytes(raw) ==
    IF raw.devices.t # "list" THEN 1
    ELSE FoldLeft(LAMBDA sum, device :
                      sum + (IF device.t # "object" THEN 0
                             ELSE 1 + (IF device.security.t = "object" THEN 1 ELSE 0) + Len(ItemsOf(device.firmware))),
                  1, raw.devices.items)

MCEncodable(file) == \A d \in DOMAIN file.devices.items : ~Contains(file.devices.items[d].tags.items, "surrogate")

\* What a field of a file may be.
Object(fields) == [t |-> "object"] @@ fields
Wrong == {[t |-> "absent"], [t |-> "empty"], [t |-> "number"]}
RelativePaths == {[up |-> 0, names |-> <<"app">>], [up |-> 2, names |-> <<"app">>], [up |-> 1, names |-> <<>>]}
RawRow == Object([path |-> <<>>, address |-> "0x0"])
RawRows == {Object([path |-> p, address |-> "0x0"]) : p \in RelativePaths \cup {On("D", <<"app">>)}}
RawFirmware ==
    Wrong \cup {[t |-> "text", chars |-> <<"a">>]}
          \cup {List(rows) : rows \in {<<>>} \cup {<<r>> : r \in RawRows} \cup {<<RawRow, r>> : r \in RawRows \cup {[t |-> "text", chars |-> <<"a">>]}}
                                      \cup {<<RawRow, RawRow, RawRow>>}}
RawDevices ==
    {Object([id |-> "d1", tags |-> tags, security |-> sec, firmware |-> rows]) :
        tags \in {[t |-> "absent"], [t |-> "number"], [t |-> "text", chars |-> <<"a", "b">>], List(<<"surrogate">>)},
        sec \in {[t |-> "absent"], [t |-> "text", chars |-> <<"a">>], Object([value |-> "on"])},
        rows \in RawFirmware}

GoodDevice == Object([id |-> "d2", tags |-> List(<<>>), security |-> [t |-> "absent"], firmware |-> List(<<RawRow>>)])

RawFiles ==
    {[t |-> "unreadable"], [t |-> "other"]}
        \cup {Object([version |-> v, devices |-> devices]) :
                v \in {<<1, 0>>, <<2>>, <<0, 9, 9>>},
                devices \in Wrong \cup {[t |-> "text", chars |-> <<"a">>]}
                    \cup {List(<<>>), List(<<GoodDevice, GoodDevice, GoodDevice>>), List(<<[t |-> "number"]>>)}
                    \cup {List(<<d>>) : d \in RawDevices} \cup {List(<<GoodDevice, d>>) : d \in RawDevices}}

FileTasks == [kind : {"file"}, raw : RawFiles, base : {On("C", <<"work">>), On("C", <<>>)}]

RecentTasks ==
    [kind : {"recent"}, paths : Sequences([file : {"p", "q", "r"}, spelling : {"short", "long"}], 4)]

-----------------------------------------------------------------------------
(* Imports. *)

MCKnownAddress == [file \in {"app.bin", "boot.bin", "readme.txt"} |-> IF file = "app.bin" THEN "0x10000" ELSE "0x1000"]
MCLower(name) == IF name = "App.bin" THEN "app.bin" ELSE IF name = "Manifest.csv" THEN "manifest.csv" ELSE name

CsvColumns == {"name", "com_port", "chip_type", "baud_rate", "tags"}
CsvRows ==
    [name : {Blank, "n1"}, com_port : {"COM1"}, chip_type : {Blank, "esp32s3"},
     baud_rate : {Blank, Unreadable, "9600"}, tags : {Blank, <<"t", "u">>}]
CsvTasks ==
    [kind : {"csv"},
     table : [header : {CsvColumns, CsvColumns \ {"name"}, {"name", "baud_rate"}}, rows : Sequences(CsvRows, 2)]
        \cup [header : {CsvColumns},
              rows : [1..3 -> {r \in CsvRows : r.chip_type = Blank /\ r.tags = Blank /\ r.baud_rate # "9600"}]]]

Members(extra) ==
    [names : {<<"Manifest.csv">>, <<"sub", "app.bin">>, <<"boot.bin">>, <<"readme.txt">>} \cup extra, absolute : {FALSE}, size : {1}]

Outside ==
    {[names |-> <<"..", "app.bin">>, absolute |-> FALSE, size |-> 1],
     [names |-> <<"sub", "..">>, absolute |-> FALSE, size |-> 1],
     [names |-> <<"sub", "..", "..", "bundle", "app.bin">>, absolute |-> FALSE, size |-> 2],
     [names |-> <<"appdata", "app.bin">>, absolute |-> TRUE, size |-> 1]}

Manifests == {[names |-> <<"manifest.csv">>, absolute |-> FALSE, size |-> 1]}

BundleRows ==
    [device_name : {Blank, "n1", "n2"}, firmware_file : {"App.bin", "boot.bin", "readme.txt"},
     chip_type : {Blank, "esp32s3"}, tags : {Blank, <<"t">>}, address : {Blank}, enabled : {"false"}]

BundleColumns == {"device_name", "firmware_file", "chip_type", "tags", "address", "enabled"}

BundleTasks ==
    [kind : {"bundle"},
     bundle : [isZip : BOOLEAN,
               members : Sequences(Members({}) \cup Outside, 2) \cup {s \o m : s \in [1..2 -> Outside], m \in Sequences(Manifests, 1)},
               table : [header : {BundleColumns, {"firmware_file"}}, rows : Sequences({r \in BundleRows : r.tags = Blank /\ r.chip_type = Blank}, 1)]]
        \cup [isZip : {TRUE},
              members : {<<[names |-> <<"manifest.csv">>, absolute |-> FALSE, size |-> 1],
                           [names |-> <<"sub", "app.bin">>, absolute |-> FALSE, size |-> 1]>> \o m : m \in Sequences(Members({}) , 1)},
              table : [header : {BundleColumns, BundleColumns \ {"chip_type"}}, rows : Sequences({r \in BundleRows : r.firmware_file # "readme.txt"}, 2)]
                \cup [header : {BundleColumns},
                      rows : UNION {[1..k -> {r \in BundleRows : r.tags = Blank /\ r.chip_type = Blank /\ r.firmware_file # "readme.txt"}] : k \in 3..4}]]]

-----------------------------------------------------------------------------
(* Security. *)

SecurityConfigs ==
    [fe : BOOLEAN, sb : BOOLEAN, key_source : Sources, fe_key : KeyFiles, sb_key : KeyFiles,
     fe_block : {"", "BLOCK_KEY0"}, sb_block : {"", "BLOCK_KEY1"}, mode : {"release"},
     sb_version : {"1", "2", "3"}, sb_scheme : {"rsa3072"}, custom : {"fine", "bad"}, readable : {FALSE}]

BurnTasks ==
    {[kind |-> "burns", device |-> [chip |-> chip, detected |-> "unknown", port |-> "p", sec |-> sec]] :
        chip \in Chips, sec \in SecurityConfigs}
    \cup {[kind |-> "burns", device |-> [chip |-> "esp32", detected |-> "on", port |-> "p", sec |-> sec]] :
            sec \in {s \in SecurityConfigs : ~s.fe /\ ~s.sb /\ s.fe_key = "none" /\ s.sb_key = "none"}}

PanelConfigs ==
    [fe : {TRUE}, sb : BOOLEAN, key_source : Sources \cup {"other"}, fe_key : {"none", "aes"}, sb_key : {"none", "aes"},
     fe_block : {"", "BLOCK_KEY2"}, sb_block : {"", "BLOCK_KEY1"},
     mode : {"development", "release", "other"}, sb_version : {"1", "2", "3"}, sb_scheme : {"rsa3072", "ecdsa256", "rsa"},
     custom : {"none"}, readable : BOOLEAN]

PanelTasks ==
    {[kind |-> "panel", before |-> before, touch |-> touch, device |-> [chip |-> "esp32", detected |-> "on", port |-> "p", sec |-> sec]] :
        sec \in PanelConfigs, before \in [sb_version : {"1", "2"}, sb_scheme : {"ecdsa256"}],
        touch \in {<<>>, <<"sb_source", "existing">>, <<"fe_source", "existing">>, <<"mode", "release">>}}

LineTasks ==
    [kind : {"lines"}, lines : Sequences(SUBSET {"enabled", "disabled", "true", "false"}, 3)]

-----------------------------------------------------------------------------
(* Settings, in halves. *)

SomeFields == {[default |-> 4, min |-> 2, max |-> 8], [default |-> 6, min |-> 6, max |-> 6]}

Raw ==
    {Absent} \cup {[t |-> t] : t \in {"text", "null", "list", "nan"}}
        \cup [t : {"inf", "infText"}, positive : BOOLEAN]
        \cup [t : {"flag"}, b : BOOLEAN]
        \cup [t : {"int", "digits"}, n : {2 * k : k \in -11..11}]
        \cup [t : {"decimal"}, n : -21..21]
        \cup [t : {"real"}, n : {n \in -21..21 : ~Beyond(n)}]

NumberTasks == [kind : {"int", "float"}, field : SomeFields, raw : Raw]

ChoiceTasks ==
    [kind : {"choice"}, default : BOOLEAN, raw : Raw,
     given : {Absent, [t |-> "text"], [t |-> "null"]} \cup [t : {"int"}, n : {0, 2, 4}],
     options : {<<[t |-> "int", n |-> 0], [t |-> "int", n |-> 2]>>, <<[t |-> "text"]>>}]

Memories == [{"theme", "baud"} -> {Absent, [t |-> "int", n |-> 2]}]
Changes == [key : {"theme", "baud"}, value : {[t |-> "int", n |-> n] : n \in {4, 6}}]

SaveTasks ==
    {[kind |-> "save", changes |-> changes, outcomes |-> outcomes,
      store |-> [memory |-> memory, disk |-> memory, alive |-> TRUE]] :
        memory \in Memories, changes \in [1..3 -> Changes], outcomes \in [1..3 -> Outcomes]}

-----------------------------------------------------------------------------
(* The bench. *)

BenchDevices == [port : {"", "p", "q"}, chip : {"esp32", "esp99", ""}, mode : {"dio"}, baud : {299, 300, 301, 5000001}]

BenchTasks ==
    [kind : {"bench"}, devices : Sequences(BenchDevices, 2)
                        \cup [1..3 -> {d \in BenchDevices : d.chip = "esp32" /\ d.baud = 300}],
     connected : SUBSET {"p", "q"}, monitored : SUBSET {"p", "q"}]

Entries == [name : {"app", "boot"}, address : {"0x0"}, path : {"here", "there"}]

EditDevices == [port : {"p", "q"}, tags : {<<>>, <<"t">>}, firmware : Sequences(Entries, 1)
                  \cup {<<e, f>> : e \in {[name |-> "app", address |-> "0x0", path |-> "here"]}, f \in Entries}]

EditTasks ==
    [kind : {"edit"},
     devices : {d :> e : d \in {"d1"}, e \in EditDevices}
        \cup {("d1" :> e) @@ ("d2" :> [port |-> "q", tags |-> <<"t">>, firmware |-> <<>>]) : e \in EditDevices},
     targets : {{}, {"d1"}, {"d1", "d2"}}, busy : SUBSET {"d1", "d2"},
     port : {"p"}, tag : {"t"}, entries : {<<>>} \cup {<<[name |-> "app", address |-> "0x0", path |-> "here"]>>}
        \cup {<<[name |-> "app", address |-> "0x0", path |-> "here"], e>> : e \in Entries}]

FilterTasks ==
    [kind : {"filter"}, query : {"", "x"}, tag : {AllTags, "t", "u"},
     devices : UNION {[ids -> [words : SUBSET {"x"}, tags : {<<>>, <<"t">>, <<"u">>}]] : ids \in SUBSET {"d1", "d2"}}]

MCTasks ==
    ProjectTasks \cup FileTasks \cup RecentTasks \cup CsvTasks \cup BundleTasks
        \cup BurnTasks \cup PanelTasks \cup LineTasks
        \cup NumberTasks \cup ChoiceTasks \cup SaveTasks
        \cup BenchTasks \cup EditTasks \cup FilterTasks

MCVersion == <<1, 0>>
=============================================================================
