---------------------------- MODULE FirmwareRows ----------------------------
(***************************************************************************)
(* The firmware list of a device and the checks made on it before an       *)
(* upload and before a merge: app/models/firmware_model.py,                *)
(* app/flash_engine/validator.py, app/firmware_manager/bin_merge.py.       *)
(*                                                                         *)
(* A row knows the size of its file, and whether it is missing, from the   *)
(* last refresh() only; the disk may have changed since.  An address is    *)
(* the text the user sees: Value gives the number it stands for, or -1 if  *)
(* it is no hex address; two texts may stand for one number.  A file is    *)
(* the sequence of its bytes.  The checks are made on some of the rows:    *)
(* a list is a function of the places these rows have.                     *)
(***************************************************************************)
EXTENDS Integers, SequencesExt

CONSTANTS
    Paths,      \* files firmware may be in
    Absent,     \* what is on the disk where there is no file
    Texts,      \* address texts
    Value,      \* the number each of them stands for, or -1
    Zero,       \* the text 0x0
    Pad         \* the byte a merged image is filled up with

ASSUME RowsAssumption ==
    /\ Value \in [Texts -> Nat \cup {-1}]
    /\ Absent \notin Seq(Nat)
    /\ Zero \in Texts /\ Value[Zero] = 0

\* FirmwareEntry.refresh
Refresh(row, disk) ==
    [row EXCEPT !.missing = disk[row.path] = Absent,
                !.size = IF disk[row.path] = Absent THEN 0 ELSE Len(disk[row.path])]

NewRow(id, path, address, disk) ==
    Refresh([id |-> id, path |-> path, address |-> address, enabled |-> TRUE,
             size |-> 0, missing |-> FALSE], disk)

Enabled(list) == Restrict(list, {i \in DOMAIN list : list[i].enabled})

\* A range of flash, its end exclusive.
RangeOf(row, size) == [from |-> Value[row.address], to |-> Value[row.address] + size]

\* Both validators sort the ranges by their start, those that start together
\* staying in the list's order, and compare each with the next one only.
Before(ranges, i, j) ==
    \/ ranges[i].from < ranges[j].from
    \/ ranges[i].from = ranges[j].from /\ i < j

ClashUnsorted(ranges) ==                            \* mutant: in the list's order
    \E i, j \in DOMAIN ranges :
        /\ i < j /\ ~\E k \in DOMAIN ranges : i < k /\ k < j
        /\ ranges[i].from <= ranges[j].from /\ ranges[j].from < ranges[i].to

Clash(ranges) ==
    \E i, j \in DOMAIN ranges :
        /\ Before(ranges, i, j)
        /\ ~\E k \in DOMAIN ranges : Before(ranges, i, k) /\ Before(ranges, k, j)
        /\ ranges[j].from < ranges[i].to

RepeatedText(list) ==
    \E i, j \in DOMAIN list : i # j /\ list[i].address = list[j].address

\* validate_devices, as far as it is about firmware: from the cached size and
\* missing flag of the enabled rows.
Accepts(rows) ==
    LET list == Enabled(rows)
        sized == {i \in DOMAIN list : list[i].size > 0}
    IN  /\ DOMAIN list # {}
        /\ \A i \in DOMAIN list : ~list[i].missing /\ Value[list[i].address] # -1
        /\ ~RepeatedText(list)
        /\ ~Clash([i \in sized |-> RangeOf(list[i], list[i].size)])

MergePassesBySize(list, disk) ==                    \* mutant: the sizes the rows know
    /\ DOMAIN list # {}
    /\ \A i \in DOMAIN list : disk[list[i].path] # Absent /\ Value[list[i].address] # -1
    /\ ~RepeatedText(list)
    /\ ~Clash([i \in DOMAIN list |-> RangeOf(list[i], list[i].size)])

\* validate_merge_entries: the same from the files as they are, empty ones too.
MergePasses(list, disk) ==
    /\ DOMAIN list # {}
    /\ \A i \in DOMAIN list : disk[list[i].path] # Absent /\ Value[list[i].address] # -1
    /\ ~RepeatedText(list)
    /\ ~Clash([i \in DOMAIN list |-> RangeOf(list[i], Len(disk[list[i].path]))])

\* What esptool itself insists on: files it can read, and no byte of the flash
\* written twice.
Sound(list, disk) ==
    /\ \A i \in DOMAIN list : disk[list[i].path] # Absent /\ Value[list[i].address] # -1
    /\ \A i, j \in DOMAIN list :
          LET r == RangeOf(list[i], Len(disk[list[i].path]))
              s == RangeOf(list[j], Len(disk[list[j].path]))
          IN  i # j => \A k \in r.from..(r.to - 1) : k \notin s.from..(s.to - 1)

\* What write-flash puts where.
Written(list, disk) ==
    UNION { {<<Value[list[i].address] + k - 1, disk[list[i].path][k]>> :
                k \in 1..Len(disk[list[i].path])}
            : i \in {j \in DOMAIN list : disk[list[j].path] # Absent} }

\* The file merge-bin makes of a sound list: the same bytes, padded from 0 on.
Merged(list, disk) ==
    LET bytes == Written(list, disk)
        last == Max({0} \cup {b[1] + 1 : b \in bytes})
    IN  [k \in 1..last |->
            IF \E b \in bytes : b[1] = k - 1
            THEN (CHOOSE b \in bytes : b[1] = k - 1)[2]
            ELSE Pad]
=============================================================================
