----------------------------- MODULE AppSettings -----------------------------
(***************************************************************************)
(* Settings on their way from settings.json to the code that uses them,    *)
(* through the Settings dialog, and back into the file:                    *)
(* app/utilities/app_settings.py, app/ui/settings_dialog.py.               *)
(* Operators only.                                                         *)
(*                                                                         *)
(* settings.json may hold anything.  A stored value is its JSON type as    *)
(* int() and float() tell them apart: an "int", a "real", either as the    *)
(* text of a number ("digits", "decimal"), another "text", "null", a       *)
(* "list", a "flag", "nan", an infinity ("inf", or "infText" where it is a *)
(* text); or there is none.  Numbers are counted in halves.  A field is the*)
(* default of a getter and its range.  Left out: a number of more digits   *)
(* than Python converts.                                                   *)
(***************************************************************************)
EXTENDS Integers, Sequences, FiniteSets

CONSTANTS
    LargestInt,     \* the largest number of a QSpinBox, an int of 32 bits
    LargestFloat    \* the largest whole number float() takes; both in halves

ASSUME SettingsAssumption == LargestInt \in Nat /\ LargestFloat \in Nat

Absent == [t |-> "absent"]

Number(n) == [is |-> "number", n |-> n]
Fails(how) == [is |-> how]

\* Toward zero
Truncated(n) == IF n % 2 = 0 THEN n ELSE IF n < 0 THEN n + 1 ELSE n - 1

\* Further from zero than any number that float() takes
Beyond(n) == n < -LargestFloat \/ n > LargestFloat

\* What int() and float() make of a value: a number, "nan", or an error: "bad"
\* for a TypeError or ValueError, "overflow" for int() of an infinity and
\* float() of an int that is too large.  A text too large is an infinity, and
\* an infinity is compared like a number beyond all others.
AsInt(raw) ==
    CASE raw.t \in {"int", "digits"} -> Number(raw.n)
      [] raw.t = "real" -> Number(Truncated(raw.n))
      [] raw.t = "flag" -> Number(IF raw.b THEN 2 ELSE 0)
      [] raw.t = "inf" -> Fails("overflow")
      [] OTHER -> Fails("bad")

AsFloat(raw) ==
    CASE raw.t = "int" -> IF Beyond(raw.n) THEN Fails("overflow") ELSE Number(raw.n)
      [] raw.t \in {"digits", "real", "decimal"} -> Number(raw.n)
      [] raw.t \in {"inf", "infText"} -> Number(IF raw.positive THEN LargestFloat + 2 ELSE -LargestFloat - 2)
      [] raw.t = "flag" -> Number(IF raw.b THEN 2 ELSE 0)
      [] raw.t = "nan" -> Fails("nan")
      [] OTHER -> Fails("bad")

\* max(min, min(max, value)), as the getters and the spin boxes clamp
Clamp(field, n) == IF n < field.min THEN field.min ELSE IF n > field.max THEN field.max ELSE n

-----------------------------------------------------------------------------
(* The getters. *)

\* get_max_parallel_flashes and the like.  OverflowError is caught nowhere.
IntSetting(field, raw) ==
    LET value == AsInt(raw)
    IN  CASE raw = Absent \/ value.is = "bad" -> Number(field.default)
          [] value.is = "overflow" -> value
          [] OTHER -> Number(Clamp(field, value.n))

\* get_flash_stall_timeout_seconds, get_provision_stall_timeout_seconds
FloatSetting(field, raw) ==
    LET value == AsFloat(raw)
    IN  CASE raw = Absent \/ value.is \in {"bad", "nan"} -> Number(field.default)
          [] value.is = "overflow" -> value
          [] OTHER -> Number(Clamp(field, value.n))

\* value(..., type=bool): by the text of what is no flag; null is null.
FlagSetting(default, raw) ==
    CASE raw = Absent -> default
      [] raw.t = "flag" -> raw.b
      [] raw.t \in {"int", "digits"} -> raw.n = 2
      [] OTHER -> FALSE

-----------------------------------------------------------------------------
(* The dialog: what its boxes may show.  OK stores what they show. *)

\* The value is put into the box without a try: after an error the dialog does
\* not open.  A QSpinBox clamps an int of 32 bits and refuses a longer one.
Refuses(n) == n > LargestInt \/ n < -LargestInt - 2

IntShown(field, raw) ==
    LET value == IF raw = Absent THEN Number(field.default) ELSE AsInt(raw)
    IN  IF value.is # "number" THEN value
        ELSE IF raw # Absent /\ Refuses(value.n) THEN Fails("overflow")
        ELSE Number(Clamp(field, value.n))

\* A box without decimals shows one of the whole numbers next to the value.
FloatShown(field, raw) ==
    LET value == IF raw = Absent THEN Number(field.default) ELSE AsFloat(raw)
    IN  CASE value.is \in {"bad", "overflow"} -> {value}
          [] value.is = "nan" -> {Number(field.max)}
          [] OTHER -> {Number(Clamp(field, n)) :
                          n \in {k \in (value.n - 1)..(value.n + 1) : k % 2 = 0}}

\* findData with the first item in place of one that is not offered; a list of
\* numbers looks for int() of what is stored.
OptionShown(options, given, default) ==
    LET value == IF given = Absent THEN default ELSE given
    IN  IF \E i \in DOMAIN options : options[i] = value THEN value ELSE options[1]

\* value() of a QSpinBox is an int, that of a QDoubleSpinBox a float.
Stored(type, number) == [t |-> type, n |-> number.n]

-----------------------------------------------------------------------------
(* The file.  What is written is the whole of the memory, each time. *)

\* Each write replaces the file, or fails before that, or the program ends on
\* either side of the replacement.
Outcomes == {"written", "fails", "crash before", "crash after"}

\* setValue, and _save in the given outcome
SaveInPlace(store, change, outcome) ==                  \* mutant: no temporary file
    LET memory == [store.memory EXCEPT ![change.key] = change.value]
    IN  [memory |-> memory,
         disk |-> IF outcome = "written" THEN memory ELSE [key \in DOMAIN memory |-> Absent],
         alive |-> outcome \in {"written", "fails"}]

Save(store, change, outcome) ==
    LET memory == [store.memory EXCEPT ![change.key] = change.value]
    IN  [memory |-> memory,
         disk |-> IF outcome \in {"written", "crash after"} THEN memory ELSE store.disk,
         alive |-> outcome \in {"written", "fails"}]

\* SettingsDialog.save: one setValue after the other, until the program ends.
SaveAll(store, changes, outcomes) ==
    LET after[i \in 0..Len(changes)] ==
            IF i = 0 THEN store
            ELSE IF ~after[i - 1].alive THEN after[i - 1]
            ELSE Save(after[i - 1], changes[i], outcomes[i])
    IN  after[Len(changes)]
=============================================================================
