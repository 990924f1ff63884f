-------------------------- MODULE SecuritySettings --------------------------
(***************************************************************************)
(* The security settings of a device, from the panel that shows them to    *)
(* the command that burns them: app/flash_engine/security_manager.py,      *)
(* app/ui/security_settings_widget.py, SecurityConfig and                  *)
(* DeviceConfig.clone of app/models/device_model.py.  Operators only;      *)
(* Provisioning has the order in which the commands run.                   *)
(*                                                                         *)
(* The path of a key file is told apart by what is found there: "none" is  *)
(* the empty path, "gone" names no file, "aes" names one of a key's size,  *)
(* "odd" one of another size.  Custom arguments are "none", "fine", or     *)
(* "bad": those validate_extra_esptool_args does not let through.          *)
(***************************************************************************)
EXTENDS Naturals, Sequences, FiniteSets

Chips == {"auto", "esp32", "esp32s3"}
KeyFiles == {"none", "gone", "aes", "odd"}
Sources == {"generate", "existing"}

\* is_legacy_efuse_chip
IsLegacy(chip) == chip = "esp32"

Found(file) == file \in {"aes", "odd"}

-----------------------------------------------------------------------------
(* Validation. *)

\* With key_source "existing" the file must be there; a key that is to be
\* generated has none yet.
KeyErrors(sec, file, missing, gone) ==
    IF sec.key_source # "existing" THEN {}
    ELSE IF file = "none" THEN {missing} ELSE IF file = "gone" THEN {gone} ELSE {}

BlockErrors(chip, block, error) == IF ~IsLegacy(chip) /\ block = "" THEN {error} ELSE {}

ChipErrorsNone(device) == {}                                \* mutant: "auto" goes through

\* espefuse must be told the chip.
ChipErrors(device) ==
    IF device.chip = "auto" /\ (device.sec.fe \/ device.sec.sb) THEN {"chip"} ELSE {}

\* The errors of validate_security_settings
SecurityErrors(device) ==
    LET sec == device.sec
    IN  IF ~sec.fe /\ ~sec.sb THEN IF device.detected = "on" THEN {"plaintext"} ELSE {}
        ELSE (IF sec.fe THEN KeyErrors(sec, sec.fe_key, "no key", "key not found")
                              \cup BlockErrors(device.chip, sec.fe_block, "key block")
              ELSE {})
             \cup (IF sec.sb THEN KeyErrors(sec, sec.sb_key, "no signing key", "signing key not found")
                                   \cup BlockErrors(device.chip, sec.sb_block, "digest block")
                   ELSE {})
             \cup ChipErrors(device)

SecurityWarnings(device) ==
    IF device.sec.fe /\ device.sec.key_source = "existing" /\ device.sec.fe_key = "odd"
    THEN {"key size"} ELSE {}

\* _validate_single_device_security: what the report of an upload adds
UploadSecurityErrors(device) ==
    SecurityErrors(device) \cup (IF device.sec.custom = "bad" THEN {"custom arguments"} ELSE {})

-----------------------------------------------------------------------------
(* Commands.  "refused" is the ValueError about custom arguments. *)

Refused == [command |-> "refused"]

ChipOption(chip) == IF chip = "auto" THEN "detect" ELSE chip

\* build_burn_flash_encryption_key_args
BurnFlashKey(device) ==
    LET sec == device.sec
        legacy == IsLegacy(device.chip)
    IN  IF sec.custom = "bad" THEN Refused
        ELSE [command |-> "burn-key", chip |-> ChipOption(device.chip),
              block |-> IF legacy THEN "flash_encryption" ELSE sec.fe_block,
              key |-> sec.fe_key,
              purpose |-> IF legacy THEN "fixed" ELSE "XTS_AES_256_KEY",
              protected |-> ~sec.readable]

\* build_burn_secure_boot_key_args
BurnSigningKey(device) ==
    LET sec == device.sec
        legacy == IsLegacy(device.chip)
    IN  IF sec.custom = "bad" THEN Refused
        ELSE [command |-> IF legacy THEN "burn-key" ELSE "burn-key-digest",
              chip |-> ChipOption(device.chip),
              block |-> IF ~legacy THEN sec.sb_block
                        ELSE IF sec.sb_version = "1" THEN "secure_boot_v1" ELSE "secure_boot_v2",
              key |-> sec.sb_key,
              purpose |-> IF legacy THEN "fixed" ELSE "SECURE_BOOT_DIGEST0",
              protected |-> TRUE]

\* build_generate_signing_key_args: version 1 has no scheme.
GenerateSigningKey(sec) ==
    [command |-> "generate-signing-key", version |-> sec.sb_version,
     scheme |-> IF sec.sb_version = "2" THEN sec.sb_scheme ELSE ""]

\* The commands SecurityWorker burns with, in its order
Burns(device) ==
    (IF device.sec.fe THEN <<BurnFlashKey(device)>> ELSE <<>>)
        \o (IF device.sec.sb THEN <<BurnSigningKey(device)>> ELSE <<>>)

-----------------------------------------------------------------------------
(* The panel: its controls are filled by set_device and read by _commit.    *)

\* QComboBox.findData and setCurrentIndex(max(0, ...)): the first item stands for
\* what the list does not have.
Choice(options, value) == IF \E i \in DOMAIN options : options[i] = value THEN value ELSE options[1]

\* setCurrentText of a list that is not editable leaves the item it had.
ChoiceOrStay(options, value, shown) == IF \E i \in DOMAIN options : options[i] = value THEN value ELSE shown

SourceItems == <<"generate", "existing">>
ModeItems == <<"development", "release">>
VersionItems == <<"1", "2">>
SchemeItems == <<"rsa3072", "ecdsa256">>

\* set_device, when the controls showed `before`
Show(sec, before) ==
    [field \in DOMAIN sec \cup {"fe_source", "sb_source"} |->
        CASE field = "mode" -> Choice(ModeItems, sec.mode)
          [] field = "sb_version" -> ChoiceOrStay(VersionItems, sec.sb_version, before.sb_version)
          [] field = "sb_scheme" -> ChoiceOrStay(SchemeItems, sec.sb_scheme, before.sb_scheme)
          [] field \in {"fe_source", "sb_source"} -> Choice(SourceItems, sec.key_source)
          [] OTHER -> sec[field]]

\* The user sets a control; <<>> is a change of none of these.
Touch(controls, touch) ==
    IF touch = <<>> THEN controls ELSE [controls EXCEPT ![touch[1]] = touch[2]]

\* _commit: the settings of the device after any control has been changed.  Both
\* key source combos are for key_source, and that of secure boot is read last.
Commit(controls) ==
    [field \in DOMAIN controls \ {"fe_source", "sb_source"} |->
        CASE field = "key_source" -> controls.sb_source
          [] field = "fe_block" -> IF controls.fe_block = "" THEN "BLOCK_KEY0" ELSE controls.fe_block
          [] field = "sb_block" -> IF controls.sb_block = "" THEN "BLOCK_KEY1" ELSE controls.sb_block
          [] OTHER -> controls[field]]

-----------------------------------------------------------------------------
(* Copies and readings. *)

\* DeviceConfig.clone: a key that was generated stays with its device.
Clone(device) ==
    [device EXCEPT !.port = "",
                   !.detected = "unknown",
                   !.sec = IF @.key_source = "generate"
                           THEN [@ EXCEPT !.fe_key = "none", !.sb_key = "none"] ELSE @]

\* parse_security_state_from_output, for one of the two features: a line about
\* it says what words it has in it.
StateAfter(state, line) ==
    IF line = {} THEN state
    ELSE IF "enabled" \in line \/ ("true" \in line /\ "disabled" \notin line) THEN "on"
    ELSE IF "disabled" \in line \/ "false" \in line THEN "off"
    ELSE state

\* What it says of all the lines
StateOf(lines) ==
    LET after[i \in 0..Len(lines)] ==
            IF i = 0 THEN "unknown" ELSE StateAfter(after[i - 1], lines[i])
    IN  after[Len(lines)]
=============================================================================
