---------------------------- MODULE InterfaceLock ----------------------------
(***************************************************************************)
(* Settings Lock and Full Lock: what the main window lets be changed       *)
(* (app/ui/main_window.py, lock_overlay.py, device_settings_widget.py,     *)
(* security_settings_widget.py, firmware_panel.py, device_panel.py) and    *)
(* the key that opens it again (app/utilities/key_hashing.py).             *)
(*                                                                         *)
(* The enabled states of the widgets are variables of their own: each is   *)
(* set by the handlers that happen to touch it, and nothing derives it     *)
(* from the locks.  The Device Settings and Security panels are set by the *)
(* same calls and are one here.  A hash is its form and the key it is of.  *)
(***************************************************************************)
EXTENDS Naturals

CONSTANTS
    Devices,
    NoDevice,   \* no row is selected
    Keys,       \* the unlock keys
    NoKey       \* the empty text

ASSUME LockAssumption ==
    /\ NoDevice \notin Devices
    /\ NoKey \notin Keys

VARIABLES
    stored,     \* the hash in the settings: [form, key]
    lastSet,    \* history: the key the user set last
    entered,    \* history: the key typed last at an unlock prompt
    factory,    \* _factory_mode_locked; factory_lock_action is checked
    overlay,    \* is the lock overlay visible?
    windows,    \* is a console or a serial monitor visible?
    canUndo,    \* device_controller.can_undo(); redo behaves alike
    undoOn,     \* is undo_action enabled?
    editOn,     \* are the other _factory_lock_actions, Batch Edit to
                \* Provision Devices, enabled?
    menusOn,    \* are the menu bar, the central widget and the other actions enabled?
    panel,      \* the device the panels show, or NoDevice
    locked,     \* their _locked
    fieldsOn,   \* are their fields enabled?
    firmwareOn, \* are the controls of the Firmware panel enabled?
    deletionOn  \* is Remove enabled?

keyVars == <<stored, lastSet, entered>>
actionVars == <<undoOn, editOn, menusOn>>
panelVars == <<panel, locked, fieldsOn, firmwareOn>>
lockVars == <<keyVars, factory, overlay, windows, canUndo, actionVars, panelVars, deletionOn>>

LockTypeOK ==
    /\ stored \in [form : {"none", "legacy", "salted"}, key : Keys \cup {NoKey}]
    /\ lastSet \in Keys \cup {NoKey}
    /\ entered \in Keys \cup {NoKey}
    /\ factory \in BOOLEAN /\ overlay \in BOOLEAN /\ windows \in BOOLEAN
    /\ canUndo \in BOOLEAN
    /\ undoOn \in BOOLEAN /\ editOn \in BOOLEAN /\ menusOn \in BOOLEAN
    /\ panel \in Devices \cup {NoDevice}
    /\ locked \in BOOLEAN /\ fieldsOn \in BOOLEAN /\ firmwareOn \in BOOLEAN
    /\ deletionOn \in BOOLEAN

\* An earlier release may have left a hash in its old form.
LockInit ==
    /\ \/ stored = [form |-> "none", key |-> NoKey]
       \/ \E k \in Keys, form \in {"legacy", "salted"} : stored = [form |-> form, key |-> k]
    /\ lastSet = stored.key
    /\ entered = NoKey
    /\ factory = FALSE /\ overlay = FALSE /\ windows = FALSE /\ canUndo = FALSE
    /\ undoOn = FALSE /\ editOn = TRUE /\ menusOn = TRUE
    /\ panel = NoDevice /\ locked = FALSE /\ fieldsOn = FALSE /\ firmwareOn = FALSE
    /\ deletionOn = TRUE

-----------------------------------------------------------------------------
(* The key. *)

KeyIsSet == stored.form # "none"

\* verify_lock_key, in either form
VerifyOfNothing(key) == key = NoKey \/ (KeyIsSet /\ stored.key = key)  \* mutant: the early return inverted

Verify(key) == key # NoKey /\ KeyIsSet /\ stored.key = key

\* _verify_lock_key: a hash of the old form is replaced once its key is known.
UpgradeFirst(key) ==                                        \* mutant: before it is verified
    stored' = IF stored.form = "legacy" THEN [form |-> "salted", key |-> key] ELSE stored

UpgradeAfter(key) ==
    stored' = IF Verify(key) /\ stored.form = "legacy" THEN [form |-> "salted", key |-> key]
              ELSE stored

\* _on_set_lock_key; it is cancelled, or the two entries differ, without effect.
StoreKey ==
    \E k \in Keys : stored' = [form |-> "salted", key |-> k] /\ lastSet' = k

SetLockKey ==
    /\ menusOn
    /\ StoreKey
    /\ UNCHANGED <<entered, factory, overlay, windows, canUndo, actionVars, panelVars, deletionOn>>

-----------------------------------------------------------------------------
(* The panels. *)

\* set_device of the Device Settings and the Security panel, whose
\* _factory_locked is `settingsLock`
SetDevice(d, isLocked, settingsLock) ==
    /\ panel' = d
    /\ locked' = isLocked
    /\ fieldsOn' = (d # NoDevice /\ ~isLocked /\ ~settingsLock)

\* _on_device_selected
ShowDevice(d, isLocked) ==
    /\ SetDevice(d, isLocked, factory)
    /\ firmwareOn' = (d # NoDevice /\ ~factory)

\* set_locked, when a status of d arrives and is_busy(d) is busyNow
LockIgnoringFactory(d, busyNow) ==                          \* mutant: forgets the Settings Lock
    IF d # NoDevice /\ d = panel /\ busyNow # locked
    THEN panel' = d /\ locked' = busyNow /\ fieldsOn' = ~busyNow
    ELSE UNCHANGED <<panel, locked, fieldsOn>>

LockPanel(d, busyNow) ==
    IF d # NoDevice /\ d = panel /\ busyNow # locked
    THEN SetDevice(d, busyNow, factory)
    ELSE UNCHANGED <<panel, locked, fieldsOn>>

\* refresh_display, after a commit or when the device was changed elsewhere
RefreshPanels(settingsLock) ==
    IF panel = NoDevice THEN UNCHANGED <<panel, locked, fieldsOn>>
    ELSE SetDevice(panel, locked, settingsLock)

-----------------------------------------------------------------------------
(* The locks. *)

\* _set_factory_mode_locked
SetFactoryMode(on) ==
    /\ factory' = on
    /\ RefreshPanels(on)
    /\ firmwareOn' = (panel # NoDevice /\ ~on)
    /\ deletionOn' = ~on
    /\ undoOn' = ~on
    /\ editOn' = ~on

\* _on_toggle_factory_lock(True): without a key one is asked for, that is all.
LockSettings ==
    /\ menusOn
    /\ ~factory
    /\ IF KeyIsSet
       THEN SetFactoryMode(TRUE) /\ UNCHANGED <<stored, lastSet>>
       ELSE StoreKey /\ UNCHANGED <<factory, undoOn, editOn, panelVars, deletionOn>>
    /\ UNCHANGED <<entered, overlay, windows, canUndo, menusOn>>

\* _on_toggle_factory_lock(False): it stays locked if the prompt is cancelled,
\* or the key is wrong.
UnlockSettings(key) ==
    /\ menusOn
    /\ factory
    /\ entered' = key
    /\ UpgradeAfter(key)
    /\ IF Verify(key) THEN SetFactoryMode(FALSE)
       ELSE UNCHANGED <<factory, undoOn, editOn, panelVars, deletionOn>>
    /\ UNCHANGED <<lastSet, overlay, windows, canUndo, menusOn>>

SetAllActions(on) == undoOn' = on /\ editOn' = on /\ menusOn' = on

\* _on_lock_interface: not before there is a key, nor over an open window.
LockInterface ==
    /\ menusOn
    /\ IF ~KeyIsSet
       THEN StoreKey /\ UNCHANGED <<overlay, actionVars>>
       ELSE /\ ~windows
            /\ overlay' = TRUE
            /\ SetAllActions(FALSE)
            /\ UNCHANGED <<stored, lastSet>>
    /\ UNCHANGED <<entered, factory, windows, canUndo, panelVars, deletionOn>>

\* _on_unlock_attempt enables every action, whatever the Settings Lock says.
UnlockAttempt(key) ==
    /\ overlay
    /\ entered' = key
    /\ UpgradeAfter(key)
    /\ IF Verify(key) THEN overlay' = FALSE /\ SetAllActions(TRUE)
       ELSE UNCHANGED <<overlay, actionVars>>
    /\ UNCHANGED <<lastSet, factory, windows, canUndo, panelVars, deletionOn>>

-----------------------------------------------------------------------------

\* Consoles and serial monitors are opened from the window, and are reached
\* past the overlay.
OpenWindow == menusOn /\ windows' = TRUE

CloseWindows == windows /\ windows' = FALSE

\* _refresh_undo_redo_actions, when can_undo() has become `can`
RefreshUndo(can) == canUndo' = can /\ undoOn' = can

\* The locks' own steps; what the rest of the window does to the panels and to
\* the undo history is MainWindow's.
LockNext ==
    \/ SetLockKey
    \/ LockSettings
    \/ LockInterface
    \/ \E key \in Keys \cup {NoKey} : UnlockSettings(key) \/ UnlockAttempt(key)
    \/ /\ OpenWindow \/ CloseWindows
       /\ UNCHANGED <<keyVars, factory, overlay, canUndo, actionVars, panelVars, deletionOn>>
=============================================================================
