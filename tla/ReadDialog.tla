----------------------------- MODULE ReadDialog -----------------------------
(***************************************************************************)
(* Reading a device: ReadDeviceDialog (app/ui/read_device_dialog.py) and   *)
(* its ReadWorker (app/workers/read_worker.py).                            *)
(*                                                                         *)
(* Like the provisioning dialogs it may be hidden with its worker at work. *)
(* The operation is a combo that stays enabled: what was run and what the  *)
(* combo shows when the answer comes may be two things.                    *)
(***************************************************************************)
EXTENDS Naturals, FiniteSets

CONSTANTS
    Devices,
    MaxReads        \* bound: dialogs opened

Reads == 1..MaxReads

\* "security" stands for Security Info and eFuse Summary, whose output may say
\* whether flash encryption is on; "other" for the operations that do not.
Modes == {"security", "other"}

Answers == {"failed", "on", "off", "nothing"}

VARIABLES
    readShown,  \* the dialog that is visible, or 0
    readOpened, \* how many have been opened
    readOf,     \* the device of each
    combo,      \* the operation it shows
    reader,     \* its worker: "none", "running", "stopping", the answer its
                \* finished_read carries, or "lost": ended without a signal
    mode,       \* the operation that was run
    runnable,   \* is run_button enabled?
    detected    \* runtime.flash_encryption_detected of each device

readVars == <<readShown, readOpened, readOf, combo, reader, mode, runnable, detected>>

ReadTypeOK ==
    /\ readShown \in 0..readOpened
    /\ readOpened \in 0..MaxReads
    /\ DOMAIN readOf = Reads /\ \A r \in 1..readOpened : readOf[r] \in Devices
    /\ combo \in [Reads -> Modes]
    /\ mode \in [Reads -> Modes]
    /\ reader \in [Reads -> {"none", "running", "stopping", "lost"} \cup Answers]
    /\ runnable \in [Reads -> BOOLEAN]
    /\ detected \in [Devices -> {"unknown", "on", "off"}]

ReadInit ==
    /\ readShown = 0 /\ readOpened = 0
    /\ readOf = [r \in Reads |-> CHOOSE d \in Devices : TRUE]
    /\ combo = [r \in Reads |-> "other"]
    /\ mode = [r \in Reads |-> "other"]
    /\ reader = [r \in Reads |-> "none"]
    /\ runnable = [r \in Reads |-> TRUE]
    /\ detected = [d \in Devices |-> "unknown"]

\* Does its worker hold the port?
Reading(r) == reader[r] \in {"running", "stopping"}

-----------------------------------------------------------------------------

\* _on_read_device_requested, from the menu or from a row: not for a device
\* that is being flashed.
OpenReadDialog(d, excluded) ==
    /\ readShown = 0
    /\ readOpened < MaxReads
    /\ d \notin excluded
    /\ readOpened' = readOpened + 1
    /\ readShown' = readOpened + 1
    /\ readOf' = [readOf EXCEPT ![readOpened + 1] = d]
    /\ UNCHANGED <<combo, reader, mode, runnable, detected>>

ChangeMode(r) ==
    /\ readShown = r
    /\ \E m \in Modes : combo' = [combo EXCEPT ![r] = m]
    /\ UNCHANGED <<readShown, readOpened, readOf, reader, mode, runnable, detected>>

RunReadAgain(r) ==                                  \* mutant: the button is not disabled
    /\ readShown = r
    /\ runnable[r]
    /\ mode' = [mode EXCEPT ![r] = combo[r]]
    /\ reader' = [reader EXCEPT ![r] = "running"]
    /\ UNCHANGED <<readShown, readOpened, readOf, combo, runnable, detected>>

\* _on_run_clicked, its output path and the port in order
RunRead(r) ==
    /\ readShown = r
    /\ runnable[r]
    /\ runnable' = [runnable EXCEPT ![r] = FALSE]
    /\ mode' = [mode EXCEPT ![r] = combo[r]]
    /\ reader' = [reader EXCEPT ![r] = "running"]
    /\ UNCHANGED <<readShown, readOpened, readOf, combo, detected>>

\* _run_impl: a bad command, a tool that does not start, a stall, a cancel and
\* an exit code other than 0 are failures; the TimeoutExpired of the last wait
\* is caught nowhere.  A cancel that comes when the output has ended is not
\* looked at any more: the read still answers what it has found.
ReaderEnds(r) ==
    /\ Reading(r)
    /\ \E end \in {"failed", "lost", "nothing"}
                      \cup IF mode[r] = "security" THEN {"on", "off"} ELSE {} :
          reader' = [reader EXCEPT ![r] = end]
    /\ UNCHANGED <<readShown, readOpened, readOf, combo, mode, runnable, detected>>

\* _on_finished: the state found in the output is kept if the combo shows, by
\* now, an operation that tells it.
ReadFinished(r) ==
    /\ reader[r] \in Answers
    /\ reader' = [reader EXCEPT ![r] = "none"]
    /\ runnable' = [runnable EXCEPT ![r] = TRUE]
    /\ detected' = IF reader[r] \in {"on", "off"} /\ combo[r] = "security"
                   THEN [detected EXCEPT ![readOf[r]] = reader[r]] ELSE detected
    /\ UNCHANGED <<readShown, readOpened, readOf, combo, mode>>

\* closeEvent: the worker is asked to stop, and given three seconds for it.
CloseReadWindow(r) ==
    /\ readShown = r
    /\ readShown' = 0
    /\ reader' = [reader EXCEPT ![r] = IF @ = "running" THEN "stopping" ELSE @]
    /\ UNCHANGED <<readOpened, readOf, combo, mode, runnable, detected>>

\* Close and Esc
CloseReadButton(r) ==
    /\ readShown = r
    /\ readShown' = 0
    /\ UNCHANGED <<readOpened, readOf, combo, reader, mode, runnable, detected>>

ReadNext ==
    \E r \in Reads :
        ChangeMode(r) \/ RunRead(r) \/ ReaderEnds(r) \/ ReadFinished(r)
            \/ CloseReadWindow(r) \/ CloseReadButton(r)
=============================================================================
