---------------------------- MODULE Provisioning ----------------------------
(***************************************************************************)
(* Burning the eFuses of one device: ProvisionWorker                       *)
(* (app/workers/security_worker.py) under ProvisionDialog                  *)
(* (app/ui/provision_dialog.py), with the key files it generates.          *)
(*                                                                         *)
(* A burn cannot be taken back, the key it burned exists nowhere else than *)
(* in its file, and a run can fail, be cancelled or be repeated between    *)
(* its steps.  Several runs may be alive at a time: a dialog that is       *)
(* closed by its Close button leaves its worker at work, and a new dialog  *)
(* starts another.                                                         *)
(*                                                                         *)
(* espsecure and espefuse are external.  Nothing in the source checks a    *)
(* key file before generating it, so a generation that succeeds leaves a   *)
(* new key there.  espefuse burns at any moment of its run, never over a   *)
(* burned key, and exits with 0 only if the key it was given is burned.    *)
(* Unlike in FlashWorker request_cancel is one step here: its flag and its *)
(* terminate() fall on either side of a step of the worker with no effect  *)
(* that one step before or after it would not have.                        *)
(* The device's security settings are held fixed, though each step reads   *)
(* the live device: the dialog is modal while it is open, and an edit made *)
(* after its Close button left a run at work is not modelled.              *)
(***************************************************************************)
EXTENDS Integers, FiniteSets

CONSTANT MaxRuns    \* bound: provisioning runs started for the device

ASSUME ProvisioningAssumption == MaxRuns \in Nat \ {0}

Runs == 1..MaxRuns

\* What is burned: the flash encryption key, the secure boot digest.
Fuses == {"fe", "sb"}

VARIABLES
    security,   \* the device's SecurityConfig: fuses wanted, key source, vault
    open,       \* is a dialog open?
    current,    \* the run the open dialog has started last, or 0
    started,    \* how many runs have been started
    pc,         \* where each run is in _run_impl
    cancel,     \* _cancel_requested of each run
    tool,       \* its last espefuse process: [fuse, state, output, told, key]
    report,     \* what finished_provision said
    keyFile,    \* the key in the file of each fuse, 0 if there is none
    vault,      \* the key in the OS keychain, 0 if there is none
    made,       \* how many keys have been generated or existed
    burned,     \* the key each eFuse block holds, 0 while it is blank
    spawned,    \* history: the burns each run has started
    atCancel    \* history: how many they were when it was cancelled

vars == <<security, open, current, started, pc, cancel, tool, report, keyFile,
          vault, made, burned, spawned, atCancel>>

windowVars == <<security, open, current, started>>
keyVars == <<keyFile, vault, made>>

NoTool == [fuse |-> "none", state |-> "none", output |-> FALSE, told |-> FALSE, key |-> 0]

Reports == {"none", "ok", "failed", "cancelled before", "cancelled after fe"}

TypeOK ==
    /\ security \in [wanted : SUBSET Fuses, generate : BOOLEAN, vault : BOOLEAN]
    /\ open \in BOOLEAN
    /\ current \in 0..started
    /\ started \in 0..MaxRuns
    /\ pc \in [Runs -> {"idle", "generate fe", "generate sb", "check before", "burn fe",
                        "check between", "burn sb", "reading", "done"}]
    /\ cancel \in [Runs -> BOOLEAN]
    /\ tool \in [Runs -> [fuse : Fuses \cup {"none"}, output : BOOLEAN, told : BOOLEAN,
                          state : {"none", "running", "ok", "bad"}, key : Nat]]
    /\ report \in [Runs -> Reports]
    /\ keyFile \in [Fuses -> 0..made]
    /\ vault \in [Fuses -> 0..made]
    /\ burned \in [Fuses -> 0..made]
    /\ spawned \in [Runs -> 0..2]
    /\ atCancel \in [Runs -> -1..2]

\* With key_source "existing" validate_security_settings demands the files.
Init ==
    /\ security \in [wanted : (SUBSET Fuses) \ {{}}, generate : BOOLEAN, vault : BOOLEAN]
    /\ open = FALSE
    /\ current = 0
    /\ started = 0
    /\ pc = [r \in Runs |-> "idle"]
    /\ cancel = [r \in Runs |-> FALSE]
    /\ tool = [r \in Runs |-> NoTool]
    /\ report = [r \in Runs |-> "none"]
    /\ made = IF security.generate THEN 0 ELSE 2
    /\ keyFile = [f \in Fuses |-> IF security.generate THEN 0 ELSE IF f = "fe" THEN 1 ELSE 2]
    /\ vault = [f \in Fuses |-> 0]
    /\ burned = [f \in Fuses |-> 0]
    /\ spawned = [r \in Runs |-> 0]
    /\ atCancel = [r \in Runs |-> -1]

-----------------------------------------------------------------------------
(* The dialog, on the main thread. *)

Alive(r) == pc[r] \notin {"idle", "done"}

\* _on_provision_requested: a new dialog, which knows nothing of other runs.
OpenDialog ==
    /\ ~open
    /\ started < MaxRuns
    /\ open' = TRUE
    /\ current' = 0
    /\ UNCHANGED <<security, started, pc, cancel, tool, report, keyVars, burned,
                   spawned, atCancel>>

\* _on_start_clicked, validated and confirmed: the button is enabled until a
\* run starts and again when it has finished, whatever its outcome.
Start ==
    /\ open
    /\ started < MaxRuns
    /\ current # 0 => pc[current] = "done"
    /\ started' = started + 1
    /\ current' = started + 1
    /\ pc' = [pc EXCEPT ![started + 1] = "generate fe"]
    /\ UNCHANGED <<security, open, cancel, tool, report, keyVars, burned, spawned, atCancel>>

\* request_cancel: raise the flag and terminate the process, if there is one.
RequestCancel(r) ==
    /\ cancel' = [cancel EXCEPT ![r] = TRUE]
    /\ atCancel' = [atCancel EXCEPT ![r] = IF @ = -1 THEN spawned[r] ELSE @]
    /\ tool' = [tool EXCEPT ![r].told = @ \/ tool[r].state = "running"]

\* closeEvent (the window's own close box): a run under way is cancelled.
CloseDialog ==
    /\ open
    /\ open' = FALSE
    /\ IF current # 0 /\ Alive(current)
       THEN RequestCancel(current)
       ELSE UNCHANGED <<cancel, tool, atCancel>>
    /\ UNCHANGED <<security, current, started, pc, report, keyVars, burned, spawned>>

\* The Close button rejects the dialog, which hides it without a closeEvent.
RejectDialog ==
    /\ open
    /\ open' = FALSE
    /\ UNCHANGED <<security, current, started, pc, cancel, tool, report, keyVars, burned,
                   spawned, atCancel>>

-----------------------------------------------------------------------------
(* The worker's thread: _run_impl. *)

Finish(r, what) ==
    /\ pc' = [pc EXCEPT ![r] = "done"]
    /\ report' = [report EXCEPT ![r] = what]

\* Generate the key of one fuse, if this is asked for, and copy it to the
\* keychain if that is; a keychain that fails is ignored.
GenerateKey(r, f, here, next) ==
    /\ pc[r] = here
    /\ IF security.generate /\ f \in security.wanted
       THEN \/ /\ made' = made + 1
               /\ keyFile' = [keyFile EXCEPT ![f] = made + 1]
               /\ vault' \in {vault} \cup
                     (IF security.vault THEN {[vault EXCEPT ![f] = made + 1]} ELSE {})
               /\ pc' = [pc EXCEPT ![r] = next]
               /\ UNCHANGED report
            \/ Finish(r, "failed") /\ UNCHANGED keyVars
       ELSE pc' = [pc EXCEPT ![r] = next] /\ UNCHANGED <<report, keyVars>>
    /\ UNCHANGED <<windowVars, cancel, tool, burned, spawned, atCancel>>

GenerateFE(r) == GenerateKey(r, "fe", "generate fe", "generate sb")
GenerateSB(r) == GenerateKey(r, "sb", "generate sb", "check before")

\* The two looks at the flag: before any burn, and between the two.
Check(r, here, next, what) ==
    /\ pc[r] = here
    /\ \/ cancel[r] /\ Finish(r, what)
       \/ ~cancel[r] /\ pc' = [pc EXCEPT ![r] = next] /\ UNCHANGED report
    /\ UNCHANGED <<windowVars, cancel, tool, keyVars, burned, spawned, atCancel>>

CheckBefore(r) == Check(r, "check before", "burn fe", "cancelled before")

CheckBetweenDropped(r) ==                           \* mutant: no second look
    /\ pc[r] = "check between"
    /\ pc' = [pc EXCEPT ![r] = "burn sb"]
    /\ UNCHANGED <<windowVars, cancel, tool, report, keyVars, burned, spawned, atCancel>>

CheckBetween(r) == Check(r, "check between", "burn sb", "cancelled after fe")

\* Start espefuse for a fuse that is wanted; it reads the key file now.  It
\* may also fail to start.
Burn(r, f, here, skip) ==
    /\ pc[r] = here
    /\ IF f \in security.wanted
       THEN \/ /\ tool' = [tool EXCEPT ![r] =
                     [fuse |-> f, state |-> "running", output |-> TRUE, told |-> FALSE,
                      key |-> keyFile[f]]]
               /\ spawned' = [spawned EXCEPT ![r] = @ + 1]
               /\ pc' = [pc EXCEPT ![r] = "reading"]
               /\ UNCHANGED report
            \/ Finish(r, "failed") /\ UNCHANGED <<tool, spawned>>
       ELSE skip /\ UNCHANGED <<tool, spawned>>
    /\ UNCHANGED <<windowVars, cancel, keyVars, burned, atCancel>>

BurnFE(r) ==
    Burn(r, "fe", "burn fe", pc' = [pc EXCEPT ![r] = "check between"] /\ UNCHANGED report)
BurnSB(r) == Burn(r, "sb", "burn sb", Finish(r, "ok"))

\* A burn that espefuse reports done lets the run go on.
Proceed(r) ==
    IF tool[r].fuse = "fe"
    THEN pc' = [pc EXCEPT ![r] = "check between"] /\ UNCHANGED report
    ELSE Finish(r, "ok")

\* The output has ended and wait(timeout=10) returns: the exit code decides.
BurnWaitedAnyCode(r) ==                             \* mutant: exit code ignored
    /\ pc[r] = "reading" /\ ~tool[r].output
    /\ tool[r].state \in {"ok", "bad"}
    /\ Proceed(r)
    /\ UNCHANGED <<windowVars, cancel, tool, keyVars, burned, spawned, atCancel>>

BurnWaited(r) ==
    /\ pc[r] = "reading" /\ ~tool[r].output
    /\ \/ tool[r].state = "ok" /\ Proceed(r)
       \/ tool[r].state = "bad" /\ Finish(r, "failed")
    /\ UNCHANGED <<windowVars, cancel, tool, keyVars, burned, spawned, atCancel>>

\* The output has ended but the process has not: wait raises TimeoutExpired,
\* the run is reported as failed, and nobody stops the process.
BurnWaitExpires(r) ==
    /\ pc[r] = "reading" /\ ~tool[r].output
    /\ tool[r].state = "running"
    /\ Finish(r, "failed")
    /\ UNCHANGED <<windowVars, cancel, tool, keyVars, burned, spawned, atCancel>>

\* A line of output seen with the flag up, or silence for stall_timeout: the
\* process is told to stop.  The line may be an old one of a process that has
\* ended since.
BurnAbortedLeft(r) ==                               \* mutant: no terminate
    /\ pc[r] = "reading"
    /\ cancel[r] \/ tool[r].output
    /\ Finish(r, "failed")
    /\ UNCHANGED <<windowVars, cancel, tool, keyVars, burned, spawned, atCancel>>

BurnAborted(r) ==
    /\ pc[r] = "reading"
    /\ cancel[r] \/ tool[r].output
    /\ tool' = [tool EXCEPT ![r].told = @ \/ tool[r].state = "running"]
    /\ Finish(r, "failed")
    /\ UNCHANGED <<windowVars, cancel, keyVars, burned, spawned, atCancel>>

-----------------------------------------------------------------------------
(* espefuse. *)

\* The block is blank and the key is written to it.
ToolBurns(r) ==
    /\ tool[r].state = "running"
    /\ burned[tool[r].fuse] = 0
    /\ burned' = [burned EXCEPT ![tool[r].fuse] = tool[r].key]
    /\ UNCHANGED <<windowVars, pc, cancel, tool, report, keyVars, spawned, atCancel>>

ToolClosesOutput(r) ==
    /\ tool[r].state = "running" /\ tool[r].output
    /\ tool' = [tool EXCEPT ![r].output = FALSE]
    /\ UNCHANGED <<windowVars, pc, cancel, report, keyVars, burned, spawned, atCancel>>

\* It may exit with an error at any moment, even after the burn.
ToolExits(r) ==
    /\ tool[r].state = "running"
    /\ \E end \in {"ok", "bad"} :
          /\ end = "ok" => burned[tool[r].fuse] = tool[r].key
          /\ tool' = [tool EXCEPT ![r].state = end, ![r].output = FALSE]
    /\ UNCHANGED <<windowVars, pc, cancel, report, keyVars, burned, spawned, atCancel>>

-----------------------------------------------------------------------------

Next ==
    \/ OpenDialog \/ Start \/ CloseDialog \/ RejectDialog
    \/ \E r \in Runs :
          \/ GenerateFE(r) \/ GenerateSB(r) \/ CheckBefore(r) \/ BurnFE(r)
          \/ CheckBetween(r) \/ BurnSB(r)
          \/ BurnWaited(r) \/ BurnWaitExpires(r) \/ BurnAborted(r)
          \/ ToolBurns(r) \/ ToolClosesOutput(r) \/ ToolExits(r)

Spec == Init /\ [][Next]_vars

-----------------------------------------------------------------------------
(* Properties. *)

\* What finished_provision says of a run is true of the device, whatever other
\* runs did to it: success means that every fuse asked for is burned,
\* "cancelled before burning any eFuses" that this run started no burn, and
\* "cancelled after flash encryption" that it did not start the second.
ReportsAreTrue ==
    /\ TypeOK
    /\ \A r \in Runs :
        /\ report[r] = "ok" => \A f \in security.wanted : burned[f] # 0
        /\ report[r] = "cancelled before" => spawned[r] = 0
        /\ report[r] = "cancelled after fe" /\ "fe" \in security.wanted =>
              burned["fe"] # 0 /\ tool[r].fuse = "fe"

\* A device that is to have both is never left with secure boot burned and
\* flash encryption blank, however runs fail, overlap or are abandoned.
EncryptionFirst ==
    security.wanted = Fuses /\ burned["sb"] # 0 => burned["fe"] # 0

\* A cancel lets at most one more irreversible burn start: the one whose look
\* at the flag came before it.
CancelBoundsBurns ==
    \A r \in Runs : atCancel[r] # -1 => spawned[r] <= atCancel[r] + 1

\* Burns come in the order that leaves no device half protected, and a cancel
\* stops them.
BurnsInOrder == EncryptionFirst /\ CancelBoundsBurns

\* A run that has been reported leaves no espefuse at work that was not told
\* to stop, unless it had already closed its output.
NoForgottenBurn ==
    \A r \in Runs :
        report[r] # "none" /\ tool[r].state = "running" => tool[r].told \/ ~tool[r].output

\* What a run leaves behind is what it reports.
RunsAreAccountedFor == ReportsAreTrue /\ NoForgottenBurn

-----------------------------------------------------------------------------
(* What the manual says, and the code does not do. *)

\* "The key is only ever written to disk once, burning is irreversible, and
\* there's no way to recover it afterward if the file is lost": the key a
\* device was burned with is still in its file, or at least in the keychain.
BurnedKeyIsKept ==
    \A f \in Fuses : burned[f] # 0 => burned[f] \in {keyFile[f], vault[f]}
=============================================================================
