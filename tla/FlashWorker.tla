---------------------------- MODULE FlashWorker ----------------------------
(***************************************************************************)
(* One flash attempt: FlashWorker (app/workers/flash_worker.py) and the    *)
(* FlashProcess it drives (app/flash_engine/esptool_wrapper.py).           *)
(*                                                                         *)
(* Four parties run concurrently: the worker's own thread (pc), the main   *)
(* thread, which may call request_cancel at any moment and handles the     *)
(* finished signal (canceller, handler), the esptool process, and the      *)
(* daemon thread that moves its output into a queue.  The last two are one *)
(* party here: a line is in the queue when the reader has put it there.    *)
(*                                                                         *)
(* What a line says is left out: it chooses among the badges of a flash    *)
(* under way and the wording of a failure.  One thing of it decides how    *)
(* the run ends: a line with progress may raise, which any line may here.  *)
(* Timeouts may fire whenever what they wait for has not happened.         *)
(***************************************************************************)
EXTENDS Integers, Sequences, FlashOutcome

CONSTANT
    MaxUnread   \* bound: lines in the queue the worker has not read

ASSUME WorkerAssumption == MaxUnread \in Nat

VARIABLES
    pc,         \* where the worker's thread is in _run_impl
    cancelRequested, \* _cancel_requested
    canceller,  \* where the main thread is in request_cancel
    process,    \* _process and the Popen object inside it
    signalled,  \* the strongest signal sent to the process
    rc,         \* its exit code: 0, 1 (any failure), or -1 before it exits
    stdout,     \* is the process's output still open?
    lines,      \* _line_queue: lines, then the sentinel "eof"
    badge,      \* the last status_changed
    result,     \* what the message chosen for finished_flash is logged as
    finished,   \* finished_flash emissions
    raised,     \* history: did the worker's own reading of a line raise?
    handler     \* where the main thread is in _on_worker_finished

workerVars == <<pc, cancelRequested, canceller, process, signalled, rc, stdout, lines,
          badge, result, finished, raised, handler>>

runVars == <<pc, badge, result, finished, raised>>
processVars == <<process, signalled, rc, stdout, lines>>
mainVars == <<cancelRequested, canceller, handler>>

RunTypeOK ==
    /\ pc \in {"prepare", "check", "spawn", "read", "drained", "wait",
               "terminate", "terminating", "finish", "report", "exit", "done"}
    /\ cancelRequested \in BOOLEAN
    /\ canceller \in {"idle", "flagged", "terminating"}
    /\ process \in {"none", "created", "running", "exited"}
    /\ signalled \in {"no", "term", "kill"}
    /\ rc \in {-1, 0, 1}
    /\ stdout \in BOOLEAN
    /\ lines \in Seq({"line", "eof"})
    /\ badge \in {"Waiting", "Preparing", "Connecting", "Working"} \cup Results
    /\ result \in {"none"} \cup Results
    /\ finished \in {0, 1}    \* finished_flash is emitted at most once
    /\ raised \in BOOLEAN
    /\ handler \in {"idle", "announced", "joined"}

RunInit ==
    /\ pc = "prepare"
    /\ cancelRequested = FALSE
    /\ canceller = "idle"
    /\ process = "none"
    /\ signalled = "no"
    /\ rc = -1
    /\ stdout = FALSE
    /\ lines = <<>>
    /\ badge = "Waiting"
    /\ result = "none"
    /\ finished = 0
    /\ raised = FALSE
    /\ handler = "idle"

-----------------------------------------------------------------------------
(* The worker's thread: _run_impl. *)

\* The run will end with the given result: go and call _finish.
GoFinish(r) == pc' = "finish" /\ result' = r

\* Build the command line; bad settings raise and are reported as a failure.
Prepare ==
    /\ pc = "prepare"
    /\ badge' = "Preparing"
    /\ \/ pc' = "check" /\ UNCHANGED result
       \/ GoFinish("Failed")
    /\ UNCHANGED <<finished, raised, processVars, mainVars>>

\* The last look at the flag before a process exists.
CheckBeforeStart ==
    /\ pc = "check"
    /\ \/ /\ cancelRequested
          /\ GoFinish("Cancelled")
          /\ UNCHANGED process
       \/ /\ ~cancelRequested
          /\ process' = "created"
          /\ pc' = "spawn"
          /\ UNCHANGED result
    /\ UNCHANGED <<badge, finished, raised, signalled, rc, stdout, lines, mainVars>>

\* Popen: it works, or esptool cannot be launched.
StartProcess ==
    /\ pc = "spawn"
    /\ \/ /\ process' = "running"
          /\ stdout' = TRUE
          /\ pc' = "read"
          /\ badge' = "Connecting"
          /\ UNCHANGED result
       \/ /\ GoFinish("Failed")
          /\ UNCHANGED <<process, stdout, badge>>
    /\ UNCHANGED <<finished, raised, signalled, rc, lines, mainVars>>

\* _update_speed reads the rows ticked by then, with int(address, 16) of each
\* unguarded: a row that was ticked during the flash and whose address is no
\* number raises, and the last except clause ends the run.  It leaves the
\* process as it is: at work, told nothing, with nobody to read its output.
UpdateSpeedRaises ==
    /\ badge' = "Working"
    /\ raised' = TRUE
    /\ GoFinish("Failed")

\* One turn of the loop over iter_lines: a line to interpret, unless a cancel
\* was requested, which leaves the loop.  Any line may report progress and
\* have its speed computed.
ReadLineIgnoresCancel ==                                     \* mutant: check dropped
    /\ pc = "read"
    /\ lines # <<>> /\ Head(lines) = "line"
    /\ lines' = Tail(lines)
    /\ UNCHANGED <<pc, badge, result, finished, raised, process, signalled, rc, stdout, mainVars>>

ReadLine ==
    /\ pc = "read"
    /\ lines # <<>> /\ Head(lines) = "line"
    /\ lines' = Tail(lines)
    /\ \/ /\ cancelRequested
          /\ pc' = "drained"
          /\ UNCHANGED <<badge, result, raised>>
       \/ /\ ~cancelRequested
          /\ badge' \in {badge, "Working"}
          /\ UNCHANGED <<pc, result, raised>>
       \/ /\ ~cancelRequested
          /\ UpdateSpeedRaises
    /\ UNCHANGED <<finished, process, signalled, rc, stdout, mainVars>>

\* The sentinel ends the loop.
ReadEof ==
    /\ pc = "read"
    /\ lines # <<>> /\ Head(lines) = "eof"
    /\ lines' = Tail(lines)
    /\ pc' = "drained"
    /\ UNCHANGED <<badge, result, finished, raised, process, signalled, rc, stdout, mainVars>>

\* Nothing for stall_timeout seconds: give the device up, unless the flag
\* says that it is a cancel.
ReadTimeoutIgnored ==                                        \* mutant: None skipped
    /\ pc = "read"
    /\ lines = <<>>
    /\ cancelRequested
    /\ pc' = "drained"
    /\ UNCHANGED <<badge, result, finished, raised, processVars, mainVars>>
ReadTimeoutLeaves ==                                         \* mutant: no terminate
    /\ pc = "read"
    /\ lines = <<>>
    /\ \/ cancelRequested /\ pc' = "drained" /\ UNCHANGED result
       \/ ~cancelRequested /\ GoFinish("Failed")
    /\ UNCHANGED <<badge, finished, raised, processVars, mainVars>>

ReadTimeout ==
    /\ pc = "read"
    /\ lines = <<>>
    /\ \/ /\ cancelRequested
          /\ pc' = "drained"
          /\ UNCHANGED result
       \/ /\ ~cancelRequested
          /\ pc' = "terminate"
          /\ result' = "Failed"
    /\ UNCHANGED <<badge, finished, raised, processVars, mainVars>>

\* After the loop: the last look at the flag.
AfterLoop ==
    /\ pc = "drained"
    /\ \/ /\ cancelRequested
          /\ pc' = "terminate"
          /\ result' = "Cancelled"
       \/ /\ ~cancelRequested
          /\ pc' = "wait"
          /\ UNCHANGED result
    /\ UNCHANGED <<badge, finished, raised, processVars, mainVars>>

\* wait(timeout=10): the exit code decides.  A process that has closed its
\* output but does not exit raises TimeoutExpired, which the last except
\* clause reports; nothing terminates that process.
WaitProcessPresumes ==                                       \* mutant: no exit code
    /\ pc = "wait"
    /\ GoFinish("Completed")
    /\ UNCHANGED <<badge, finished, raised, processVars, mainVars>>

WaitProcess ==
    /\ pc = "wait"
    /\ \/ process = "exited" /\ GoFinish(IF rc = 0 THEN "Completed" ELSE "Failed")
       \/ process = "running" /\ GoFinish("Failed")
    /\ UNCHANGED <<badge, finished, raised, processVars, mainVars>>

\* FlashProcess.terminate called by the worker: SIGTERM, then up to three
\* seconds for the process to go, then SIGKILL, which nobody waits for.
Terminate ==
    /\ pc = "terminate"
    /\ \/ /\ process = "running"
          /\ signalled' = IF signalled = "no" THEN "term" ELSE signalled
          /\ pc' = "terminating"
       \/ /\ process # "running"
          /\ pc' = "finish"
          /\ UNCHANGED signalled
    /\ UNCHANGED <<badge, result, finished, raised, process, rc, stdout, lines, mainVars>>

TerminateWait ==
    /\ pc = "terminating"
    /\ \/ process = "exited" /\ UNCHANGED signalled
       \/ process = "running" /\ signalled' = "kill"
    /\ pc' = "finish"
    /\ UNCHANGED <<badge, result, finished, raised, process, rc, stdout, lines, mainVars>>

\* _finish: the terminal badge looks at the flag once more, the message does
\* not; finished_flash follows.
TerminalBadgeFromMessage == result                           \* mutant: flag not read

TerminalBadge ==
    IF result = "Completed" THEN "Completed"
    ELSE IF cancelRequested THEN "Cancelled" ELSE "Failed"

EmitTerminalStatus ==
    /\ pc = "finish"
    /\ badge' = TerminalBadge
    /\ pc' = "report"
    /\ UNCHANGED <<result, finished, raised, processVars, mainVars>>

EmitFinished ==
    /\ pc = "report"
    /\ finished' = finished + 1
    /\ pc' = "exit"
    /\ UNCHANGED <<badge, result, raised, processVars, mainVars>>

ThreadExit ==
    /\ pc = "exit"
    /\ pc' = "done"
    /\ UNCHANGED <<badge, result, finished, raised, processVars, mainVars>>

-----------------------------------------------------------------------------
(* The main thread.  It does one thing at a time. *)

mainFree == canceller = "idle" /\ handler # "announced"

\* request_cancel, as long as the device is busy: raise the flag, and only
\* then look at whether there is a process to terminate.
RequestCancel ==
    /\ mainFree
    /\ handler = "idle"
    /\ cancelRequested' = TRUE
    /\ canceller' = "flagged"
    /\ UNCHANGED <<handler, runVars, processVars>>

CancelTerminateNever ==                                      \* mutant: flag only
    /\ canceller = "flagged"
    /\ canceller' = "idle"
    /\ UNCHANGED <<cancelRequested, handler, runVars, processVars>>

CancelTerminate ==
    /\ canceller = "flagged"
    /\ \/ /\ process = "running"
          /\ signalled' = IF signalled = "no" THEN "term" ELSE signalled
          /\ canceller' = "terminating"
       \/ /\ process # "running"
          /\ canceller' = "idle"
          /\ UNCHANGED signalled
    /\ UNCHANGED <<cancelRequested, handler, runVars, process, rc, stdout, lines>>

CancelTerminateWait ==
    /\ canceller = "terminating"
    /\ \/ process = "exited" /\ UNCHANGED signalled
       \/ process = "running" /\ signalled' = "kill"
    /\ canceller' = "idle"
    /\ UNCHANGED <<cancelRequested, handler, runVars, process, rc, stdout, lines>>

\* _on_worker_finished: device_finished is emitted, then the thread joined.
Announce ==
    /\ mainFree
    /\ handler = "idle"
    /\ finished > 0
    /\ handler' = "announced"
    /\ UNCHANGED <<cancelRequested, canceller, runVars, processVars>>

Join ==
    /\ handler = "announced"
    /\ pc = "done"
    /\ handler' = "joined"
    /\ UNCHANGED <<cancelRequested, canceller, runVars, processVars>>

-----------------------------------------------------------------------------
(* The esptool process and the thread that reads its output.  Nothing says *)
(* that the process ever does any of this.                                 *)

ProcessWrites ==
    /\ process = "running" /\ stdout
    /\ Len(lines) < MaxUnread
    /\ lines' = Append(lines, "line")
    /\ UNCHANGED <<process, signalled, rc, stdout, runVars, mainVars>>

\* The output is closed, by the process itself or by its exit.
ProcessCloses ==
    /\ process = "running" /\ stdout
    /\ stdout' = FALSE
    /\ lines' = Append(lines, "eof")
    /\ UNCHANGED <<process, signalled, rc, runVars, mainVars>>

ProcessExits ==
    /\ process = "running"
    /\ process' = "exited"
    /\ rc' \in {0, 1}
    /\ stdout' = FALSE
    /\ lines' = IF stdout THEN Append(lines, "eof") ELSE lines
    /\ UNCHANGED <<signalled, runVars, mainVars>>

-----------------------------------------------------------------------------

WorkerStep ==
    \/ Prepare \/ CheckBeforeStart \/ StartProcess
    \/ ReadLine \/ ReadEof \/ ReadTimeout \/ AfterLoop
    \/ WaitProcess \/ Terminate \/ TerminateWait
    \/ EmitTerminalStatus \/ EmitFinished \/ ThreadExit

MainStep == CancelTerminate \/ CancelTerminateWait \/ Announce \/ Join

ProcessStep == ProcessWrites \/ ProcessCloses \/ ProcessExits

RunNext == WorkerStep \/ RequestCancel \/ MainStep \/ ProcessStep

RunSpec == RunInit /\ [][RunNext]_workerVars

\* Both threads of the program run; the process owes nothing, and the user
\* need not cancel.  Every blocking call of the two threads has a timeout.
\* The event loop delivers a posted signal even to a user who clicks Cancel
\* again and again, which is why Announce is strongly fair.
FairRunSpec == RunSpec /\ WF_workerVars(WorkerStep) /\ WF_workerVars(MainStep) /\ SF_workerVars(Announce)

-----------------------------------------------------------------------------
(* Properties. *)

Ended == finished > 0

\* Completed is only ever shown of a process that exited with code 0 and
\* whose whole output was read.
CompletedIsGenuine ==
    /\ RunTypeOK
    /\ badge = "Completed" => process = "exited" /\ rc = 0 /\ lines = <<>>

\* When the run has ended and the cancel call has returned, a cancelled run
\* leaves no process that was not at least told to stop: whatever the moment
\* the flag was raised at, one of the two threads sees both the flag and the
\* process.  Otherwise the next attempt would find the port taken.
CancelLeavesNoProcess ==
    Ended /\ cancelRequested /\ canceller = "idle" /\ process = "running"
        => signalled # "no"

\* Without a cancel, a run leaves alone only a process that had already closed
\* its output, or the one whose line made the worker itself raise: silence,
\* a bad exit code and a failed launch never leave one.
OnlyClosedOutputIsAbandoned ==
    Ended /\ process = "running" /\ signalled = "no" => ~stdout \/ raised

\* No process is left to hold the port of the next attempt, but one that has
\* been told to stop, has closed its output, or was left by an exception.
NoneForgotten == CancelLeavesNoProcess /\ OnlyClosedOutputIsAbandoned

\* The worker keeps the contract the controller is built on.
Contract == INSTANCE WorkerContract WITH
    phase <- IF pc = "prepare" THEN "started"
             ELSE IF pc \in {"report", "exit", "done"} THEN "finished" ELSE "active",
    cancel <- cancelRequested,
    ending <- IF pc \in {"report", "exit", "done"}
              THEN [badge |-> badge, result |-> result]
              ELSE [badge |-> "none", result |-> "none"]

ImplementsContract == Contract!Spec

\* A cancelled run ends, however silent or talkative the process is.
CancelEnds == cancelRequested ~> handler = "joined"

\* A run that is not cancelled ends too, unless the process goes on writing
\* for ever: silence is what the stall timeout is for.
EndsOrTalksForever == <>(handler = "joined") \/ []<><<ProcessWrites>>_workerVars

\* The controller's slot comes back.
RunsEnd == CancelEnds /\ EndsOrTalksForever

=============================================================================
