--------------------------- MODULE SerialMonitor ---------------------------
(***************************************************************************)
(* The Serial Monitor windows and the rule that a port is either watched   *)
(* or uploaded to: app/ui/serial_monitor.py with the parts of              *)
(* app/ui/main_window.py and app/flash_engine/validator.py that guard it.  *)
(*                                                                         *)
(* A window has a reader thread of its own that opens the port, loops over *)
(* write and read until its _running flag falls, and closes the port.  It  *)
(* speaks to the window by signals (inbox); the window speaks to it by the *)
(* flag and a list of bytes to send.  stop() blocks the whole main thread  *)
(* until the reader has ended, but no longer than two seconds.             *)
(*                                                                         *)
(* Uploads are here only as the set of busy devices (FlashController has   *)
(* them); whether a port is plugged in is left to chance: opening it and   *)
(* every read may fail.                                                    *)
(***************************************************************************)
EXTENDS Integers, SequencesExt

CONSTANTS
    Devices,    \* the devices of the project
    Ports,      \* the serial ports
    NoPort,     \* no port
    MaxChunks,  \* bound: chunks of data a window receives
    MaxSends    \* bound: texts sent over one connection

ASSUME MonitorAssumption ==
    /\ NoPort \notin Ports
    /\ MaxChunks \in Nat
    /\ MaxSends \in Nat

VARIABLES
    windows,    \* _serial_monitors: the ports with a window
    reader,     \* does the window hold a _reader?
    button,     \* what its Connect button shows
    paused,     \* _paused
    shown,      \* the chunks in its text view
    pending,    \* _pending_lines
    thread,     \* where the reader thread is
    running,    \* its _running flag
    inbox,      \* its signals not yet delivered
    chunks,     \* number of chunks read in the life of the window
    outgoing,   \* _pending_writes
    taken,      \* the writes the thread has taken and not yet made
    written,    \* what the port has been sent over this connection
    sends,      \* number of texts sent over this connection
    stray,      \* a reader its window has left behind: where it is ...
    strayRuns,  \* ... and its _running flag
    stopping,   \* the port whose reader the main thread waits for in stop()
    closing,    \* is it a window that closes that waits?
    com,        \* com_port of each device
    busy        \* FlashController.is_busy()

windowVars == <<windows, reader, button, paused, shown, pending>>
threadVars == <<thread, running, inbox, chunks, outgoing, taken, written, sends>>
strayVars == <<stray, strayRuns>>
stopVars == <<stopping, closing>>
uploadVars == <<com, busy>>
vars == <<windowVars, threadVars, strayVars, stopVars, uploadVars>>

\* data_received carries a chunk, the other signals nothing.
Signal(kind) == [kind |-> kind, chunk |-> 0]
Data(n) == [kind |-> "data", chunk |-> n]

Signals == {Signal("opened"), Signal("error"), Signal("finished")}
               \cup {Data(n) : n \in 1..MaxChunks}

TypeOK ==
    /\ windows \in SUBSET Ports
    /\ reader \in [Ports -> BOOLEAN]
    /\ button \in [Ports -> {"Connect", "Connecting", "Disconnect", "Disconnecting"}]
    /\ paused \in [Ports -> BOOLEAN]
    /\ shown \in [Ports -> Seq(1..MaxChunks)]
    /\ pending \in [Ports -> Seq(1..MaxChunks)]
    /\ thread \in [Ports -> {"none", "opening", "opened", "looping", "ended"}]
    /\ running \in [Ports -> BOOLEAN]
    /\ inbox \in [Ports -> Seq(Signals)]
    /\ chunks \in [Ports -> 0..MaxChunks]
    /\ outgoing \in [Ports -> Seq(1..MaxSends)]
    /\ taken \in [Ports -> Seq(1..MaxSends)]
    /\ written \in [Ports -> Seq(1..MaxSends)]
    /\ sends \in [Ports -> 0..MaxSends]
    /\ stray \in [Ports -> {"none", "opening", "opened", "looping"}]
    /\ strayRuns \in [Ports -> BOOLEAN]
    /\ stopping \in Ports \cup {NoPort}
    /\ closing \in BOOLEAN
    /\ com \in [Devices -> Ports \cup {NoPort}]
    /\ busy \in [Devices -> BOOLEAN]

\* MainWindow._busy_ports
BusyPorts == {com[d] : d \in {x \in Devices : busy[x]}}

\* MainWindow._monitor_ports, with SerialMonitorWidget.is_connected
MonitorPortsShown == {p \in windows : button[p] = "Disconnect"}  \* mutant: as shown

MonitorPorts == {p \in windows : reader[p]}

\* The main thread runs its event loop.
Responsive == stopping = NoPort

Init ==
    /\ windows = {}
    /\ reader = [p \in Ports |-> FALSE]
    /\ button = [p \in Ports |-> "Connect"]
    /\ paused = [p \in Ports |-> FALSE]
    /\ shown = [p \in Ports |-> <<>>]
    /\ pending = [p \in Ports |-> <<>>]
    /\ thread = [p \in Ports |-> "none"]
    /\ running = [p \in Ports |-> FALSE]
    /\ inbox = [p \in Ports |-> <<>>]
    /\ chunks = [p \in Ports |-> 0]
    /\ outgoing = [p \in Ports |-> <<>>]
    /\ taken = [p \in Ports |-> <<>>]
    /\ written = [p \in Ports |-> <<>>]
    /\ sends = [p \in Ports |-> 0]
    /\ stray = [p \in Ports |-> "none"]
    /\ strayRuns = [p \in Ports |-> FALSE]
    /\ stopping = NoPort
    /\ closing = FALSE
    /\ com = [d \in Devices |-> NoPort]
    /\ busy = [d \in Devices |-> FALSE]

-----------------------------------------------------------------------------
(* The main thread: windows. *)

\* _open_serial_monitor_for_port: not while the port is being uploaded to.
\* An existing window is only raised.
OpenWindow(p) ==
    /\ Responsive
    /\ p \notin BusyPorts
    /\ p \notin windows
    /\ windows' = windows \cup {p}
    /\ UNCHANGED <<reader, button, paused, shown, pending, threadVars, strayVars,
                   stopVars, uploadVars>>

\* The label under which _connect leaves the button.
ConnectLabelEnabled == "Disconnect"                 \* mutant: may be stopped at once

ConnectLabel == "Connecting"

\* _connect: a new reader, with nothing to send, is started.  The bound is
\* that no reader of an earlier window is left on this port.
Connect(p) ==
    /\ Responsive
    /\ p \in windows
    /\ button[p] = "Connect"
    /\ stray[p] = "none"
    /\ reader' = [reader EXCEPT ![p] = TRUE]
    /\ button' = [button EXCEPT ![p] = ConnectLabel]
    /\ thread' = [thread EXCEPT ![p] = "opening"]
    /\ running' = [running EXCEPT ![p] = FALSE]
    /\ outgoing' = [outgoing EXCEPT ![p] = <<>>]
    /\ taken' = [taken EXCEPT ![p] = <<>>]
    /\ written' = [written EXCEPT ![p] = <<>>]
    /\ sends' = [sends EXCEPT ![p] = 0]
    /\ UNCHANGED <<windows, paused, shown, pending, inbox, chunks, strayVars,
                   stopVars, uploadVars>>

\* _disconnect: stop() lowers the flag and waits.
Disconnect(p) ==
    /\ Responsive
    /\ p \in windows
    /\ button[p] = "Disconnect"
    /\ button' = [button EXCEPT ![p] = "Disconnecting"]
    /\ running' = [running EXCEPT ![p] = FALSE]
    /\ stopping' = p
    /\ closing' = FALSE
    /\ UNCHANGED <<windows, reader, paused, shown, pending, thread, inbox, chunks,
                   outgoing, taken, written, sends, strayVars, uploadVars>>

\* The window is forgotten, and with it everything in it.
Forget(p) ==
    /\ windows' = windows \ {p}
    /\ reader' = [reader EXCEPT ![p] = FALSE]
    /\ button' = [button EXCEPT ![p] = "Connect"]
    /\ paused' = [paused EXCEPT ![p] = FALSE]
    /\ shown' = [shown EXCEPT ![p] = <<>>]
    /\ pending' = [pending EXCEPT ![p] = <<>>]
    /\ thread' = [thread EXCEPT ![p] = "none"]
    /\ running' = [running EXCEPT ![p] = FALSE]
    /\ inbox' = [inbox EXCEPT ![p] = <<>>]
    /\ chunks' = [chunks EXCEPT ![p] = 0]
    /\ outgoing' = [outgoing EXCEPT ![p] = <<>>]
    /\ taken' = [taken EXCEPT ![p] = <<>>]
    /\ written' = [written EXCEPT ![p] = <<>>]
    /\ sends' = [sends EXCEPT ![p] = 0]

\* closeEvent: stop() if there is a reader, then the window goes.
CloseIdle(p) ==
    /\ Responsive
    /\ p \in windows /\ ~reader[p]
    /\ Forget(p)
    /\ UNCHANGED <<strayVars, stopVars, uploadVars>>

CloseConnected(p) ==
    /\ Responsive
    /\ p \in windows /\ reader[p]
    /\ running' = [running EXCEPT ![p] = FALSE]
    /\ stopping' = p
    /\ closing' = TRUE
    /\ UNCHANGED <<windowVars, thread, inbox, chunks, outgoing, taken, written,
                   sends, strayVars, uploadVars>>

\* stop() returns: the reader has ended, or the two seconds are over.  A
\* window that closes leaves a reader that has not ended to itself.
StopReturns ==
    /\ ~Responsive
    /\ stopping' = NoPort
    /\ closing' = FALSE
    /\ IF closing
       THEN /\ Forget(stopping)
            /\ IF thread[stopping] = "ended" THEN UNCHANGED strayVars
               ELSE /\ stray' = [stray EXCEPT ![stopping] = thread[stopping]]
                    /\ strayRuns' = [strayRuns EXCEPT ![stopping] = running[stopping]]
       ELSE UNCHANGED <<windowVars, threadVars, strayVars>>
    /\ UNCHANGED uploadVars

\* _toggle_pause: resuming shows what has come in meanwhile.
TogglePauseDrops(p) ==                              \* mutant: cleared, not shown
    /\ paused' = [paused EXCEPT ![p] = ~@]
    /\ UNCHANGED shown
    /\ pending' = [pending EXCEPT ![p] = <<>>]

TogglePause(p) ==
    /\ paused' = [paused EXCEPT ![p] = ~@]
    /\ shown' = [shown EXCEPT ![p] = IF paused[p] THEN @ \o pending[p] ELSE @]
    /\ pending' = [pending EXCEPT ![p] = IF paused[p] THEN <<>> ELSE @]

PressPause(p) ==
    /\ Responsive
    /\ p \in windows
    /\ TogglePause(p)
    /\ UNCHANGED <<windows, reader, button, threadVars, strayVars, stopVars, uploadVars>>

\* _clear
Clear(p) ==
    /\ Responsive
    /\ p \in windows
    /\ shown' = [shown EXCEPT ![p] = <<>>]
    /\ UNCHANGED <<windows, reader, button, paused, pending, threadVars, strayVars,
                   stopVars, uploadVars>>

\* _send: the field is enabled from _on_connected until _on_reader_finished.
Send(p) ==
    /\ Responsive
    /\ p \in windows
    /\ button[p] \in {"Disconnect", "Disconnecting"}
    /\ sends[p] < MaxSends
    /\ sends' = [sends EXCEPT ![p] = @ + 1]
    /\ outgoing' = [outgoing EXCEPT ![p] = Append(@, sends'[p])]
    /\ UNCHANGED <<windowVars, thread, running, inbox, chunks, taken, written,
                   strayVars, stopVars, uploadVars>>

-----------------------------------------------------------------------------
(* The main thread: the reader's signals. *)

Receive(p, kind) ==
    /\ Responsive
    /\ inbox[p] # <<>>
    /\ Head(inbox[p]).kind = kind
    /\ inbox' = [inbox EXCEPT ![p] = Tail(@)]

\* _on_data
DeliverData(p) ==
    /\ Receive(p, "data")
    /\ LET n == Head(inbox[p]).chunk
       IN  IF paused[p]
           THEN pending' = [pending EXCEPT ![p] = Append(@, n)] /\ UNCHANGED shown
           ELSE shown' = [shown EXCEPT ![p] = Append(@, n)] /\ UNCHANGED pending
    /\ UNCHANGED <<windows, reader, button, paused, thread, running, chunks, outgoing,
                   taken, written, sends, strayVars, stopVars, uploadVars>>

\* _on_connected
DeliverOpenedSilent(p) ==                           \* mutant: button not updated
    /\ Receive(p, "opened")
    /\ UNCHANGED <<windowVars, thread, running, chunks, outgoing, taken, written,
                   sends, strayVars, stopVars, uploadVars>>

DeliverOpened(p) ==
    /\ Receive(p, "opened")
    /\ button' = [button EXCEPT ![p] = "Disconnect"]
    /\ UNCHANGED <<windows, reader, paused, shown, pending, thread, running, chunks,
                   outgoing, taken, written, sends, strayVars, stopVars, uploadVars>>

\* _on_error shows a message and changes nothing.
DeliverError(p) ==
    /\ Receive(p, "error")
    /\ UNCHANGED <<windowVars, thread, running, chunks, outgoing, taken, written,
                   sends, strayVars, stopVars, uploadVars>>

\* _on_reader_finished
DeliverFinished(p) ==
    /\ Receive(p, "finished")
    /\ reader' = [reader EXCEPT ![p] = FALSE]
    /\ button' = [button EXCEPT ![p] = "Connect"]
    /\ thread' = [thread EXCEPT ![p] = "none"]
    /\ UNCHANGED <<windows, paused, shown, pending, running, chunks, outgoing, taken,
                   written, sends, strayVars, stopVars, uploadVars>>

-----------------------------------------------------------------------------
(* The reader thread: _SerialReaderThread.run. *)

Post(p, signals) == inbox' = [inbox EXCEPT ![p] = @ \o signals]

\* serial.Serial(...) opens the port, or fails and the thread is over.
OpenPort(p) ==
    /\ thread[p] = "opening"
    /\ \/ /\ thread' = [thread EXCEPT ![p] = "opened"]
          /\ UNCHANGED inbox
       \/ /\ thread' = [thread EXCEPT ![p] = "ended"]
          /\ Post(p, <<Signal("error"), Signal("finished")>>)
    /\ UNCHANGED <<windowVars, running, chunks, outgoing, taken, written, sends,
                   strayVars, stopVars, uploadVars>>

\* Only then the flag is raised, whoever may have lowered it before.
StartLoop(p) ==
    /\ thread[p] = "opened"
    /\ thread' = [thread EXCEPT ![p] = "looping"]
    /\ running' = [running EXCEPT ![p] = TRUE]
    /\ Post(p, <<Signal("opened")>>)
    /\ UNCHANGED <<windowVars, chunks, outgoing, taken, written, sends, strayVars,
                   stopVars, uploadVars>>

\* The swap under the lock: all that waits is taken, and the list emptied.
TakeWritesOne(p) ==                                 \* mutant: takes one, empties all
    /\ taken' = [taken EXCEPT ![p] = <<Last(outgoing[p])>>]
    /\ outgoing' = [outgoing EXCEPT ![p] = Front(@)]

TakeWrites(p) ==
    /\ taken' = [taken EXCEPT ![p] = outgoing[p]]
    /\ outgoing' = [outgoing EXCEPT ![p] = <<>>]

Take(p) ==
    /\ thread[p] = "looping"
    /\ taken[p] = <<>> /\ outgoing[p] # <<>>
    /\ TakeWrites(p)
    /\ UNCHANGED <<windowVars, thread, running, inbox, chunks, written, sends,
                   strayVars, stopVars, uploadVars>>

\* The thread is in write(), for which the port was opened with no timeout: a
\* port that takes no bytes holds it there, maybe for ever.
InWrite(p) == thread[p] = "looping" /\ taken[p] # <<>>

Write(p) ==
    /\ InWrite(p)
    /\ written' = [written EXCEPT ![p] = Append(@, Head(taken[p]))]
    /\ taken' = [taken EXCEPT ![p] = Tail(@)]
    /\ UNCHANGED <<windowVars, thread, running, inbox, chunks, outgoing, sends,
                   strayVars, stopVars, uploadVars>>

Read(p) ==
    /\ thread[p] = "looping"
    /\ taken[p] = <<>>
    /\ chunks[p] < MaxChunks
    /\ chunks' = [chunks EXCEPT ![p] = @ + 1]
    /\ Post(p, <<Data(chunks'[p])>>)
    /\ UNCHANGED <<windowVars, thread, running, outgoing, taken, written, sends,
                   strayVars, stopVars, uploadVars>>

\* The loop sees its flag down, or a read or a write fails; either way the
\* port is closed and the thread is over.
LeaveLoop(p) ==
    /\ thread[p] = "looping"
    /\ \/ ~running[p] /\ taken[p] = <<>> /\ Post(p, <<Signal("finished")>>)
       \/ Post(p, <<Signal("error"), Signal("finished")>>)
    /\ thread' = [thread EXCEPT ![p] = "ended"]
    /\ UNCHANGED <<windowVars, running, chunks, outgoing, taken, written, sends,
                   strayVars, stopVars, uploadVars>>

\* The same steps of a reader whose window has gone: nobody hears it.
StrayStep(p) ==
    /\ \/ /\ stray[p] = "opening"
          /\ \E s \in {"opened", "none"} : stray' = [stray EXCEPT ![p] = s]
          /\ UNCHANGED strayRuns
       \/ /\ stray[p] = "opened"
          /\ stray' = [stray EXCEPT ![p] = "looping"]
          /\ strayRuns' = [strayRuns EXCEPT ![p] = TRUE]
       \/ /\ stray[p] = "looping"
          /\ stray' = [stray EXCEPT ![p] = "none"]
          /\ strayRuns' = [strayRuns EXCEPT ![p] = FALSE]
    /\ UNCHANGED <<windowVars, threadVars, stopVars, uploadVars>>

-----------------------------------------------------------------------------
(* Uploads. *)

\* _upload_device_ids: the devices that validate_devices lets pass become
\* busy.  It looks at the ports of the devices it is given, no others.
PortsPass(devices) ==
    /\ \A d \in devices : com[d] # NoPort /\ com[d] \notin MonitorPorts
    /\ \A d, e \in devices : d # e => com[d] # com[e]

StartUpload(devices) ==
    /\ Responsive
    /\ \E d \in devices : ~busy[d]
    /\ PortsPass(devices)
    /\ busy' = [d \in Devices |-> busy[d] \/ d \in devices]
    /\ UNCHANGED <<windowVars, threadVars, strayVars, stopVars, com>>

EndUpload(d) ==
    /\ Responsive
    /\ busy[d]
    /\ busy' = [busy EXCEPT ![d] = FALSE]
    /\ UNCHANGED <<windowVars, threadVars, strayVars, stopVars, com>>

\* The Port field of the Device Settings panel, locked for a busy device.
SetPort(d, p) ==
    /\ Responsive
    /\ ~busy[d]
    /\ com' = [com EXCEPT ![d] = p]
    /\ UNCHANGED <<windowVars, threadVars, strayVars, stopVars, busy>>

-----------------------------------------------------------------------------

Deliver(p) ==
    \/ DeliverData(p)
    \/ DeliverOpened(p)
    \/ DeliverError(p)
    \/ DeliverFinished(p)

Next ==
    \/ \E p \in Ports : OpenWindow(p)
    \/ \E p \in Ports : Connect(p)
    \/ \E p \in Ports : Disconnect(p)
    \/ \E p \in Ports : CloseIdle(p)
    \/ \E p \in Ports : CloseConnected(p)
    \/ StopReturns
    \/ \E p \in Ports : PressPause(p)
    \/ \E p \in Ports : Clear(p)
    \/ \E p \in Ports : Send(p)
    \/ \E p \in Ports : Deliver(p)
    \/ \E p \in Ports : OpenPort(p)
    \/ \E p \in Ports : StartLoop(p)
    \/ \E p \in Ports : Take(p)
    \/ \E p \in Ports : Write(p)
    \/ \E p \in Ports : Read(p)
    \/ \E p \in Ports : LeaveLoop(p)
    \/ \E p \in Ports : StrayStep(p)
    \/ \E devices \in SUBSET Devices : StartUpload(devices)
    \/ \E d \in Devices : EndUpload(d)
    \/ \E d \in Devices, p \in Ports \cup {NoPort} : SetPort(d, p)

Spec == Init /\ [][Next]_vars

\* Opening a port succeeds or fails some time, the loop goes round as long as
\* nothing is to be written (a read returns after 0.2 s at the latest), stop()
\* returns after two seconds, and a signal that was posted is delivered however
\* often stop() blocks the event loop in between, which takes events in their
\* order (hence SF).  A write need never return, nor fail: nothing bounds it.
\* Nobody has to press a button.
Fairness ==
    /\ \A p \in Ports :
          /\ WF_vars(OpenPort(p))
          /\ WF_vars(StartLoop(p))
          /\ WF_vars(LeaveLoop(p) /\ ~running[p] /\ ~InWrite(p))
          /\ SF_vars(Deliver(p))
    /\ WF_vars(StopReturns)

FairSpec == Spec /\ Fairness

-----------------------------------------------------------------------------
(* Properties. *)

\* What a window shows and what its reader is doing agree: the button says
\* Connect exactly when no reader is left, a reader that may be stopped has
\* begun to listen to its flag, and the stop of Disconnect is never lost, as
\* the raising of the flag in run() could make it.
ButtonIsTrue ==
    /\ TypeOK
    /\ \A p \in Ports :
          /\ reader[p] <=> thread[p] # "none"
          /\ reader[p] <=> button[p] # "Connect"
          /\ button[p] = "Disconnect" => thread[p] \in {"looping", "ended"}
          /\ button[p] = "Disconnecting" => ~running[p]

\* The data among some signals is the chunks first..last, each once, in order.
DataIs(signals, first, last) ==
    LET data == {i \in 1..Len(signals) : signals[i].kind = "data"}
    IN  /\ {signals[i].chunk : i \in data} = first..last
        /\ \A i, j \in data : i < j => signals[i].chunk < signals[j].chunk

\* No chunk the thread has read is lost, shown twice or out of order, however
\* Pause, Resume and Clear are pressed: the text view and the lines held back
\* end with the last chunk the window has heard of, in order, and all chunks
\* read since are under way.
DataKept ==
    \A p \in Ports : \E heard \in 0..chunks[p] :
        /\ LET all == shown[p] \o pending[p]
           IN  \A i \in 1..Len(all) : all[i] = heard - Len(all) + i
        /\ DataIs(inbox[p], heard + 1, chunks[p])

\* The port is sent what the user sent, each text once and in order, up to
\* where the connection ended: nothing is lost between the window's append
\* and the thread's swap.
SentInOrder ==
    \A p \in Ports :
        LET all == written[p] \o taken[p] \o outgoing[p]
        IN  all = [i \in 1..sends[p] |-> i]

\* Both directions of a connection are kept whole and in order.
StreamsAreKept == DataKept /\ SentInOrder

\* At the moment a device becomes busy, no reader of a window is opening its
\* port or holds it.
UploadStartsClear ==
    [][\A d \in Devices :
          busy'[d] /\ ~busy[d] => thread[com[d]] \notin {"opening", "opened", "looping"}]_vars

\* No window hangs in Connecting... for ever, nor in Disconnecting... unless
\* its reader is in a write that never returns.
Settles ==
    \A p \in Ports :
        /\ button[p] = "Connecting" ~> button[p] \in {"Connect", "Disconnect"}
        /\ button[p] = "Disconnecting" ~> button[p] = "Connect" \/ []InWrite(p)
=============================================================================
