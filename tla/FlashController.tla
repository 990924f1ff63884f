-------------------------- MODULE FlashController --------------------------
(***************************************************************************)
(* The batch scheduler of app/controllers/flash_controller.py.             *)
(*                                                                         *)
(* FlashController runs on the Qt main thread.  It owns a queue of devices *)
(* waiting for a slot, one FlashWorker thread per device being flashed,    *)
(* and the bookkeeping of the current batch.  The workers run on threads   *)
(* of their own and talk to it only through queued signals, which the main *)
(* thread's event loop delivers one at a time in the order they were       *)
(* posted: that queue is the variable inbox.                               *)
(*                                                                         *)
(* A worker is abstracted here to what the controller can observe of it:   *)
(* it reports a status while it works, and at the end one terminal status  *)
(* followed by one finished_flash.  Module FlashWorker models its inside.  *)
(***************************************************************************)
EXTENDS Integers, FiniteSets, SequencesExt, FlashOutcome

CONSTANTS
    Devices,    \* the devices of the project
    Caps,       \* the values "Max Parallel Flashes" may have at a start
    MaxStarts   \* bound: number of batches started in a behaviour

ASSUME ControllerAssumption ==
    /\ IsFiniteSet(Devices)
    /\ Caps \subseteq Nat \ {0}
    /\ MaxStarts \in Nat

VARIABLES
    queue,      \* _queue: the devices waiting for a slot, oldest first
    busy,       \* _busy: devices whose worker has not been seen to finish
    thread,     \* what the worker thread of each device is doing
    cancelled,  \* FlashWorker._cancel_requested of each device's worker
    inbox,      \* signals posted to the main thread, not yet delivered
    status,     \* DeviceConfig.runtime.status
    batch,      \* the devices of the current batch; _batch_size is its size
    results,    \* _batch_results: "none" for a device with no entry
    history,    \* results of the history entries created, per device
    announced,  \* batch_finished emissions since the last batch_started
    batchCap,   \* the cap read by the last start_batch
    alone,      \* was no device busy when the current batch was started?
    attempts,   \* how often start_batch has accepted each device
    starts      \* number of batches started

vars == <<queue, busy, thread, cancelled, inbox, status, batch, results,
          history, announced, batchCap, alone, attempts, starts>>

batchVars == <<batch, batchCap, alone, attempts, starts>>

\* "Active" stands for the statuses of a flash under way: Preparing,
\* Connecting, Erasing, Uploading and Verifying.  "Idle" is the "Waiting" a
\* device has before its first upload, which the code writes the same way as
\* that of a device whose worker has just been launched.
Status == {"Idle", "Queued", "Waiting", "Active"} \cup Results

Signals == [dev : Devices, kind : {"status"}, value : {"Active"} \cup Results]
               \cup [dev : Devices, kind : {"finished"}, value : Results]

TypeOK ==
    /\ queue \in Seq(Devices)
    /\ busy \in [Devices -> BOOLEAN]
    /\ thread \in [Devices -> {"stopped", "started", "active", "finished"}]
    /\ cancelled \in [Devices -> BOOLEAN]
    /\ inbox \in Seq(Signals)
    /\ status \in [Devices -> Status]
    /\ batch \in SUBSET Devices
    /\ results \in [Devices -> {"none", "ok", "failed"}]
    /\ history \in [Devices -> Seq(Results)]
    /\ announced \in Seq([ok : Nat, failed : Int])
    /\ batchCap \in Nat
    /\ alone \in BOOLEAN
    /\ attempts \in [Devices -> Nat]
    /\ starts \in Nat

-----------------------------------------------------------------------------

Queued == ToSet(queue)
Running == {d \in Devices : busy[d]}

IsBusy(d) == d \in Queued \/ busy[d]
AnyBusy == \E d \in Devices : IsBusy(d)

\* The orders in which a set of devices can be listed: the order of the
\* project's device list is data of the user's.
Listings(S) == Bijection(1..Cardinality(S), S)

\* The devices of a request that start_batch accepts.
EligibleUnlessRunning(devices) == {d \in devices : ~busy[d]}   \* mutant: forgets the queue
EligibleAlways(devices) == devices                              \* mutant: no filter

Eligible(devices) == {d \in devices : ~IsBusy(d)}

\* The choices of the devices that get a worker at once: the first cap of the
\* eligible ones, in whatever order the user's list has them.
FirstSlotsOneTooMany(eligible, cap) ==                          \* mutant: off by one
    {launch \in SUBSET eligible :
        \/ Cardinality(eligible) <= cap + 1 /\ launch = eligible
        \/ Cardinality(eligible) > cap + 1 /\ Cardinality(launch) = cap + 1}

FirstSlots(eligible, cap) ==
    {launch \in SUBSET eligible :
        \/ Cardinality(eligible) <= cap /\ launch = eligible
        \/ Cardinality(eligible) > cap /\ Cardinality(launch) = cap}

\* The device _launch_next_queued takes: the oldest in the queue, if any.
NextQueuedNever == {}                                           \* mutant: not called
NextQueuedNewest == IF queue = <<>> THEN {} ELSE {Last(queue)}  \* mutant: pop() for pop(0)

NextQueued == IF queue = <<>> THEN {} ELSE {Head(queue)}

\* What _maybe_finish_batch emits when _batch_results holds res: one
\* batch_finished when there are as many results as devices in the batch.
batchSize == Cardinality(batch)

Tally(res) ==
    LET succeeded == Cardinality({d \in Devices : res[d] = "ok"})
    IN  [ok |-> succeeded, failed |-> batchSize - succeeded]

Resolved(res) == Cardinality({d \in Devices : res[d] # "none"})

MaybeFinishBatchEarly(res) ==                                   \* mutant: off by one
    announced' = IF Resolved(res) + 1 >= batchSize
                 THEN Append(announced, Tally(res)) ELSE announced
MaybeFinishBatchLate(res) ==                                    \* mutant: > for >=
    announced' = IF Resolved(res) > batchSize
                 THEN Append(announced, Tally(res)) ELSE announced

MaybeFinishBatch(res) ==
    announced' = IF Resolved(res) >= batchSize
                 THEN Append(announced, Tally(res))
                 ELSE announced

\* _launch_worker for each device of the set: a new FlashWorker with its
\* cancel flag down, marked busy, its thread started.  The workers of the
\* devices in stopped have ended: their flag is cleared, their thread joined.
LaunchWorkers(launch, stopped) ==
    /\ busy' = [d \in Devices |-> d \in launch \/ (busy[d] /\ d \notin stopped)]
    /\ thread' = [d \in Devices |->
                     IF d \in launch THEN "started"
                     ELSE IF d \in stopped THEN "stopped" ELSE thread[d]]
    /\ cancelled' = [d \in Devices |-> cancelled[d] /\ d \notin launch]

-----------------------------------------------------------------------------

Init ==
    /\ queue = <<>>
    /\ busy = [d \in Devices |-> FALSE]
    /\ thread = [d \in Devices |-> "stopped"]
    /\ cancelled = [d \in Devices |-> FALSE]
    /\ inbox = <<>>
    /\ status = [d \in Devices |-> "Idle"]
    /\ batch = {}
    /\ results = [d \in Devices |-> "none"]
    /\ history = [d \in Devices |-> <<>>]
    /\ announced = <<>>
    /\ batchCap = 0
    /\ alone = TRUE
    /\ attempts = [d \in Devices |-> 0]
    /\ starts = 0

\* start_batch: the devices that are not busy form a new batch, whatever
\* may still be running of an earlier one; the first cap of them get a
\* worker, the rest join the queue.  The user may ask at any moment (Upload
\* All, Upload Selected, Retry Failed and Retry Selected all end here).
StartBatch(devices, cap) ==
    LET eligible == Eligible(devices)
    IN  /\ starts < MaxStarts
        /\ eligible # {}
        /\ \E launch \in FirstSlots(eligible, cap) :
              /\ \E rest \in Listings(eligible \ launch) : queue' = queue \o rest
              /\ status' = [d \in Devices |->
                               IF d \in launch THEN "Waiting"
                               ELSE IF d \in eligible THEN "Queued"
                               ELSE status[d]]
              /\ LaunchWorkers(launch, {})
        /\ batch' = eligible
        /\ results' = [d \in Devices |-> "none"]
        /\ announced' = <<>>
        /\ batchCap' = cap
        /\ alone' = ~AnyBusy
        /\ attempts' = [d \in Devices |->
                           IF d \in eligible THEN attempts[d] + 1 ELSE attempts[d]]
        /\ starts' = starts + 1
        /\ UNCHANGED <<inbox, history>>

-----------------------------------------------------------------------------
(* The worker threads. *)

\* What a worker posts to the main thread: status_changed, finished_flash.
StatusSignal(d, badge) == [dev |-> d, kind |-> "status", value |-> badge]
FinishedSignal(d, result) == [dev |-> d, kind |-> "finished", value |-> result]

\* A worker reports that it is at work.
WorkerActive(d) ==
    /\ thread[d] = "started"
    /\ thread' = [thread EXCEPT ![d] = "active"]
    /\ inbox' = Append(inbox, StatusSignal(d, "Active"))
    /\ UNCHANGED <<queue, busy, cancelled, status, results, history, announced,
                   batchVars>>

\* FlashWorker._finish: the terminal status, then finished_flash.
FinalSignalsSilent(d, end) ==                                   \* mutant: no status
    <<FinishedSignal(d, end.result)>>
FinalSignalsTwice(d, end) ==                                    \* mutant: emitted twice
    <<FinishedSignal(d, end.result), FinishedSignal(d, end.result)>>

FinalSignals(d, end) ==
    <<StatusSignal(d, end.badge), FinishedSignal(d, end.result)>>

WorkerFinish(d) ==
    /\ thread[d] = "active"
    /\ thread' = [thread EXCEPT ![d] = "finished"]
    /\ \E end \in Endings(cancelled[d]) :
          inbox' = inbox \o FinalSignals(d, end)
    /\ UNCHANGED <<queue, busy, cancelled, status, results, history, announced,
                   batchVars>>

-----------------------------------------------------------------------------
(* The main thread's event loop. *)

\* status_changed reaches MainWindow._on_status_changed.
DeliverStatus ==
    /\ inbox # <<>>
    /\ Head(inbox).kind = "status"
    /\ inbox' = Tail(inbox)
    /\ status' = [status EXCEPT ![Head(inbox).dev] = Head(inbox).value]
    /\ UNCHANGED <<queue, busy, thread, cancelled, results, history, announced,
                   batchVars>>

\* finished_flash reaches _on_worker_finished: record the result, join the
\* thread, log the attempt, hand the freed slot to the oldest queued device,
\* and see whether the batch is complete.
DeliverFinished ==
    /\ inbox # <<>>
    /\ Head(inbox).kind = "finished"
    /\ LET d == Head(inbox).dev
           r == Head(inbox).value
           res == [results EXCEPT ![d] = IF r = "Completed" THEN "ok" ELSE "failed"]
       IN  /\ inbox' = Tail(inbox)
           /\ results' = res
           /\ history' = [history EXCEPT ![d] = Append(@, r)]
           /\ queue' = IF NextQueued = {} THEN queue ELSE Tail(queue)
           /\ status' = [x \in Devices |->
                            IF x \in NextQueued THEN "Waiting" ELSE status[x]]
           /\ LaunchWorkers(NextQueued, {d})
           /\ MaybeFinishBatch(res)
    /\ UNCHANGED batchVars

-----------------------------------------------------------------------------
(* Cancellation. *)

\* cancel for a device that is still queued: it leaves the queue and is
\* resolved by _finish_queued_device; no slot is freed.
CancelQueued(d) ==
    /\ d \in Queued
    /\ LET res == [results EXCEPT ![d] = "failed"]
       IN  /\ results' = res
           /\ MaybeFinishBatch(res)
    /\ \E i \in 1..Len(queue) :
          /\ queue[i] = d
          /\ queue' = RemoveAt(queue, i)
    /\ status' = [status EXCEPT ![d] = "Cancelled"]
    /\ history' = [history EXCEPT ![d] = Append(@, "Cancelled")]
    /\ UNCHANGED <<busy, thread, cancelled, inbox, batchVars>>

\* A worker that has posted finished_flash no longer reads its flag.
Cancellable(d) == thread[d] \in {"started", "active"}

\* cancel for a device whose worker is running: raise its flag.
CancelRunning(d) ==
    /\ d \notin Queued
    /\ Cancellable(d)
    /\ cancelled' = [cancelled EXCEPT ![d] = TRUE]
    /\ UNCHANGED <<queue, busy, thread, inbox, status, results, history, announced,
                   batchVars>>

\* cancel_all: every queued device is resolved in turn, each followed by
\* _maybe_finish_batch, then every running worker's flag is raised.
CancelAll ==
    /\ AnyBusy
    /\ LET reached == {i \in 1..Len(queue) : Resolved(results) + i >= batchSize}
       IN  announced' = announced \o [i \in 1..Cardinality(reached) |-> Tally(results)]
    /\ queue' = <<>>
    /\ results' = [d \in Devices |-> IF d \in Queued THEN "failed" ELSE results[d]]
    /\ status' = [d \in Devices |-> IF d \in Queued THEN "Cancelled" ELSE status[d]]
    /\ history' = [d \in Devices |->
                      IF d \in Queued THEN Append(history[d], "Cancelled") ELSE history[d]]
    /\ cancelled' = [d \in Devices |->
                        cancelled[d] \/ (d \notin Queued /\ Cancellable(d))]
    /\ UNCHANGED <<busy, thread, inbox, batchVars>>

-----------------------------------------------------------------------------

Deliver == DeliverStatus \/ DeliverFinished

Next ==
    \/ \E devices \in SUBSET Devices, cap \in Caps : StartBatch(devices, cap)
    \/ \E d \in Devices : WorkerActive(d)
    \/ \E d \in Devices : WorkerFinish(d)
    \/ DeliverStatus
    \/ DeliverFinished
    \/ \E d \in Devices : CancelQueued(d)
    \/ \E d \in Devices : CancelRunning(d)
    \/ CancelAll

Spec == Init /\ [][Next]_vars

\* Every worker's run ends (module FlashWorker shows why), and the event loop
\* keeps delivering.  The user is under no obligation to do anything.
Fairness ==
    /\ \A d \in Devices : WF_vars(WorkerActive(d)) /\ WF_vars(WorkerFinish(d))
    /\ WF_vars(Deliver)

FairSpec == Spec /\ Fairness

-----------------------------------------------------------------------------
(* Properties that hold however batches overlap. *)

\* A device is never in the queue twice, nor queued while a worker of its own
\* is still running: no retry, cancel or second upload can start two esptool
\* runs for one device (is_busy and start_batch's filter).
QueueDiscipline ==
    /\ \A i, j \in 1..Len(queue) : queue[i] = queue[j] => i = j
    /\ \A i \in 1..Len(queue) : ~busy[queue[i]]

\* The queue is only ever drained by workers that finish, so it must never
\* be non-empty when no worker is left to do so: the batch would hang with
\* devices shown as Queued for ever.
NoStrandedQueue == queue # <<>> => Running # {}

\* Every signal still on its way to the main thread belongs to a device that
\* is busy, and a device's finished_flash is the last of its signals: a late
\* status of one run can never overwrite the badge of the next.
NoLateSignals ==
    /\ \A i \in 1..Len(inbox) : busy[inbox[i].dev]
    /\ \A i, j \in 1..Len(inbox) :
          inbox[i].dev = inbox[j].dev /\ inbox[i].kind = "finished" => j <= i

\* A worker that ended is known by exactly its undelivered finished_flash; a
\* worker still at work has none.  This is what makes _busy authoritative.
FinishedIsPosted ==
    \A d \in Devices :
        (thread[d] = "finished") <=>
            \E i \in 1..Len(inbox) : inbox[i].dev = d /\ inbox[i].kind = "finished"

\* The busy flag and the thread agree: the controller never believes a device
\* idle whose thread it has not joined.
BusyIsThread == \A d \in Devices : busy[d] <=> thread[d] # "stopped"

\* The signals under way, the busy flags and the threads tell one story.
SignalDiscipline ==
    /\ NoLateSignals
    /\ FinishedIsPosted
    /\ BusyIsThread

\* The inductive core of the scheduler.
SchedulerInv ==
    /\ QueueDiscipline
    /\ NoStrandedQueue
    /\ SignalDiscipline

\* Every accepted attempt is logged exactly once: the history entries of a
\* device are its attempts, less the one under way.
OneEntryPerAttempt ==
    \A d \in Devices :
        attempts[d] = Len(history[d]) + (IF IsBusy(d) THEN 1 ELSE 0)

\* A device the controller has let go of never keeps showing a badge of a run
\* under way, and one that waits in the queue shows Queued.
NoStuckBadge ==
    \A d \in Devices :
        /\ ~IsBusy(d) => status[d] \in {"Idle"} \cup Results
        /\ d \in Queued => status[d] = "Queued"

\* A device whose result is recorded in the batch is no longer busy: a result
\* is never counted for a run that is still going on.
RecordedIsIdle == \A d \in Devices : results[d] # "none" => ~IsBusy(d)

\* What the badges and the batch's results say of a device agrees with what the
\* controller still does with it.
BadgesAndResultsAgree == NoStuckBadge /\ RecordedIsIdle

\* History, badges and results all tell what has become of the same attempts.
RecordsAgree == OneEntryPerAttempt /\ BadgesAndResultsAgree

\* Outside start_batch the number of running workers never grows, and the
\* only worker that may start is the one at the head of the queue, in the
\* slot another has just freed (the note in _finish_queued_device).
SlotHandover ==
    [][starts' = starts =>
          /\ Cardinality(Running') <= Cardinality(Running)
          /\ \A d \in Devices :
                busy'[d] /\ ~busy[d] => queue # <<>> /\ d = Head(queue)]_vars

\* Every accepted device is eventually resolved, however it was queued.
EveryAttemptEnds == \A d \in Devices : IsBusy(d) ~> ~IsBusy(d)

\* Every batch_started is eventually followed by a batch_finished.
EveryBatchReported == \A n \in 1..MaxStarts : starts = n ~> announced # <<>>

\* Nothing that was started stays without an end and a report of it.
EverythingEnds == EveryAttemptEnds /\ EveryBatchReported

\* The scheduler implements the job pool: the queue is the pending set, the
\* busy flags the running set, the history the log.
Jobs == INSTANCE FlashJobs WITH
    pending <- Queued, running <- Running, log <- history

ImplementsJobs == Jobs!Spec

-----------------------------------------------------------------------------
(* Properties of a batch that was started when nothing was under way. *)

\* Never more workers at a time than the cap read when the batch was started.
CapRespected == alone => Cardinality(Running) <= batchCap

\* batch_finished is emitted exactly once, at the moment the last device of
\* the batch is resolved, and its two counts are those of the history.
BatchReportExact == alone =>
    /\ Len(announced) <= 1
    /\ starts > 0 => (announced # <<>> <=> ~AnyBusy)
    /\ announced # <<>> =>
          LET succeeded == {d \in batch : history[d][Len(history[d])] = "Completed"}
          IN  /\ announced[1].ok = Cardinality(succeeded)
              /\ announced[1].failed = Cardinality(batch \ succeeded)

\* A batch that is started on an idle bench keeps the cap, through every cancel
\* and hand-over, and is reported once, on time and with the right counts.
BatchExact == CapRespected /\ BatchReportExact

-----------------------------------------------------------------------------
(* What the documentation says of any use, and overlapping batches refute. *)

\* "FlashController aggregates finished_flash signals (plus queued devices
\* resolved via cancellation) to know when the whole batch is done": when
\* batch_finished has been emitted, no device of the batch is still busy.
ReportedWhenDone == announced # <<>> => \A d \in batch : ~IsBusy(d)
=============================================================================
