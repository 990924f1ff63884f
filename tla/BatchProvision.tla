--------------------------- MODULE BatchProvision ---------------------------
(***************************************************************************)
(* Burning the eFuses of many devices: ProvisionController                 *)
(* (app/controllers/provision_controller.py) under BatchProvisionDialog    *)
(* (app/ui/batch_provision_dialog.py).                                     *)
(*                                                                         *)
(* Every dialog makes a controller of its own, and both outlive the        *)
(* window: Close and Esc hide it without a closeEvent and leave its batch  *)
(* at work.  So the state is kept per dialog, and several may have workers *)
(* at a time; only the last one opened can be visible.                     *)
(*                                                                         *)
(* A worker is what the controller sees of it: it runs, it has been asked  *)
(* to stop, or it has ended and its finished_provision is under way to the *)
(* main thread, until that is handled.  Provisioning has its inside.       *)
(***************************************************************************)
EXTENDS Naturals, FiniteSets, SequencesExt

CONSTANTS
    Devices,        \* the devices of the project
    MaxDialogs,     \* bound: dialogs opened
    MaxBatches,     \* bound: batches started in each of them
    Caps            \* the values get_max_parallel_provisions may return

ASSUME BatchProvisionAssumption ==
    /\ IsFiniteSet(Devices)
    /\ MaxDialogs \in Nat \ {0} /\ MaxBatches \in Nat
    /\ Caps \subseteq Nat \ {0}

Dialogs == 1..MaxDialogs

Outcomes == {"ok", "failed"}

VARIABLES
    shown,      \* the dialog that is visible, or 0
    opened,     \* how many have been opened
    eligible,   \* _eligible: what each dialog would burn
    queue,      \* _queue
    worker,     \* the worker of each device: "none", "running", "stopping", or
                \* the success of a finished_provision that is under way
    results,    \* _batch_results: "none" for a device with no entry
    startable,  \* is start_button enabled?
    cancellable,\* is cancel_all_button enabled?
    batch,      \* the devices of the current batch; _batch_size is its size
    cap,        \* the limit read when the batch was started
    calledOff,  \* history: has cancel_all been called in this batch?
    log,        \* history: what device_finished has said of each device
    batches,    \* history: batches started in each dialog
    reports     \* history: the batch_finished emissions of each dialog

batchVars == <<shown, opened, eligible, queue, worker, results, startable, cancellable,
               batch, cap, calledOff, log, batches, reports>>

dialogVars == <<shown, opened, eligible>>
startVars == <<batch, cap, batches>>

BatchTypeOK ==
    /\ shown \in 0..opened
    /\ opened \in 0..MaxDialogs
    /\ eligible \in [Dialogs -> SUBSET Devices]
    /\ queue \in [Dialogs -> Seq(Devices)]
    /\ worker \in [Dialogs -> [Devices -> {"none", "running", "stopping"} \cup Outcomes]]
    /\ results \in [Dialogs -> [Devices -> Outcomes \cup {"none"}]]
    /\ startable \in [Dialogs -> BOOLEAN]
    /\ cancellable \in [Dialogs -> BOOLEAN]
    /\ batch \in [Dialogs -> SUBSET Devices]
    /\ cap \in [Dialogs -> Nat]
    /\ calledOff \in [Dialogs -> BOOLEAN]
    /\ log \in [Dialogs -> [Devices -> Seq(Outcomes)]]
    /\ batches \in [Dialogs -> 0..MaxBatches]
    /\ reports \in [Dialogs -> Seq(Nat \X Nat)]

BatchInit ==
    /\ shown = 0 /\ opened = 0
    /\ eligible = [k \in Dialogs |-> {}]
    /\ queue = [k \in Dialogs |-> <<>>]
    /\ worker = [k \in Dialogs |-> [d \in Devices |-> "none"]]
    /\ results = [k \in Dialogs |-> [d \in Devices |-> "none"]]
    /\ startable = [k \in Dialogs |-> FALSE]
    /\ cancellable = [k \in Dialogs |-> FALSE]
    /\ batch = [k \in Dialogs |-> {}]
    /\ cap = [k \in Dialogs |-> 0]
    /\ calledOff = [k \in Dialogs |-> FALSE]
    /\ log = [k \in Dialogs |-> [d \in Devices |-> <<>>]]
    /\ batches = [k \in Dialogs |-> 0]
    /\ reports = [k \in Dialogs |-> <<>>]

-----------------------------------------------------------------------------

Queued(k) == ToSet(queue[k])

\* Busy with a worker: its finished_provision has not been handled.
Working(k) == {d \in Devices : worker[k][d] # "none"}

IsBusy(k, d) == d \in Queued(k) \/ d \in Working(k)

AnyBusy(k) == Queued(k) \cup Working(k) # {}

Launched(workers, devices) == [d \in Devices |-> IF d \in devices THEN "running" ELSE workers[d]]

\* _launch_next_queued
NextOf(k) == IF queue[k] = <<>> THEN {} ELSE {Head(queue[k])}

\* _maybe_finish_batch, when _batch_results holds res: the report, and the
\* buttons of the dialog with it.
FinishBatchEarly(k, res) ==                         \* mutant: counts the workers left
    IF Working(k) \subseteq {d \in Devices : res[d] # "none"}
    THEN /\ reports' = [reports EXCEPT ![k] = Append(@, <<1, 1>>)]
         /\ startable' = [startable EXCEPT ![k] = TRUE]
         /\ cancellable' = [cancellable EXCEPT ![k] = FALSE]
    ELSE UNCHANGED <<reports, startable, cancellable>>

FinishBatch(k, res) ==
    LET size == Cardinality(batch[k])
        succeeded == Cardinality({d \in Devices : res[d] = "ok"})
    IN  IF Cardinality({d \in Devices : res[d] # "none"}) >= size
        THEN /\ reports' = [reports EXCEPT ![k] = Append(@, <<succeeded, size - succeeded>>)]
             /\ startable' = [startable EXCEPT ![k] = TRUE]
             /\ cancellable' = [cancellable EXCEPT ![k] = FALSE]
        ELSE UNCHANGED <<reports, startable, cancellable>>

-----------------------------------------------------------------------------
(* The dialog. *)

\* __init__: the candidates, those left out that want nothing burned or do not
\* pass validate_security_settings.  `excluded` are those the main window does
\* not offer.
OpenBatchDialog(excluded) ==
    /\ shown = 0
    /\ opened < MaxDialogs
    /\ opened' = opened + 1
    /\ shown' = opened + 1
    /\ \E chosen \in SUBSET (Devices \ excluded) :
          /\ eligible' = [eligible EXCEPT ![opened + 1] = chosen]
          /\ startable' = [startable EXCEPT ![opened + 1] = chosen # {}]
    /\ UNCHANGED <<queue, worker, results, cancellable, startVars, calledOff, log, reports>>

\* The orders in which a set of devices can be listed: that of the project's
\* device list is data of the user's.
Listings(S) == Bijection(1..Cardinality(S), S)

\* _on_start_clicked and start_batch: the first of the devices, as many as the
\* limit allows, get a worker, the others wait; a user who does not confirm
\* changes nothing.
StartBatch(k) ==
    LET free == {d \in eligible[k] : ~IsBusy(k, d)}
    IN  /\ shown = k
        /\ startable[k]
        /\ batches[k] < MaxBatches
        /\ startable' = [startable EXCEPT ![k] = FALSE]
        /\ cancellable' = [cancellable EXCEPT ![k] = TRUE]
        /\ IF free = {} THEN UNCHANGED <<queue, worker, results, startVars, calledOff>>
           ELSE \E limit \in Caps, launch \in SUBSET free :
                  /\ Cardinality(launch) = Min({limit, Cardinality(free)})
                  /\ \E rest \in Listings(free \ launch) :
                        queue' = [queue EXCEPT ![k] = @ \o rest]
                  /\ worker' = [worker EXCEPT ![k] = Launched(@, launch)]
                  /\ results' = [results EXCEPT ![k] = [d \in Devices |-> "none"]]
                  /\ batch' = [batch EXCEPT ![k] = free]
                  /\ cap' = [cap EXCEPT ![k] = limit]
                  /\ batches' = [batches EXCEPT ![k] = @ + 1]
                  /\ calledOff' = [calledOff EXCEPT ![k] = FALSE]
        /\ UNCHANGED <<dialogVars, log, reports>>

CancelRunning(k) ==                                 \* mutant: the queue goes on
    /\ worker' = [worker EXCEPT ![k] =
                     [d \in Devices |-> IF @[d] = "running" THEN "stopping" ELSE @[d]]]
    /\ calledOff' = [calledOff EXCEPT ![k] = TRUE]
    /\ UNCHANGED <<queue, results, log, reports, startable, cancellable, eligible, opened, startVars>>

\* cancel_all: the devices in the queue are resolved without ever having run,
\* the workers that run are asked to stop.
CancelAll(k) ==
    LET out == Queued(k)
        res == [d \in Devices |-> IF d \in out THEN "failed" ELSE results[k][d]]
    IN  /\ queue' = [queue EXCEPT ![k] = <<>>]
        /\ results' = [results EXCEPT ![k] = res]
        /\ log' = [log EXCEPT ![k] =
                      [d \in Devices |-> IF d \in out THEN Append(@[d], "failed") ELSE @[d]]]
        /\ worker' = [worker EXCEPT ![k] =
                         [d \in Devices |-> IF @[d] = "running" THEN "stopping" ELSE @[d]]]
        /\ calledOff' = [calledOff EXCEPT ![k] = TRUE]
        /\ IF out = {} THEN UNCHANGED <<reports, startable, cancellable>> ELSE FinishBatch(k, res)
        /\ UNCHANGED <<eligible, opened, startVars>>

\* Cancel All
CancelButton(k) ==
    /\ shown = k
    /\ cancellable[k]
    /\ CancelAll(k)
    /\ UNCHANGED shown

\* The window's own close button: closeEvent, which asks while a batch is
\* under way; a user who says no changes nothing.
CloseWindow(k) ==
    /\ shown = k
    /\ shown' = 0
    /\ IF AnyBusy(k) THEN CancelAll(k)
       ELSE UNCHANGED <<opened, eligible, queue, worker, results, startable, cancellable,
                        startVars, calledOff, log, reports>>

\* Close and Esc: reject() hides the dialog, and that is all.
CloseButton(k) ==
    /\ shown = k
    /\ shown' = 0
    /\ UNCHANGED <<opened, eligible, queue, worker, results, startable, cancellable, startVars,
                   calledOff, log, reports>>

-----------------------------------------------------------------------------
(* The workers, and the main thread that hears of them. *)

\* A worker that was asked to stop may have succeeded before it looked.
WorkerEnds(k, d) ==
    /\ worker[k][d] \in {"running", "stopping"}
    /\ \E outcome \in Outcomes : worker' = [worker EXCEPT ![k][d] = outcome]
    /\ UNCHANGED <<dialogVars, queue, results, startable, cancellable, startVars, calledOff,
                   log, reports>>

HandoverForgotten(k, d) ==                          \* mutant: the slot stays empty
    worker' = [worker EXCEPT ![k][d] = "none"] /\ UNCHANGED queue

\* _on_worker_finished: the next in the queue takes over the slot.
Handover(k, d) ==
    /\ worker' = [worker EXCEPT ![k] = Launched([@ EXCEPT ![d] = "none"], NextOf(k))]
    /\ queue' = [queue EXCEPT ![k] = IF @ = <<>> THEN @ ELSE Tail(@)]

WorkerFinished(k, d) ==
    LET outcome == worker[k][d]
        res == [results[k] EXCEPT ![d] = outcome]
    IN  /\ outcome \in Outcomes
        /\ results' = [results EXCEPT ![k] = res]
        /\ log' = [log EXCEPT ![k][d] = Append(@, outcome)]
        /\ Handover(k, d)
        /\ FinishBatch(k, res)
        /\ UNCHANGED <<dialogVars, startVars, calledOff>>

BatchNext ==
    \E k \in Dialogs :
        \/ StartBatch(k)
        \/ CancelButton(k)
        \/ CloseWindow(k)
        \/ CloseButton(k)
        \/ \E d \in Devices : WorkerEnds(k, d) \/ WorkerFinished(k, d)
=============================================================================
