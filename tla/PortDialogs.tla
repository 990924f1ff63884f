---------------------------- MODULE PortDialogs ----------------------------
(***************************************************************************)
(* The dialogs of the main window that put a device's port to use, beside  *)
(* the flash scheduler (app/ui/main_window.py).                            *)
(*                                                                         *)
(* Both dialogs are modal: while one is shown no other is opened and no    *)
(* upload is started, but what runs goes on.  Of the scheduler there is    *)
(* only who is busy: FlashController has the rest.                         *)
(***************************************************************************)
EXTENDS BatchProvision

CONSTANTS
    MaxReads,       \* bound: read dialogs opened
    MaxOpened       \* bound: dialogs of both kinds opened

ASSUME PortAssumption == MaxReads \in Nat \ {0} /\ MaxOpened \in Nat

VARIABLES
    readShown, readOpened, readOf, combo, reader, mode, runnable, detected,  \* of ReadDialog
    flashing    \* the devices flash_controller.is_busy() is true of

Read == INSTANCE ReadDialog

readVars == <<readShown, readOpened, readOf, combo, reader, mode, runnable, detected>>
portVars == <<batchVars, readVars, flashing>>

PortTypeOK ==
    /\ BatchTypeOK
    /\ Read!ReadTypeOK
    /\ flashing \subseteq Devices

PortInit == BatchInit /\ Read!ReadInit /\ flashing = {}

\* No modal dialog is up: the main window takes input.
Attended == shown = 0 /\ readShown = 0

MayOpen == Attended /\ opened + readOpened < MaxOpened

\* _upload_device_ids knows of no dialog and its workers.
Upload(d) ==
    /\ Attended
    /\ d \notin flashing
    /\ flashing' = flashing \cup {d}
    /\ UNCHANGED <<batchVars, readVars>>

UploadEnds(d) ==
    /\ d \in flashing
    /\ flashing' = flashing \ {d}
    /\ UNCHANGED <<batchVars, readVars>>

\* _on_open_batch_provision_dialog
OpenBatchOfAll ==                                   \* mutant: the busy devices are offered
    /\ MayOpen
    /\ OpenBatchDialog({})
    /\ UNCHANGED <<readVars, flashing>>

OpenBatch ==
    /\ MayOpen
    /\ OpenBatchDialog(flashing)
    /\ UNCHANGED <<readVars, flashing>>

\* _on_read_device_requested
OpenRead ==
    /\ MayOpen
    /\ \E d \in Devices : Read!OpenReadDialog(d, flashing)
    /\ UNCHANGED <<batchVars, flashing>>

PortNext ==
    \/ BatchNext /\ UNCHANGED <<readVars, flashing>>
    \/ Read!ReadNext /\ UNCHANGED <<batchVars, flashing>>
    \/ OpenBatch
    \/ OpenRead
    \/ \E d \in Devices : Upload(d) \/ UploadEnds(d)

PortSpec == PortInit /\ [][PortNext]_portVars

\* espefuse ends, as its stall timeout sees to, and the main thread handles
\* what is posted to it; no user has to come back.
Fairness ==
    \A k \in Dialogs, d \in Devices :
        /\ WF_portVars(WorkerEnds(k, d) /\ UNCHANGED <<readVars, flashing>>)
        /\ WF_portVars(WorkerFinished(k, d) /\ UNCHANGED <<readVars, flashing>>)

FairPortSpec == PortSpec /\ Fairness

-----------------------------------------------------------------------------
(* Properties. *)

\* The books of a controller balance at every step, though results come in any
\* order and cancels at any moment: each device of the batch is waiting, has a
\* worker, or has its result; never more workers than the limit, and a free
\* slot only when nobody waits; the batch is reported once, when the last
\* result is in, with the counts of its results; and the buttons say so.
BatchBooks ==
    /\ PortTypeOK
    /\ \A k \in Dialogs :
          LET resolved == {d \in Devices : results[k][d] # "none"}
              good == {d \in Devices : results[k][d] = "ok"}
          IN  /\ Queued(k) \cup Working(k) \cup resolved = batch[k]
              /\ Queued(k) \cap Working(k) = {}
              /\ resolved \cap (Queued(k) \cup Working(k)) = {}
              /\ Len(queue[k]) = Cardinality(Queued(k))
              /\ Cardinality(Working(k)) <= cap[k]
              /\ queue[k] # <<>> => Cardinality(Working(k)) = cap[k]
              /\ Len(reports[k]) = batches[k] - (IF AnyBusy(k) THEN 1 ELSE 0)
              /\ ~AnyBusy(k) /\ batches[k] > 0 =>
                    Last(reports[k]) = <<Cardinality(good), Cardinality(batch[k] \ good)>>
              /\ cancellable[k] = AnyBusy(k)
              /\ startable[k] = (~AnyBusy(k) /\ eligible[k] # {})

\* The dialog in front keeps off the scheduler's ports: what it burns or reads
\* is not being flashed, whatever was started and closed before, and no second
\* read is started over a worker that is at work or about to answer.
FrontSparesFlash ==
    /\ shown # 0 => Working(shown) \cap flashing = {}
    /\ readShown # 0 /\ Read!Reading(readShown) => readOf[readShown] \notin flashing
    /\ \A r \in Read!Reads : runnable[r] => reader[r] = "none"

\* After Cancel All, or a close that was confirmed, no worker of the batch is
\* launched any more, however the running ones end.
NothingAfterCancel ==
    [][\A k \in Dialogs, d \in Devices :
          calledOff[k] /\ worker[k][d] = "none" /\ worker'[k][d] # "none" => ~calledOff'[k]]_portVars

\* Every batch comes to its report, with its dialog open or hidden.
EveryBatchEnds == \A k \in Dialogs : AnyBusy(k) ~> (~AnyBusy(k) /\ Len(reports[k]) = batches[k])

\* Each controller does what the flash scheduler does: it implements the same
\* abstract pool of jobs.
Pool(k) == INSTANCE FlashJobs WITH
    Results <- Outcomes, pending <- Queued(k), running <- Working(k), log <- log[k]

ImplementsPool ==
    /\ \A k \in Dialogs : Pool(k)!Init
    /\ [][\A k \in Dialogs : Pool(k)!Next \/ UNCHANGED Pool(k)!jobVars]_portVars
=============================================================================
