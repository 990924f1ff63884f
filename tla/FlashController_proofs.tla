----------------------- MODULE FlashController_proofs -----------------------
(***************************************************************************)
(* Proofs about the scheduler, FlashController, the panel beside it,       *)
(* SettingsPanel, and the worker, FlashWorker, for any devices, caps and   *)
(* batches.  Part 1: the queue, the slots and the signals, and the pool of *)
(* jobs they implement.  Part 2: what is recorded: history, badges and     *)
(* results agree, a freed slot is handed over and not multiplied, a batch  *)
(* started on an idle bench is reported exactly, and a panel is locked     *)
(* while its device is flashed.  Part 3: what a run of a worker reports is *)
(* true, no process is forgotten, and the worker keeps the contract the    *)
(* scheduler is modelled with.                                             *)
(***************************************************************************)
EXTENDS SettingsPanel, FlashWorker, SequenceTheorems, FiniteSetTheorems, TLAPS

LEMMA RemoveAtProps ==
    ASSUME NEW S, NEW s \in Seq(S), NEW i \in 1..Len(s)
    PROVE  /\ RemoveAt(s, i) \in Seq(S)
           /\ Len(RemoveAt(s, i)) = Len(s) - 1
           /\ \A k \in 1..(Len(s) - 1) :
                RemoveAt(s, i)[k] = IF k < i THEN s[k] ELSE s[k + 1]
<1> DEFINE l == SubSeq(s, 1, i - 1)
           r == SubSeq(s, i + 1, Len(s))
<1>1. l \in Seq(S) /\ Len(l) = i - 1 /\ \A k \in 1..(i - 1) : l[k] = s[k]
  BY SubSeqProperties
<1>2. r \in Seq(S) /\ Len(r) = Len(s) - i /\ \A k \in 1..(Len(s) - i) : r[k] = s[i + k]
  BY SubSeqProperties
<1>3. RemoveAt(s, i) = l \o r
  BY DEF RemoveAt
<1> HIDE DEF l, r
<1>4. /\ l \o r \in Seq(S)
      /\ Len(l \o r) = Len(l) + Len(r)
      /\ \A k \in 1..(Len(l) + Len(r)) :
            (l \o r)[k] = IF k <= Len(l) THEN l[k] ELSE r[k - Len(l)]
  BY <1>1, <1>2, ConcatProperties
<1>5. Len(l) + Len(r) = Len(s) - 1
  BY <1>1, <1>2
<1>6. ASSUME NEW k \in 1..(Len(s) - 1)
      PROVE  (l \o r)[k] = IF k < i THEN s[k] ELSE s[k + 1]
  <2>1. CASE k < i
    <3>1. k \in 1..(i - 1) /\ k <= Len(l)
      BY <2>1, <1>1
    <3> QED BY <3>1, <2>1, <1>1, <1>4, <1>5
  <2>2. CASE ~(k < i)
    <3>1. k - (i - 1) \in 1..(Len(s) - i) /\ ~(k <= Len(l)) /\ i + (k - (i - 1)) = k + 1
      BY <2>2, <1>1
    <3>2. (l \o r)[k] = r[k - (i - 1)]
      BY <3>1, <1>1, <1>4, <1>5
    <3> QED BY <3>1, <3>2, <2>2, <1>2
  <2> QED BY <2>1, <2>2
<1> QED
  BY <1>3, <1>4, <1>5, <1>6

LEMMA CardinalityOfDevices ==
    ASSUME NEW S \in SUBSET Devices
    PROVE  IsFiniteSet(S) /\ Cardinality(S) \in Nat
BY ControllerAssumption, FS_Subset, FS_CardinalityType

LEMMA ListingProps ==
    ASSUME NEW S \in SUBSET Devices, NEW s \in Listings(S)
    PROVE  /\ s \in Seq(S)
           /\ Len(s) = Cardinality(S)
           /\ \A i, j \in 1..Len(s) : s[i] = s[j] => i = j
           /\ \A d \in S : \E i \in 1..Len(s) : s[i] = d
<1> DEFINE n == Cardinality(S)
<1>1. n \in Nat
  BY CardinalityOfDevices
<1>2. s \in [1..n -> S]
  BY DEF Listings, Bijection, Injection
<1>3. s \in Seq(S) /\ Len(s) = n
  BY <1>1, <1>2
<1>4. \A i, j \in 1..n : s[i] = s[j] => i = j
  BY <1>2 DEF Listings, Bijection, Injection, IsInjective
<1>5. \A d \in S : \E i \in 1..n : s[i] = d
  BY DEF Listings, Bijection, Surjection
<1> QED
  BY <1>3, <1>4, <1>5

LEMMA TallyType ==
    ASSUME NEW res, batch \in SUBSET Devices
    PROVE  Tally(res) \in [ok : Nat, failed : Int]
<1>1. Cardinality({d \in Devices : res[d] = "ok"}) \in Nat
  BY CardinalityOfDevices
<1>2. batchSize \in Nat
  BY CardinalityOfDevices DEF batchSize
<1> QED
  BY <1>1, <1>2 DEF Tally

LEMMA TypeInit == Init => TypeOK
BY DEF Init, TypeOK, Status

LEMMA TypeStartBatch ==
    ASSUME TypeOK, NEW devices \in SUBSET Devices, NEW cap \in Caps,
           StartBatch(devices, cap)
    PROVE  TypeOK'
<1> USE DEF Eligible, FirstSlots
<1> DEFINE eligible == Eligible(devices)
<1>1. PICK launch \in SUBSET eligible :
          /\ \E rest \in Listings(eligible \ launch) : queue' = queue \o rest
          /\ status' = [d \in Devices |->
                           IF d \in launch THEN "Waiting"
                           ELSE IF d \in eligible THEN "Queued"
                           ELSE status[d]]
          /\ LaunchWorkers(launch, {})
  BY DEF StartBatch
<1>p. PICK rest \in Listings(eligible \ launch) : queue' = queue \o rest
  BY <1>1
<1>2. rest \in Seq(Devices)
  <2>1. rest \in Seq(eligible \ launch)
    BY ListingProps
  <2> QED BY <2>1, SeqMonotonic
<1>3. queue' \in Seq(Devices)
  BY <1>p, <1>2, ConcatProperties DEF TypeOK
<1>4. /\ busy' \in [Devices -> BOOLEAN]
      /\ thread' \in [Devices -> {"stopped", "started", "active", "finished"}]
      /\ cancelled' \in [Devices -> BOOLEAN]
  BY <1>1 DEF LaunchWorkers, TypeOK
<1>5. status' \in [Devices -> Status]
  BY <1>1 DEF TypeOK, Status
<1>6. cap \in Nat
  BY ControllerAssumption
<1> QED
  BY <1>3, <1>4, <1>5, <1>6 DEF StartBatch, TypeOK

LEMMA TypeMaybeFinishBatch ==
    ASSUME TypeOK, NEW res, MaybeFinishBatch(res)
    PROVE  announced' \in Seq([ok : Nat, failed : Int])
<1>1. Tally(res) \in [ok : Nat, failed : Int]
  BY TallyType DEF TypeOK
<1>2. announced' = announced \/ announced' = Append(announced, Tally(res))
  BY DEF MaybeFinishBatch
<1>3. announced \in Seq([ok : Nat, failed : Int])
  BY DEF TypeOK
<1>4. Append(announced, Tally(res)) \in Seq([ok : Nat, failed : Int])
  BY <1>1, <1>3, AppendProperties
<1> QED
  BY <1>2, <1>3, <1>4

LEMMA TypeWorkerActive ==
    ASSUME TypeOK, NEW d \in Devices, WorkerActive(d)
    PROVE  TypeOK'
<1>1. [dev |-> d, kind |-> "status", value |-> "Active"] \in Signals
  BY DEF Signals
<1>2. inbox' \in Seq(Signals)
  BY <1>1, AppendProperties DEF WorkerActive, StatusSignal, TypeOK
<1> QED
  BY <1>2 DEF WorkerActive, TypeOK, batchVars

LEMMA TypeWorkerFinish ==
    ASSUME TypeOK, NEW d \in Devices, WorkerFinish(d)
    PROVE  TypeOK'
<1>1. PICK end \in Endings(cancelled[d]) :
          inbox' = inbox \o
              <<[dev |-> d, kind |-> "status", value |-> end.badge],
                [dev |-> d, kind |-> "finished", value |-> end.result]>>
  BY DEF WorkerFinish, FinalSignals, StatusSignal, FinishedSignal
<1>2. end.badge \in Results /\ end.result \in Results
  BY DEF Endings, Results
<1>3. <<[dev |-> d, kind |-> "status", value |-> end.badge],
        [dev |-> d, kind |-> "finished", value |-> end.result]>> \in Seq(Signals)
  BY <1>2 DEF Signals
<1>4. inbox' \in Seq(Signals)
  BY <1>1, <1>3, ConcatProperties DEF TypeOK
<1> QED
  BY <1>4 DEF WorkerFinish, TypeOK, batchVars

LEMMA HeadSignal ==
    ASSUME TypeOK, inbox # <<>>
    PROVE  /\ Head(inbox) \in Signals
           /\ Head(inbox).dev \in Devices
           /\ Head(inbox).kind = "finished" => Head(inbox).value \in Results
           /\ Head(inbox).value \in Status
           /\ Tail(inbox) \in Seq(Signals)
           /\ Head(inbox) = inbox[1]
           /\ Len(Tail(inbox)) = Len(inbox) - 1
           /\ \A i \in 1..Len(Tail(inbox)) : Tail(inbox)[i] = inbox[i + 1]
<1>1. /\ Head(inbox) \in Signals
      /\ Tail(inbox) \in Seq(Signals)
      /\ Len(Tail(inbox)) = Len(inbox) - 1
      /\ \A i \in 1..Len(Tail(inbox)) : Tail(inbox)[i] = inbox[i + 1]
  BY HeadTailProperties DEF TypeOK
<1>2. Head(inbox) = inbox[1]
  BY DEF TypeOK
<1> QED
  BY <1>1, <1>2 DEF Signals, Results, Status

LEMMA TypeDeliverStatus == ASSUME TypeOK, DeliverStatus PROVE TypeOK'
BY HeadSignal DEF DeliverStatus, TypeOK, batchVars

LEMMA TypeDeliverFinished == ASSUME TypeOK, DeliverFinished PROVE TypeOK'
<1> DEFINE d == Head(inbox).dev
           r == Head(inbox).value
           next == NextQueued
           res == [results EXCEPT ![d] = IF r = "Completed" THEN "ok" ELSE "failed"]
<1>1. d \in Devices /\ r \in Results /\ inbox' \in Seq(Signals)
  BY HeadSignal DEF DeliverFinished
<1>2. queue' \in Seq(Devices) /\ next \in SUBSET Devices
  BY HeadTailProperties DEF DeliverFinished, NextQueued, TypeOK
<1>3. history' \in [Devices -> Seq(Results)]
  <2>1. history' = [history EXCEPT ![d] = Append(@, r)]
    BY DEF DeliverFinished
  <2>2. Append(history[d], r) \in Seq(Results)
    BY <1>1, AppendProperties DEF TypeOK
  <2> QED BY <1>1, <2>1, <2>2 DEF TypeOK
<1>4. /\ busy' \in [Devices -> BOOLEAN]
      /\ thread' \in [Devices -> {"stopped", "started", "active", "finished"}]
      /\ cancelled' \in [Devices -> BOOLEAN]
  BY DEF DeliverFinished, LaunchWorkers, TypeOK
<1>5. announced' \in Seq([ok : Nat, failed : Int])
  <2>1. MaybeFinishBatch(res)
    BY DEF DeliverFinished
  <2> QED BY <2>1, TypeMaybeFinishBatch
<1>6. status' \in [Devices -> Status]
  BY DEF DeliverFinished, TypeOK, Status
<1>7. results' \in [Devices -> {"none", "ok", "failed"}]
  BY DEF DeliverFinished, TypeOK
<1> QED
  BY <1>1, <1>2, <1>3, <1>4, <1>5, <1>6, <1>7 DEF DeliverFinished, TypeOK, batchVars

LEMMA QueueEntries ==
    ASSUME TypeOK
    PROVE  /\ Queued = {queue[i] : i \in 1..Len(queue)}
           /\ Queued \subseteq Devices
           /\ Len(queue) \in Nat
<1>1. queue \in Seq(Devices)
  BY DEF TypeOK
<1>2. DOMAIN queue = 1..Len(queue) /\ Len(queue) \in Nat
  BY <1>1, LenProperties
<1>3. \A i \in 1..Len(queue) : queue[i] \in Devices
  BY <1>1, ElementOfSeq
<1> QED
  BY <1>2, <1>3 DEF Queued, ToSet

LEMMA TypeCancelQueued ==
    ASSUME TypeOK, NEW d \in Devices, CancelQueued(d)
    PROVE  TypeOK'
<1> DEFINE res == [results EXCEPT ![d] = "failed"]
<1>1. queue' \in Seq(Devices)
  BY RemoveAtProps DEF CancelQueued, TypeOK
<1>2. announced' \in Seq([ok : Nat, failed : Int])
  <2>1. MaybeFinishBatch(res)
    BY DEF CancelQueued
  <2> QED BY <2>1, TypeMaybeFinishBatch
<1>3. history' \in [Devices -> Seq(Results)]
  <2>1. Append(history[d], "Cancelled") \in Seq(Results)
    BY AppendProperties DEF TypeOK, Results
  <2> QED BY <2>1 DEF CancelQueued, TypeOK
<1>4. status' \in [Devices -> Status]
  BY DEF CancelQueued, TypeOK, Status, Results
<1> QED
  BY <1>1, <1>2, <1>3, <1>4 DEF CancelQueued, TypeOK, batchVars

LEMMA TypeCancelAll == ASSUME TypeOK, CancelAll PROVE TypeOK'
<1>1. announced' \in Seq([ok : Nat, failed : Int])
  <2> DEFINE reached == {i \in 1..Len(queue) : Resolved(results) + i >= batchSize}
             more == [i \in 1..Cardinality(reached) |-> Tally(results)]
  <2>1. Cardinality(reached) \in Nat
    <3>1. IsFiniteSet(1..Len(queue))
      BY FS_Interval DEF TypeOK
    <3> QED BY <3>1, FS_Subset, FS_CardinalityType
  <2>2. Tally(results) \in [ok : Nat, failed : Int]
    BY TallyType DEF TypeOK
  <2>3. more \in [1..Cardinality(reached) -> [ok : Nat, failed : Int]]
    BY <2>2
  <2>4. more \in Seq([ok : Nat, failed : Int])
    <3> HIDE DEF reached, more
    <3> QED BY <2>1, <2>3, SeqDef
  <2>5. announced' = announced \o more
    BY DEF CancelAll
  <2> QED BY <2>4, <2>5, ConcatProperties DEF TypeOK
<1>2. history' \in [Devices -> Seq(Results)]
  <2>1. \A d \in Devices : Append(history[d], "Cancelled") \in Seq(Results)
    BY AppendProperties DEF TypeOK, Results
  <2> QED BY <2>1 DEF CancelAll, TypeOK
<1>3. status' \in [Devices -> Status]
  BY DEF CancelAll, TypeOK, Status, Results
<1> QED
  BY <1>1, <1>2, <1>3 DEF CancelAll, TypeOK, batchVars

\* Type correctness of the scheduler.
THEOREM TypeCorrect == Spec => []TypeOK
<1>1. ASSUME TypeOK, [Next]_vars PROVE TypeOK'
  <2>1. ASSUME NEW devices \in SUBSET Devices, NEW cap \in Caps, StartBatch(devices, cap)
        PROVE  TypeOK'
    BY <1>1, <2>1, TypeStartBatch
  <2>2. ASSUME NEW d \in Devices, WorkerActive(d) PROVE TypeOK'
    BY <1>1, <2>2, TypeWorkerActive
  <2>3. ASSUME NEW d \in Devices, WorkerFinish(d) PROVE TypeOK'
    BY <1>1, <2>3, TypeWorkerFinish
  <2>4. CASE DeliverStatus
    BY <1>1, <2>4, TypeDeliverStatus
  <2>5. CASE DeliverFinished
    BY <1>1, <2>5, TypeDeliverFinished
  <2>6. ASSUME NEW d \in Devices, CancelQueued(d) PROVE TypeOK'
    BY <1>1, <2>6, TypeCancelQueued
  <2>7. ASSUME NEW d \in Devices, CancelRunning(d) PROVE TypeOK'
    BY <1>1, <2>7 DEF CancelRunning, TypeOK, batchVars
  <2>8. CASE CancelAll
    BY <1>1, <2>8, TypeCancelAll
  <2>9. CASE UNCHANGED vars
    BY <1>1, <2>9 DEF vars, TypeOK
  <2> QED
    BY <1>1, <2>1, <2>2, <2>3, <2>4, <2>5, <2>6, <2>7, <2>8, <2>9 DEF Next
<1> QED
  BY <1>1, TypeInit, PTL DEF Spec

-----------------------------------------------------------------------------
(* The scheduler invariant. *)

LEMMA InboxEntries ==
    ASSUME TypeOK, NEW i \in 1..Len(inbox)
    PROVE  /\ inbox[i] \in Signals
           /\ inbox[i].dev \in Devices
           /\ inbox[i].kind \in {"status", "finished"}
<1>1. inbox[i] \in Signals
  BY ElementOfSeq DEF TypeOK
<1> QED
  BY <1>1 DEF Signals

LEMMA SchedulerInit == Init => SchedulerInv
BY DEF Init, SchedulerInv, SignalDiscipline,
       QueueDiscipline, NoStrandedQueue, NoLateSignals,
       FinishedIsPosted, BusyIsThread

LEMMA SchedulerStartBatch ==
    ASSUME TypeOK, SchedulerInv, NEW devices \in SUBSET Devices, NEW cap \in Caps,
           StartBatch(devices, cap)
    PROVE  SchedulerInv'
<1> USE DEF SchedulerInv, SignalDiscipline
<1> USE DEF Eligible, FirstSlots
<1> DEFINE eligible == Eligible(devices)
<1>1. PICK launch \in SUBSET eligible :
          /\ \/ Cardinality(eligible) <= cap /\ launch = eligible
             \/ Cardinality(eligible) > cap /\ Cardinality(launch) = cap
          /\ \E rest \in Listings(eligible \ launch) : queue' = queue \o rest
          /\ LaunchWorkers(launch, {})
  BY DEF StartBatch
<1>2. PICK rest \in Listings(eligible \ launch) : queue' = queue \o rest
  BY <1>1
<1>3. \A d \in eligible : d \in Devices /\ ~busy[d] /\ thread[d] = "stopped" /\ d \notin Queued
  BY DEF IsBusy, BusyIsThread
<1>4. \A d \in Devices : /\ busy'[d] <=> d \in launch \/ busy[d]
                         /\ thread'[d] = IF d \in launch THEN "started" ELSE thread[d]
  BY <1>1 DEF LaunchWorkers
<1>5. QueueDiscipline'
  <2>1. /\ rest \in Seq(eligible \ launch)
        /\ \A i, j \in 1..Len(rest) : rest[i] = rest[j] => i = j
    BY ListingProps
  <2>2. rest \in Seq(Devices) /\ queue \in Seq(Devices)
    BY <2>1, SeqMonotonic DEF TypeOK
  <2>3. \A i \in 1..Len(rest) : rest[i] \in eligible \ launch
    BY <2>1, ElementOfSeq
  <2>4. \A i \in 1..Len(queue) : queue[i] \in Queued /\ queue[i] \in Devices
    BY QueueEntries
  <2>5. /\ Len(queue') = Len(queue) + Len(rest)
        /\ \A i \in 1..Len(queue') :
              queue'[i] = IF i <= Len(queue) THEN queue[i] ELSE rest[i - Len(queue)]
    BY <1>2, <2>2, ConcatProperties
  <2>6. Len(queue) \in Nat /\ Len(rest) \in Nat
    BY <2>2, LenProperties
  <2>7. \A i \in 1..Len(queue') :
           \/ i \in 1..Len(queue) /\ queue'[i] = queue[i]
           \/ i - Len(queue) \in 1..Len(rest) /\ queue'[i] = rest[i - Len(queue)]
    BY <2>5, <2>6
  <2>8. ASSUME NEW i \in 1..Len(queue'), NEW j \in 1..Len(queue'), queue'[i] = queue'[j]
        PROVE  i = j
    <3>1. CASE i \in 1..Len(queue) /\ queue'[i] = queue[i]
               /\ j \in 1..Len(queue) /\ queue'[j] = queue[j]
      BY <2>8, <3>1 DEF QueueDiscipline
    <3>2. CASE i - Len(queue) \in 1..Len(rest) /\ queue'[i] = rest[i - Len(queue)]
               /\ j - Len(queue) \in 1..Len(rest) /\ queue'[j] = rest[j - Len(queue)]
      <4>1. i - Len(queue) = j - Len(queue)
        BY <2>8, <3>2, <2>1
      <4>2. i \in Int /\ j \in Int
        OBVIOUS
      <4> QED BY <4>1, <4>2, <2>6
    <3> QED BY <2>8, <3>1, <3>2, <2>7, <2>3, <2>4, <1>3
  <2>9. ASSUME NEW i \in 1..Len(queue') PROVE ~busy'[queue'[i]]
    <3>1. CASE i \in 1..Len(queue) /\ queue'[i] = queue[i]
      BY <3>1, <2>4, <1>3, <1>4 DEF QueueDiscipline
    <3>2. CASE i - Len(queue) \in 1..Len(rest) /\ queue'[i] = rest[i - Len(queue)]
      BY <3>2, <2>3, <1>3, <1>4
    <3> QED BY <3>1, <3>2, <2>7
  <2> QED BY <2>8, <2>9 DEF QueueDiscipline
<1>6. NoStrandedQueue'
  <2>1. launch # {}
    <3>1. eligible # {}
      BY DEF StartBatch
    <3>2. cap > 0
      BY ControllerAssumption
    <3>3. cap # 0 /\ Cardinality({}) = 0
      BY <3>2, FS_EmptySet
    <3>4. launch = eligible \/ Cardinality(launch) = cap
      BY <1>1
    <3> HIDE DEF eligible, Eligible
    <3> QED BY <3>1, <3>3, <3>4
  <2> QED BY <2>1, <1>4, <1>3 DEF NoStrandedQueue, Running
<1>7. inbox' = inbox
  BY DEF StartBatch
<1>8. NoLateSignals'
  BY <1>7, <1>4, InboxEntries DEF NoLateSignals
<1>9. FinishedIsPosted'
  BY <1>7, <1>4, <1>3 DEF FinishedIsPosted
<1>10. BusyIsThread'
  BY <1>4 DEF BusyIsThread
<1> QED
  BY <1>5, <1>6, <1>8, <1>9, <1>10

LEMMA SchedulerWorkerActive ==
    ASSUME TypeOK, SchedulerInv, NEW d \in Devices, WorkerActive(d)
    PROVE  SchedulerInv'
<1> USE DEF SchedulerInv, SignalDiscipline
<1> DEFINE sig == [dev |-> d, kind |-> "status", value |-> "Active"]
<1>1. /\ Len(inbox') = Len(inbox) + 1
      /\ \A i \in 1..Len(inbox) : inbox'[i] = inbox[i]
      /\ inbox'[Len(inbox) + 1] = sig
      /\ Len(inbox) \in Nat
  BY AppendProperties DEF WorkerActive, StatusSignal, TypeOK, Signals
<1>2. \A i \in 1..Len(inbox') : i \in 1..Len(inbox) \/ i = Len(inbox) + 1
  BY <1>1
<1>3. /\ queue' = queue /\ busy' = busy
      /\ thread[d] = "started"
      /\ thread' = [thread EXCEPT ![d] = "active"]
  BY DEF WorkerActive
<1>4. QueueDiscipline' /\ NoStrandedQueue'
  BY <1>3 DEF QueueDiscipline, NoStrandedQueue, Running
<1>5. BusyIsThread' /\ busy[d]
  BY <1>3 DEF BusyIsThread, TypeOK
<1>6. \A i \in 1..Len(inbox) : inbox[i].kind = "finished" => inbox[i].dev # d
  BY <1>3 DEF FinishedIsPosted
<1>7. NoLateSignals'
  <2>1. \A i \in 1..Len(inbox') : busy'[inbox'[i].dev]
    BY <1>1, <1>2, <1>3, <1>5 DEF NoLateSignals
  <2>2. ASSUME NEW i \in 1..Len(inbox'), NEW j \in 1..Len(inbox'),
               inbox'[i].dev = inbox'[j].dev, inbox'[i].kind = "finished"
        PROVE  j <= i
    <3>1. i \in 1..Len(inbox) /\ inbox[i].kind = "finished" /\ inbox[i].dev # d
      BY <2>2, <1>1, <1>2, <1>6
    <3>2. j \in 1..Len(inbox)
      BY <2>2, <3>1, <1>1, <1>2
    <3> QED BY <2>2, <3>1, <3>2, <1>1 DEF NoLateSignals
  <2> QED BY <2>1, <2>2 DEF NoLateSignals
<1>8. FinishedIsPosted'
  <2>1. ASSUME NEW x \in Devices
        PROVE  (thread'[x] = "finished") <=> thread[x] = "finished"
    BY <1>3 DEF TypeOK
  <2>2. ASSUME NEW x \in Devices
        PROVE  (\E i \in 1..Len(inbox') : inbox'[i].dev = x /\ inbox'[i].kind = "finished")
               <=> \E i \in 1..Len(inbox) : inbox[i].dev = x /\ inbox[i].kind = "finished"
    <3>1. inbox'[Len(inbox) + 1].kind # "finished"
      BY <1>1
    <3>2. \A i \in 1..Len(inbox) : i \in 1..Len(inbox')
      BY <1>1
    <3> QED BY <3>1, <3>2, <1>1, <1>2
  <2> QED BY <2>1, <2>2 DEF FinishedIsPosted
<1> QED
  BY <1>4, <1>5, <1>7, <1>8

LEMMA SchedulerWorkerFinish ==
    ASSUME TypeOK, SchedulerInv, NEW d \in Devices, WorkerFinish(d)
    PROVE  SchedulerInv'
<1> USE DEF SchedulerInv, SignalDiscipline
<1>1. PICK end \in Endings(cancelled[d]) :
          inbox' = inbox \o
              <<[dev |-> d, kind |-> "status", value |-> end.badge],
                [dev |-> d, kind |-> "finished", value |-> end.result]>>
  BY DEF WorkerFinish, FinalSignals, StatusSignal, FinishedSignal
<1> DEFINE last == <<[dev |-> d, kind |-> "status", value |-> end.badge],
                     [dev |-> d, kind |-> "finished", value |-> end.result]>>
           n == Len(inbox)
<1>2. n \in Nat
  BY LenProperties DEF TypeOK
<1>3. /\ Len(inbox') = n + 2
      /\ \A i \in 1..n : inbox'[i] = inbox[i]
      /\ inbox'[n + 1].dev = d /\ inbox'[n + 1].kind = "status"
      /\ inbox'[n + 2].dev = d /\ inbox'[n + 2].kind = "finished"
  <2>1. end.badge \in Results /\ end.result \in Results
    BY DEF Endings, Results
  <2>2. last \in Seq(Signals) /\ Len(last) = 2
    BY <2>1 DEF Signals
  <2>3. /\ Len(inbox \o last) = n + Len(last)
        /\ \A i \in 1..(n + Len(last)) :
              (inbox \o last)[i] = IF i <= n THEN inbox[i] ELSE last[i - n]
    BY <2>2, ConcatProperties DEF TypeOK
  <2>4. inbox' = inbox \o last
    BY <1>1
  <2>5. /\ last[1].dev = d /\ last[1].kind = "status"
        /\ last[2].dev = d /\ last[2].kind = "finished"
    OBVIOUS
  <2> HIDE DEF last
  <2>6. inbox'[n + 1] = last[1] /\ inbox'[n + 2] = last[2]
    <3>1. n + 1 \in 1..(n + 2) /\ n + 2 \in 1..(n + 2) /\ ~(n + 1 <= n) /\ ~(n + 2 <= n)
          /\ (n + 1) - n = 1 /\ (n + 2) - n = 2
      BY <1>2
    <3> QED BY <3>1, <2>2, <2>3, <2>4
  <2> QED BY <1>2, <2>2, <2>3, <2>4, <2>5, <2>6
<1>4. \A i \in 1..Len(inbox') : i \in 1..n \/ i = n + 1 \/ i = n + 2
  BY <1>2, <1>3
<1>5. /\ queue' = queue /\ busy' = busy
      /\ thread[d] = "active"
      /\ thread' = [thread EXCEPT ![d] = "finished"]
  BY DEF WorkerFinish
<1>6. QueueDiscipline' /\ NoStrandedQueue'
  BY <1>5 DEF QueueDiscipline, NoStrandedQueue, Running
<1>7. BusyIsThread' /\ busy[d]
  BY <1>5 DEF BusyIsThread, TypeOK
<1>8. \A i \in 1..n : inbox[i].kind = "finished" => inbox[i].dev # d
  BY <1>5 DEF FinishedIsPosted
<1> HIDE DEF last, n
<1>9. NoLateSignals'
  <2>1. \A i \in 1..n : busy[inbox[i].dev]
    BY DEF NoLateSignals, n
  <2>2. \A i \in 1..Len(inbox') : busy'[inbox'[i].dev]
    BY <2>1, <1>3, <1>4, <1>5, <1>7
  <2>3. ASSUME NEW i \in 1..Len(inbox'), NEW j \in 1..Len(inbox'),
               inbox'[i].dev = inbox'[j].dev, inbox'[i].kind = "finished"
        PROVE  j <= i
    <3>1. CASE i = n + 2
      BY <3>1, <1>2, <1>3, <2>3
    <3>2. CASE i \in 1..n
      <4>1. inbox[i].dev # d /\ inbox[i].kind = "finished"
        BY <3>2, <2>3, <1>3, <1>8
      <4>2. j \in 1..n
        BY <4>1, <3>2, <2>3, <1>3, <1>4
      <4> QED BY <4>1, <4>2, <3>2, <2>3, <1>3 DEF NoLateSignals, n
    <3> QED BY <3>1, <3>2, <2>3, <1>3, <1>4
  <2> QED BY <2>2, <2>3 DEF NoLateSignals
<1>10. FinishedIsPosted'
  <2>1. ASSUME NEW x \in Devices, x # d
        PROVE  (thread'[x] = "finished") <=>
                 \E i \in 1..Len(inbox') : inbox'[i].dev = x /\ inbox'[i].kind = "finished"
    <3>1. thread'[x] = thread[x]
      BY <2>1, <1>5 DEF TypeOK
    <3>2. \A i \in 1..n : i \in 1..Len(inbox')
      BY <1>2, <1>3
    <3>3. (thread[x] = "finished") <=>
             \E i \in 1..n : inbox[i].dev = x /\ inbox[i].kind = "finished"
      BY DEF FinishedIsPosted, n
    <3> QED BY <3>1, <3>2, <3>3, <2>1, <1>3, <1>4
  <2>2. thread'[d] = "finished" /\ n + 2 \in 1..Len(inbox')
    BY <1>5, <1>2, <1>3 DEF TypeOK
  <2> QED BY <2>1, <2>2, <1>3 DEF FinishedIsPosted
<1> QED
  BY <1>6, <1>7, <1>9, <1>10

LEMMA SchedulerDeliverStatus ==
    ASSUME TypeOK, SchedulerInv, DeliverStatus
    PROVE  SchedulerInv'
<1> USE DEF SchedulerInv, SignalDiscipline
<1> DEFINE n == Len(inbox)
<1>1. /\ queue' = queue /\ busy' = busy /\ thread' = thread
      /\ inbox' = Tail(inbox)
      /\ inbox # <<>>
      /\ inbox[1].kind = "status"
  BY HeadSignal DEF DeliverStatus
<1>2. /\ Len(inbox') = n - 1
      /\ \A i \in 1..(n - 1) : inbox'[i] = inbox[i + 1]
  BY <1>1, HeadSignal
<1>3. n \in Nat
  BY LenProperties DEF TypeOK
<1>4. \A i \in 1..(n - 1) : i + 1 \in 1..n
  BY <1>3
<1> HIDE DEF n
<1>5. QueueDiscipline' /\ NoStrandedQueue' /\ BusyIsThread'
  BY <1>1 DEF QueueDiscipline, NoStrandedQueue, Running, BusyIsThread
<1>6. NoLateSignals'
  <2>1. \A i \in 1..(n - 1) : busy'[inbox'[i].dev]
    BY <1>1, <1>2, <1>4 DEF NoLateSignals, n
  <2>2. ASSUME NEW i \in 1..(n - 1), NEW j \in 1..(n - 1),
               inbox'[i].dev = inbox'[j].dev, inbox'[i].kind = "finished"
        PROVE  j <= i
    <3>1. j + 1 <= i + 1
      BY <2>2, <1>2, <1>4 DEF NoLateSignals, n
    <3> QED BY <3>1, <1>3
  <2> QED BY <2>1, <2>2, <1>2 DEF NoLateSignals
<1>7. FinishedIsPosted'
  <2>1. ASSUME NEW x \in Devices, NEW i \in 1..n, inbox[i].dev = x, inbox[i].kind = "finished"
        PROVE  \E k \in 1..(n - 1) : inbox'[k].dev = x /\ inbox'[k].kind = "finished"
    <3>1. i # 1
      BY <2>1, <1>1
    <3>2. i - 1 \in 1..(n - 1) /\ (i - 1) + 1 = i
      BY <3>1, <1>3
    <3> QED BY <3>2, <2>1, <1>2
  <2>2. ASSUME NEW x \in Devices, NEW k \in 1..(n - 1), inbox'[k].dev = x,
               inbox'[k].kind = "finished"
        PROVE  \E i \in 1..n : inbox[i].dev = x /\ inbox[i].kind = "finished"
    BY <2>2, <1>2, <1>4
  <2>3. \A x \in Devices :
           (thread[x] = "finished") <=>
               \E i \in 1..n : inbox[i].dev = x /\ inbox[i].kind = "finished"
    BY DEF FinishedIsPosted, n
  <2>4. ASSUME NEW x \in Devices
        PROVE  (thread'[x] = "finished") <=>
                  \E k \in 1..(n - 1) : inbox'[k].dev = x /\ inbox'[k].kind = "finished"
    <3>1. CASE thread[x] = "finished"
      <4>1. PICK i \in 1..n : inbox[i].dev = x /\ inbox[i].kind = "finished"
        BY <3>1, <2>3
      <4> QED BY <3>1, <4>1, <2>1, <1>1
    <3>2. CASE thread[x] # "finished"
      <4>1. ~ \E i \in 1..n : inbox[i].dev = x /\ inbox[i].kind = "finished"
        BY <3>2, <2>3
      <4> QED BY <3>2, <4>1, <2>2, <1>1
    <3> QED BY <3>1, <3>2
  <2> QED BY <2>4, <1>2 DEF FinishedIsPosted
<1> QED
  BY <1>5, <1>6, <1>7

LEMMA SchedulerDeliverFinished ==
    ASSUME TypeOK, SchedulerInv, DeliverFinished
    PROVE  SchedulerInv'
<1> USE DEF SchedulerInv, SignalDiscipline
<1> DEFINE n == Len(inbox)
           m == Len(queue)
           d == Head(inbox).dev
           next == NextQueued
<1>1. /\ inbox' = Tail(inbox)
      /\ inbox # <<>>
      /\ d = inbox[1].dev
      /\ inbox[1].kind = "finished"
      /\ d \in Devices
  BY HeadSignal DEF DeliverFinished
<1>2. /\ Len(inbox') = n - 1
      /\ \A i \in 1..(n - 1) : inbox'[i] = inbox[i + 1]
  BY <1>1, HeadSignal
<1>3. n \in Nat /\ m \in Nat
  BY LenProperties DEF TypeOK
<1>4. 1 \in 1..n /\ \A i \in 1..(n - 1) : i + 1 \in 1..n
  BY <1>1, <1>3 DEF TypeOK
<1>5. \A i \in 1..n : inbox[i].dev = d => i = 1
  BY <1>1, <1>3, <1>4 DEF NoLateSignals
<1>6. busy[d]
  BY <1>1, <1>4 DEF NoLateSignals
<1>7. /\ queue = <<>> => m = 0 /\ queue' = queue
      /\ queue # <<>> => /\ m >= 1
                         /\ Head(queue) = queue[1]
                         /\ queue[1] \in Devices
                         /\ Len(queue') = m - 1
                         /\ \A i \in 1..(m - 1) : queue'[i] = queue[i + 1]
  <2>1. queue' = IF queue = <<>> THEN queue ELSE Tail(queue)
    BY DEF DeliverFinished, NextQueued
  <2> QED BY <2>1, HeadTailProperties DEF TypeOK
<1>8. ASSUME queue # <<>>
      PROVE  ~busy[queue[1]] /\ queue[1] # d /\ thread[queue[1]] = "stopped"
  BY <1>8, <1>6, <1>7, <1>3 DEF QueueDiscipline, BusyIsThread
<1>9. \A x \in Devices :
         /\ busy'[x] <=> x \in next \/ (busy[x] /\ x # d)
         /\ thread'[x] = IF x \in next THEN "started"
                         ELSE IF x = d THEN "stopped" ELSE thread[x]
  BY DEF DeliverFinished, LaunchWorkers
<1>10. \A x \in next : queue # <<>> /\ x = queue[1]
  BY <1>7 DEF NextQueued
<1>11. queue # <<>> => queue[1] \in next
  BY <1>7 DEF NextQueued
<1> HIDE DEF n, m, d, next
<1>12. QueueDiscipline'
  <2>1. CASE queue = <<>>
    BY <2>1, <1>7, <1>3 DEF QueueDiscipline, m
  <2>2. CASE queue # <<>>
    <3>1. \A i \in 1..(m - 1) : i + 1 \in 1..m /\ i + 1 # 1
      BY <1>3
    <3>2. ASSUME NEW i \in 1..(m - 1), NEW j \in 1..(m - 1), queue'[i] = queue'[j]
          PROVE  i = j
      <4>1. i + 1 = j + 1
        BY <3>1, <3>2, <2>2, <1>7 DEF QueueDiscipline, m
      <4> QED BY <4>1, <1>3
    <3>3. ASSUME NEW i \in 1..(m - 1)
          PROVE  ~busy'[queue'[i]]
      <4>1. queue'[i] = queue[i + 1]
        BY <2>2, <1>7
      <4>2. queue[i + 1] \in Devices
        BY <3>1, ElementOfSeq DEF TypeOK, m
      <4>3. ~busy[queue[i + 1]]
        BY <3>1 DEF QueueDiscipline, m
      <4>4. queue[i + 1] # queue[1]
        <5>1. 1 \in 1..m
          BY <2>2, <1>3, <1>7
        <5> QED BY <5>1, <3>1 DEF QueueDiscipline, m
      <4> QED BY <4>1, <4>2, <4>3, <4>4, <1>9, <1>10
    <3> QED BY <3>2, <3>3, <2>2, <1>7 DEF QueueDiscipline
  <2> QED BY <2>1, <2>2
<1>13. NoStrandedQueue'
  <2>1. CASE queue = <<>>
    BY <2>1, <1>7 DEF NoStrandedQueue
  <2>2. CASE queue # <<>>
    <3>1. busy'[queue[1]] /\ queue[1] \in Devices
      BY <2>2, <1>7, <1>9, <1>11
    <3> QED BY <3>1 DEF NoStrandedQueue, Running
  <2> QED BY <2>1, <2>2
<1>14. BusyIsThread'
  BY <1>9 DEF BusyIsThread
<1>15. NoLateSignals'
  <2>1. ASSUME NEW i \in 1..(n - 1)
        PROVE  busy'[inbox'[i].dev]
    <3>1. inbox'[i] = inbox[i + 1] /\ i + 1 \in 1..n /\ i + 1 # 1
      BY <1>2, <1>4, <1>3
    <3>2. inbox[i + 1].dev \in Devices
      BY <3>1, InboxEntries DEF n
    <3>3. inbox[i + 1].dev # d
      BY <3>1, <1>5
    <3>4. busy[inbox[i + 1].dev]
      BY <3>1 DEF NoLateSignals, n
    <3> QED BY <3>1, <3>2, <3>3, <3>4, <1>9
  <2>2. ASSUME NEW i \in 1..(n - 1), NEW j \in 1..(n - 1),
               inbox'[i].dev = inbox'[j].dev, inbox'[i].kind = "finished"
        PROVE  j <= i
    <3>1. j + 1 <= i + 1
      BY <2>2, <1>2, <1>4 DEF NoLateSignals, n
    <3> QED BY <3>1, <1>3
  <2> QED BY <2>1, <2>2, <1>2 DEF NoLateSignals
<1>16. FinishedIsPosted'
  <2>1. ASSUME NEW x \in Devices
        PROVE  (\E k \in 1..(n - 1) : inbox'[k].dev = x /\ inbox'[k].kind = "finished")
               <=> x # d /\ \E i \in 1..n : inbox[i].dev = x /\ inbox[i].kind = "finished"
    <3>1. ASSUME NEW k \in 1..(n - 1), inbox'[k].dev = x, inbox'[k].kind = "finished"
          PROVE  x # d /\ \E i \in 1..n : inbox[i].dev = x /\ inbox[i].kind = "finished"
      <4>1. inbox'[k] = inbox[k + 1] /\ k + 1 \in 1..n /\ k + 1 # 1
        BY <1>2, <1>4, <1>3
      <4> QED BY <4>1, <3>1, <1>5
    <3>2. ASSUME x # d, NEW i \in 1..n, inbox[i].dev = x, inbox[i].kind = "finished"
          PROVE  \E k \in 1..(n - 1) : inbox'[k].dev = x /\ inbox'[k].kind = "finished"
      <4>1. i # 1
        BY <3>2, <1>1
      <4>2. i - 1 \in 1..(n - 1) /\ (i - 1) + 1 = i
        BY <4>1, <1>3
      <4> QED BY <4>2, <3>2, <1>2
    <3> QED BY <3>1, <3>2
  <2>2. \A x \in Devices :
           (thread[x] = "finished") <=>
               \E i \in 1..n : inbox[i].dev = x /\ inbox[i].kind = "finished"
    BY DEF FinishedIsPosted, n
  <2>3. \A x \in Devices : (thread'[x] = "finished") <=> (x # d /\ thread[x] = "finished")
    BY <1>8, <1>9, <1>10
  <2> QED BY <2>1, <2>2, <2>3, <1>2 DEF FinishedIsPosted
<1> QED
  BY <1>12, <1>13, <1>14, <1>15, <1>16

LEMMA SchedulerCancelQueued ==
    ASSUME TypeOK, SchedulerInv, NEW d \in Devices, CancelQueued(d)
    PROVE  SchedulerInv'
<1> USE DEF SchedulerInv, SignalDiscipline
<1> DEFINE m == Len(queue)
<1>1. PICK p \in 1..m : queue' = RemoveAt(queue, p)
  BY DEF CancelQueued
<1>2. /\ Len(queue') = m - 1
      /\ \A k \in 1..(m - 1) : queue'[k] = IF k < p THEN queue[k] ELSE queue[k + 1]
  BY <1>1, RemoveAtProps DEF TypeOK
<1>3. m \in Nat
  BY LenProperties DEF TypeOK
<1>4. busy' = busy /\ thread' = thread /\ inbox' = inbox
  BY DEF CancelQueued
<1> HIDE DEF m
<1>5. \A k \in 1..(m - 1) : k \in 1..m /\ k + 1 \in 1..m
  BY <1>3
<1>6. QueueDiscipline'
  <2>1. ASSUME NEW i \in 1..(m - 1), NEW j \in 1..(m - 1), queue'[i] = queue'[j]
        PROVE  i = j
    <3> DEFINE at(k) == IF k < p THEN k ELSE k + 1
    <3>1. at(i) \in 1..m /\ at(j) \in 1..m
      BY <1>5
    <3>2. queue'[i] = queue[at(i)] /\ queue'[j] = queue[at(j)]
      BY <1>2
    <3> HIDE DEF at
    <3>3. at(i) = at(j)
      BY <3>1, <3>2, <2>1 DEF QueueDiscipline, m
    <3> QED BY <3>3, <1>3 DEF at
  <2>2. \A i \in 1..(m - 1) : ~busy'[queue'[i]]
    BY <1>2, <1>4, <1>5 DEF QueueDiscipline, m
  <2> QED BY <2>1, <2>2, <1>2 DEF QueueDiscipline
<1>7. NoStrandedQueue'
  <2>1. queue # <<>>
    BY <1>1, <1>3 DEF m
  <2> QED BY <2>1, <1>4 DEF NoStrandedQueue, Running
<1>8. NoLateSignals' /\ FinishedIsPosted' /\ BusyIsThread'
  BY <1>4 DEF NoLateSignals, FinishedIsPosted, BusyIsThread
<1> QED
  BY <1>6, <1>7, <1>8

LEMMA SchedulerUnchanged ==
    ASSUME SchedulerInv, UNCHANGED <<busy, thread, inbox>>, queue' = queue \/ queue' = <<>>
    PROVE  SchedulerInv'
BY DEF SchedulerInv, SignalDiscipline, QueueDiscipline, NoStrandedQueue, NoLateSignals,
       FinishedIsPosted,
       BusyIsThread, Running

\* The scheduler invariant: the queue holds each device at most once and only
\* devices without a worker, a waiting queue always has a running worker that
\* will drain it, and the signals under way are those of busy devices, each
\* device's finished_flash last.
THEOREM SchedulerSafe == Spec => []SchedulerInv
<1>1. ASSUME TypeOK, SchedulerInv, [Next]_vars PROVE SchedulerInv'
  <2>1. ASSUME NEW devices \in SUBSET Devices, NEW cap \in Caps, StartBatch(devices, cap)
        PROVE  SchedulerInv'
    BY <1>1, <2>1, SchedulerStartBatch
  <2>2. ASSUME NEW d \in Devices, WorkerActive(d) PROVE SchedulerInv'
    BY <1>1, <2>2, SchedulerWorkerActive
  <2>3. ASSUME NEW d \in Devices, WorkerFinish(d) PROVE SchedulerInv'
    BY <1>1, <2>3, SchedulerWorkerFinish
  <2>4. CASE DeliverStatus
    BY <1>1, <2>4, SchedulerDeliverStatus
  <2>5. CASE DeliverFinished
    BY <1>1, <2>5, SchedulerDeliverFinished
  <2>6. ASSUME NEW d \in Devices, CancelQueued(d) PROVE SchedulerInv'
    BY <1>1, <2>6, SchedulerCancelQueued
  <2>7. ASSUME NEW d \in Devices, CancelRunning(d) PROVE SchedulerInv'
    BY <1>1, <2>7, SchedulerUnchanged DEF CancelRunning
  <2>8. CASE CancelAll
    BY <1>1, <2>8, SchedulerUnchanged DEF CancelAll
  <2>9. CASE UNCHANGED vars
    BY <1>1, <2>9, SchedulerUnchanged DEF vars
  <2> QED
    BY <1>1, <2>1, <2>2, <2>3, <2>4, <2>5, <2>6, <2>7, <2>8, <2>9 DEF Next
<1> QED
  BY <1>1, SchedulerInit, TypeCorrect, PTL DEF Spec

-----------------------------------------------------------------------------
(* What each action does to the sets the abstract job pool sees. *)

LEMMA StartBatchSets ==
    ASSUME TypeOK, NEW devices \in SUBSET Devices, NEW cap \in Caps,
           StartBatch(devices, cap)
    PROVE  \E launch \in SUBSET Eligible(devices) :
              /\ launch # {}
              /\ Running' = Running \cup launch
              /\ Queued' = Queued \cup (Eligible(devices) \ launch)
<1> DEFINE eligible == Eligible(devices)
<1>1. eligible \in SUBSET Devices /\ eligible # {}
  BY DEF StartBatch, Eligible
<1>2. PICK launch \in FirstSlots(eligible, cap) :
          /\ \E rest \in Listings(eligible \ launch) : queue' = queue \o rest
          /\ LaunchWorkers(launch, {})
  BY DEF StartBatch
<1>3. /\ launch \in SUBSET eligible
      /\ launch = eligible \/ Cardinality(launch) = cap
  BY <1>2 DEF FirstSlots
<1>4. cap # 0 /\ Cardinality({}) = 0
  BY ControllerAssumption, FS_EmptySet
<1> HIDE DEF eligible
<1>5. launch # {}
  BY <1>1, <1>3, <1>4
<1>6. Running' = Running \cup launch
  BY <1>1, <1>2, <1>3 DEF LaunchWorkers, Running, TypeOK
<1>7. Queued' = Queued \cup (eligible \ launch)
  <2> DEFINE S == eligible \ launch
  <2>1. S \in SUBSET Devices
    BY <1>1
  <2>2. PICK rest \in Listings(S) : queue' = queue \o rest
    BY <1>2
  <2> HIDE DEF S
  <2>3. /\ rest \in Seq(S)
        /\ \A d \in S : \E i \in 1..Len(rest) : rest[i] = d
    BY <2>1, ListingProps
  <2>4. rest \in Seq(Devices) /\ queue \in Seq(Devices)
    BY <2>1, <2>3, SeqMonotonic DEF TypeOK
  <2>5. /\ Len(queue') = Len(queue) + Len(rest)
        /\ queue' \in Seq(Devices)
        /\ \A i \in 1..Len(queue') :
              queue'[i] = IF i <= Len(queue) THEN queue[i] ELSE rest[i - Len(queue)]
    BY <2>2, <2>4, ConcatProperties
  <2>6. Len(queue) \in Nat /\ Len(rest) \in Nat
    BY <2>4, LenProperties
  <2>7. \A i \in 1..Len(rest) : rest[i] \in S
    BY <2>3, ElementOfSeq
  <2>8. /\ Queued = {queue[i] : i \in 1..Len(queue)}
        /\ Queued' = {queue'[i] : i \in 1..Len(queue')}
    <3>1. DOMAIN queue = 1..Len(queue) /\ DOMAIN queue' = 1..Len(queue')
      BY <2>4, <2>5, LenProperties
    <3> QED BY <3>1 DEF Queued, ToSet
  <2>9. \A i \in 1..Len(queue') : queue'[i] \in Queued \cup S
    BY <2>5, <2>6, <2>7, <2>8
  <2>10. \A i \in 1..Len(queue) : i \in 1..Len(queue') /\ queue'[i] = queue[i]
    BY <2>5, <2>6
  <2>11. \A i \in 1..Len(rest) : /\ i + Len(queue) \in 1..Len(queue')
                                 /\ queue'[i + Len(queue)] = rest[i]
    BY <2>5, <2>6
  <2>12. Queued' \subseteq Queued \cup S
    BY <2>8, <2>9
  <2>13. Queued \subseteq Queued'
    BY <2>8, <2>10
  <2>14. S \subseteq Queued'
    <3>1. ASSUME NEW d \in S PROVE d \in Queued'
      <4>1. PICK i \in 1..Len(rest) : rest[i] = d
        BY <2>3
      <4> QED BY <4>1, <2>8, <2>11
    <3> QED BY <3>1
  <2>15. Queued' = Queued \cup S
    BY <2>12, <2>13, <2>14
  <2> QED BY <2>15 DEF S
<1> QED
  BY <1>3, <1>5, <1>6, <1>7 DEF eligible

LEMMA DeliverFinishedSets ==
    ASSUME TypeOK, SchedulerInv, DeliverFinished
    PROVE  /\ NextQueued \subseteq Queued
           /\ Queued' = Queued \ NextQueued
           /\ Queued = {} <=> NextQueued = {}
           /\ Running' = (Running \ {Head(inbox).dev}) \cup NextQueued
           /\ Head(inbox).dev \in Running
           /\ Head(inbox).value \in Results
           /\ queue = <<>> <=> NextQueued = {}
           /\ \A x \in NextQueued : x = Head(queue)
<1>1. Head(inbox).dev \in Devices /\ Head(inbox).value \in Results
  BY HeadSignal DEF DeliverFinished
<1>2. Head(inbox).dev \in Running
  <2>1. 1 \in 1..Len(inbox) /\ Head(inbox) = inbox[1]
    BY HeadSignal DEF DeliverFinished, TypeOK
  <2> QED BY <1>1, <2>1 DEF SchedulerInv, SignalDiscipline, NoLateSignals, Running
<1>3. queue' = IF queue = <<>> THEN queue ELSE Tail(queue)
  BY DEF DeliverFinished, NextQueued
<1>4. Queued = {queue[i] : i \in 1..Len(queue)} /\ Len(queue) \in Nat
  BY QueueEntries
<1>5. ASSUME queue = <<>>
      PROVE  Queued = {} /\ Queued' = {} /\ NextQueued = {}
  BY <1>3, <1>5 DEF NextQueued, Queued, ToSet
<1>6. ASSUME queue # <<>>
      PROVE  /\ Queued' = Queued \ {queue[1]} /\ queue[1] \in Queued
             /\ NextQueued = {queue[1]} /\ Head(queue) = queue[1]
  <2>1. /\ Head(queue) = queue[1]
        /\ Len(queue) >= 1
        /\ Len(queue') = Len(queue) - 1
        /\ queue' \in Seq(Devices)
        /\ \A i \in 1..(Len(queue) - 1) : queue'[i] = queue[i + 1]
    BY <1>3, <1>6, HeadTailProperties DEF TypeOK
  <2>2. Queued' = {queue'[i] : i \in 1..Len(queue')}
    <3>1. DOMAIN queue' = 1..Len(queue')
      BY <2>1, LenProperties
    <3> QED BY <3>1 DEF Queued, ToSet
  <2>3. NextQueued = {queue[1]} /\ 1 \in 1..Len(queue)
    BY <1>4, <1>6, <2>1 DEF NextQueued
  <2>4. \A i \in 1..Len(queue) : queue[i] = queue[1] => i = 1
    BY <2>3 DEF SchedulerInv, QueueDiscipline
  <2>5. \A i \in 1..(Len(queue) - 1) : /\ i + 1 \in 1..Len(queue)
                                       /\ queue[i + 1] # queue[1]
    BY <1>4, <2>4
  <2>6. Queued' \subseteq Queued \ {queue[1]}
    BY <1>4, <2>1, <2>2, <2>5
  <2>7. ASSUME NEW i \in 1..Len(queue), queue[i] # queue[1]
        PROVE  queue[i] \in Queued'
    <3>1. i - 1 \in 1..Len(queue') /\ (i - 1) + 1 = i
      BY <1>4, <2>1, <2>7
    <3> QED BY <3>1, <2>1, <2>2
  <2>8. Queued' = Queued \ {queue[1]} /\ queue[1] \in Queued
    BY <1>4, <2>3, <2>6, <2>7
  <2> QED BY <2>1, <2>3, <2>8
<1>7. /\ NextQueued \subseteq Queued
      /\ Queued' = Queued \ NextQueued
      /\ Queued = {} <=> NextQueued = {}
      /\ queue = <<>> <=> NextQueued = {}
      /\ \A x \in NextQueued : x = Head(queue)
  BY <1>5, <1>6
<1>8. Running' = (Running \ {Head(inbox).dev}) \cup NextQueued
  <2>1. LaunchWorkers(NextQueued, {Head(inbox).dev})
    BY DEF DeliverFinished
  <2>2. NextQueued \subseteq Devices
    BY <1>7, QueueEntries
  <2> QED BY <2>1, <2>2 DEF LaunchWorkers, Running
<1> QED
  BY <1>1, <1>2, <1>7, <1>8

LEMMA CancelQueuedSets ==
    ASSUME TypeOK, SchedulerInv, NEW d \in Devices, CancelQueued(d)
    PROVE  d \in Queued /\ Queued' = Queued \ {d}
<1> DEFINE m == Len(queue)
<1>1. PICK p \in 1..m : queue[p] = d /\ queue' = RemoveAt(queue, p)
  BY DEF CancelQueued
<1>2. /\ queue' \in Seq(Devices)
      /\ Len(queue') = m - 1
      /\ \A k \in 1..(m - 1) : queue'[k] = IF k < p THEN queue[k] ELSE queue[k + 1]
  BY <1>1, RemoveAtProps DEF TypeOK
<1>3. Queued = {queue[i] : i \in 1..m} /\ m \in Nat
  BY QueueEntries
<1>4. Queued' = {queue'[i] : i \in 1..(m - 1)}
  <2>1. DOMAIN queue' = 1..Len(queue')
    BY <1>2, LenProperties
  <2> QED BY <1>2, <2>1 DEF Queued, ToSet
<1>5. \A i \in 1..m : queue[i] = d => i = p
  BY <1>1 DEF SchedulerInv, QueueDiscipline
<1> HIDE DEF m
<1>6. ASSUME NEW k \in 1..(m - 1) PROVE queue'[k] \in Queued \ {d}
  <2>1. CASE k < p
    <3>1. k \in 1..m /\ k # p
      BY <2>1, <1>3
    <3> QED BY <3>1, <2>1, <1>2, <1>3, <1>5
  <2>2. CASE ~(k < p)
    <3>1. k + 1 \in 1..m /\ k + 1 # p
      BY <2>2, <1>3
    <3> QED BY <3>1, <2>2, <1>2, <1>3, <1>5
  <2> QED BY <2>1, <2>2
<1>7. ASSUME NEW i \in 1..m, i # p PROVE queue[i] \in Queued'
  <2>1. CASE i < p
    <3>1. i \in 1..(m - 1)
      BY <2>1, <1>3
    <3> QED BY <3>1, <2>1, <1>2, <1>4
  <2>2. CASE ~(i < p)
    <3>1. i - 1 \in 1..(m - 1) /\ ~(i - 1 < p) /\ (i - 1) + 1 = i
      BY <2>2, <1>7, <1>3
    <3>2. queue'[i - 1] = queue[i]
      BY <3>1, <1>2
    <3> QED BY <3>1, <3>2, <1>4
  <2> QED BY <2>1, <2>2
<1>8. d \in Queued
  BY <1>1, <1>3
<1>9. Queued' \subseteq Queued \ {d}
  BY <1>4, <1>6
<1>10. \A x \in Queued \ {d} : x \in Queued'
  BY <1>1, <1>3, <1>7
<1> QED
  BY <1>8, <1>9, <1>10

-----------------------------------------------------------------------------
(* Refinement of the job pool. *)

LEMMA JobsInit == Init => Jobs!Init
BY DEF Init, Jobs!Init, Queued, Running, ToSet

LEMMA JobsStep ==
    ASSUME TypeOK, SchedulerInv, [Next]_vars
    PROVE  [Jobs!Next]_<<Queued, Running, history>>
<1>1. ASSUME NEW devices \in SUBSET Devices, NEW cap \in Caps, StartBatch(devices, cap)
      PROVE  Jobs!Accept
  <2>1. PICK launch \in SUBSET Eligible(devices) :
            /\ launch # {}
            /\ Running' = Running \cup launch
            /\ Queued' = Queued \cup (Eligible(devices) \ launch)
    BY <1>1, StartBatchSets
  <2>2. Eligible(devices) \subseteq Devices \ (Queued \cup Running)
    BY DEF Eligible, IsBusy, Running
  <2>3. history' = history
    BY <1>1 DEF StartBatch
  <2> DEFINE later == Eligible(devices) \ launch
  <2>4. /\ launch \in SUBSET (Devices \ (Queued \cup Running))
        /\ later \in SUBSET (Devices \ (Queued \cup Running))
        /\ launch \cap later = {}
    BY <2>2
  <2> QED BY <2>1, <2>3, <2>4 DEF Jobs!Accept
<1>2. ASSUME DeliverFinished
      PROVE  \E d \in Devices : Jobs!Resolve(d)
  <2> DEFINE d == Head(inbox).dev
             r == Head(inbox).value
  <2>1. /\ NextQueued \subseteq Queued
        /\ Queued' = Queued \ NextQueued
        /\ Queued = {} <=> NextQueued = {}
        /\ Running' = (Running \ {d}) \cup NextQueued
        /\ d \in Running /\ r \in Results
        /\ \A x \in NextQueued : x = Head(queue)
    BY <1>2, DeliverFinishedSets
  <2>2. history' = [history EXCEPT ![d] = Append(@, r)]
    BY <1>2 DEF DeliverFinished
  <2>3. d \in Devices
    BY <2>1 DEF Running
  <2> HIDE DEF d, r
  <2>4. CASE NextQueued = {}
    <3>1. Queued = {} /\ Queued' = Queued /\ Running' = Running \ {d}
      BY <2>1, <2>4
    <3> QED BY <2>1, <2>2, <2>3, <3>1 DEF Jobs!Resolve
  <2>5. CASE NextQueued # {}
    <3>1. PICK next \in NextQueued : TRUE
      BY <2>5
    <3>2. NextQueued = {next} /\ next \in Queued
      BY <3>1, <2>1
    <3>3. Queued' = Queued \ {next} /\ Running' = (Running \ {d}) \cup {next}
      BY <3>2, <2>1
    <3> QED BY <2>1, <2>2, <2>3, <3>2, <3>3 DEF Jobs!Resolve
  <2> QED BY <2>4, <2>5
<1>3. ASSUME NEW d \in Devices, CancelQueued(d)
      PROVE  Jobs!Withdraw
  <2>1. d \in Queued /\ Queued' = Queued \ {d}
    BY <1>3, CancelQueuedSets
  <2>2. history' = [x \in Devices |->
                       IF x \in {d} THEN Append(history[x], "Cancelled") ELSE history[x]]
    BY <1>3 DEF CancelQueued, TypeOK
  <2>3. Running' = Running
    BY <1>3 DEF CancelQueued, Running
  <2>4. {d} \in (SUBSET Queued) \ {{}}
    BY <2>1
  <2>5. "Cancelled" \in Results
    BY DEF Results
  <2> QED BY <2>1, <2>2, <2>3, <2>4, <2>5 DEF Jobs!Withdraw
<1>4. ASSUME CancelAll
      PROVE  Jobs!Withdraw \/ UNCHANGED <<Queued, Running, history>>
  <2>1. Queued' = {} /\ Running' = Running
    BY <1>4 DEF CancelAll, Queued, Running, ToSet
  <2>2. history' = [x \in Devices |->
                       IF x \in Queued THEN Append(history[x], "Cancelled") ELSE history[x]]
    BY <1>4 DEF CancelAll
  <2>3. "Cancelled" \in Results
    BY DEF Results
  <2>4. CASE Queued = {}
    <3>1. history' = history
      BY <2>2, <2>4 DEF TypeOK
    <3> QED BY <2>1, <2>4, <3>1
  <2>5. CASE Queued # {}
    <3>1. Queued \in (SUBSET Queued) \ {{}} /\ Queued' = Queued \ Queued
      BY <2>1, <2>5
    <3> QED BY <2>1, <2>2, <2>3, <3>1 DEF Jobs!Withdraw
  <2> QED BY <2>4, <2>5
<1>5. ASSUME UNCHANGED <<queue, busy, history>>
      PROVE  UNCHANGED <<Queued, Running, history>>
  BY <1>5 DEF Queued, Running
<1>6. ASSUME NEW d \in Devices, WorkerActive(d) \/ WorkerFinish(d) \/ CancelRunning(d)
      PROVE  UNCHANGED <<queue, busy, history>>
  BY <1>6 DEF WorkerActive, WorkerFinish, CancelRunning
<1>7. ASSUME DeliverStatus \/ UNCHANGED vars
      PROVE  UNCHANGED <<queue, busy, history>>
  BY <1>7 DEF DeliverStatus, vars
<1> QED
  BY <1>1, <1>2, <1>3, <1>4, <1>5, <1>6, <1>7 DEF Next, Jobs!Next

\* The scheduler implements the job pool: every device accepted is resolved at
\* most once per attempt and a freed slot goes to a waiting device at once,
\* whatever the number of devices, caps and overlapping batches.
THEOREM Refinement == Spec => ImplementsJobs
<1>1. ASSUME TypeOK, SchedulerInv, [Next]_vars PROVE [Jobs!Next]_<<Queued, Running, history>>
  BY <1>1, JobsStep
<1>2. ASSUME Init PROVE Jobs!Init
  BY <1>2, JobsInit
<1> QED
  BY <1>1, <1>2, TypeCorrect, SchedulerSafe, PTL
     DEF Spec, ImplementsJobs, Jobs!Spec, Jobs!jobVars

-----------------------------------------------------------------------------
(* Part 2: the records. *)

\* The devices the controller still has something to do for.
Occupied == Queued \cup Running

\* A terminal status is posted by a worker that has ended, and is the last
\* status of its device.
TerminalIsLast ==
    \A i \in 1..Len(inbox) :
        inbox[i].kind = "status" /\ inbox[i].value \in Results =>
           /\ thread[inbox[i].dev] = "finished"
           /\ \A k \in 1..Len(inbox) :
                 inbox[k].dev = inbox[i].dev /\ inbox[k].kind = "status" => k <= i

\* By the time a finished_flash is delivered the badge shows how it ended.
BadgeComesFirst ==
    \A i \in 1..Len(inbox) : inbox[i].kind = "finished" =>
        \/ \E k \in 1..Len(inbox) :
              /\ k < i /\ inbox[k].dev = inbox[i].dev
              /\ inbox[k].kind = "status" /\ inbox[k].value \in Results
        \/ /\ status[inbox[i].dev] \in Results
           /\ \A k \in 1..Len(inbox) : inbox[k].dev = inbox[i].dev => inbox[k].kind = "finished"

BadgeInv == TerminalIsLast /\ BadgeComesFirst /\ NoStuckBadge

\* A batch that was started on an idle bench has the controller to itself: its
\* results are those of its devices that are done, as the history has them,
\* and it is reported when there is no other.
LastEntry(d) == history[d][Len(history[d])]

AloneInv ==
    /\ starts = 0 => Occupied = {} /\ announced = <<>>
    /\ alone /\ starts > 0 =>
          /\ Occupied \subseteq batch
          /\ \A d \in Devices :
                /\ results[d] # "none" <=> d \in batch \ Occupied
                /\ results[d] # "none" => (results[d] = "ok" <=> LastEntry(d) = "Completed")
          /\ announced = IF Occupied = {} THEN <<Tally(results)>> ELSE <<>>

BatchInv == CapRespected /\ AloneInv

-----------------------------------------------------------------------------
(* Which devices are occupied, step by step. *)

LEMMA OccupiedDevices ==
    ASSUME TypeOK, SchedulerInv
    PROVE  /\ Queued \cap Running = {} /\ Occupied \subseteq Devices
           /\ \A d \in Devices : IsBusy(d) <=> d \in Occupied
           /\ AnyBusy <=> Occupied # {}
<1>1. Queued = {queue[i] : i \in 1..Len(queue)} /\ Queued \subseteq Devices
  BY QueueEntries
<1>2. \A d \in Queued : ~busy[d]
  BY <1>1 DEF SchedulerInv, QueueDiscipline
<1> QED BY <1>1, <1>2 DEF Occupied, Running, IsBusy, AnyBusy

LEMMA OccupiedByStart ==
    ASSUME TypeOK, SchedulerInv, NEW devices \in SUBSET Devices, NEW cap \in Caps,
           StartBatch(devices, cap)
    PROVE  /\ Occupied' = Occupied \cup Eligible(devices)
           /\ Eligible(devices) \subseteq Devices \ Occupied
BY StartBatchSets, OccupiedDevices DEF Occupied, Eligible

LEMMA OccupiedByFinish ==
    ASSUME TypeOK, SchedulerInv, DeliverFinished
    PROVE  /\ Occupied' = Occupied \ {Head(inbox).dev}
           /\ Head(inbox).dev \in Devices /\ Head(inbox).dev \in Occupied
<1>1. /\ NextQueued \subseteq Queued /\ Queued' = Queued \ NextQueued
      /\ Running' = (Running \ {Head(inbox).dev}) \cup NextQueued /\ Head(inbox).dev \in Running
  BY DeliverFinishedSets
<1>2. Queued \cap Running = {} /\ Running \subseteq Devices
  BY OccupiedDevices DEF Running
<1> QED BY <1>1, <1>2 DEF Occupied

LEMMA OccupiedByCancel ==
    ASSUME TypeOK, SchedulerInv, NEW d \in Devices, CancelQueued(d)
    PROVE  Occupied' = Occupied \ {d} /\ d \in Occupied /\ Running' = Running /\ d \notin Running
<1>1. Running' = Running
  BY DEF CancelQueued, Running
<1> QED BY <1>1, CancelQueuedSets, OccupiedDevices DEF Occupied

\* cancel_all only ever leaves workers behind: a queue without one would be
\* stranded.
LEMMA OccupiedByCancelAll ==
    ASSUME TypeOK, SchedulerInv, CancelAll
    PROVE  Occupied' = Running /\ Running' = Running /\ Running # {}
<1>1. Running' = Running /\ Queued' = {}
  BY DEF CancelAll, Running, Queued, ToSet
<1>2. Queued # {} => queue # <<>>
  BY DEF Queued, ToSet
<1>3. Queued # {} \/ Running # {}
  BY OccupiedDevices DEF CancelAll, Occupied
<1> QED BY <1>1, <1>2, <1>3 DEF Occupied, SchedulerInv, NoStrandedQueue

LEMMA OccupiedKept ==
    ASSUME UNCHANGED <<queue, busy>>
    PROVE  Occupied' = Occupied /\ Running' = Running /\ Queued' = Queued
BY DEF Occupied, Queued, Running

-----------------------------------------------------------------------------
(* The slot that is handed over. *)

LEMMA HandoverStep ==
    ASSUME TypeOK, SchedulerInv, Next, starts' = starts
    PROVE  /\ Cardinality(Running') <= Cardinality(Running)
           /\ \A d \in Devices : busy'[d] /\ ~busy[d] => queue # <<>> /\ d = Head(queue)
<1>1. IsFiniteSet(Running) /\ Cardinality(Running) \in Nat
  BY CardinalityOfDevices DEF Running
<1>2. CASE busy' = busy
  <2>1. Running' = Running
    BY <1>2 DEF Running
  <2> QED BY <1>1, <1>2, <2>1
<1>3. ASSUME NEW devices \in SUBSET Devices, NEW cap \in Caps, StartBatch(devices, cap)
      PROVE  FALSE
  <2>1. starts' = starts + 1 /\ starts \in Nat
    BY <1>3 DEF StartBatch, TypeOK
  <2> QED BY <2>1
<1>4. CASE DeliverFinished
  <2> DEFINE d == Head(inbox).dev
  <2>1. /\ Running' = (Running \ {d}) \cup NextQueued /\ d \in Running
        /\ \A x \in NextQueued : x = Head(queue)
        /\ queue = <<>> <=> NextQueued = {}
        /\ NextQueued \subseteq Queued
    BY <1>4, DeliverFinishedSets
  <2> HIDE DEF d
  <2>2. IsFiniteSet(Running \ {d}) /\ Cardinality(Running \ {d}) = Cardinality(Running) - 1
    BY <1>1, <2>1, FS_RemoveElement
  <2>3. Cardinality(Running') <= Cardinality(Running)
    <3>1. CASE NextQueued = {}
      <4>1. Running' = Running \ {d}
        BY <2>1, <3>1
      <4> QED BY <1>1, <2>2, <4>1
    <3>2. CASE NextQueued # {}
      <4>1. NextQueued = {Head(queue)}
        BY <2>1, <3>2
      <4>2. Running' = (Running \ {d}) \cup {Head(queue)}
        BY <2>1, <4>1
      <4>3. \/ Cardinality(Running') = Cardinality(Running \ {d})
            \/ Cardinality(Running') = Cardinality(Running \ {d}) + 1
        BY <2>2, <4>2, FS_AddElement
      <4> QED BY <1>1, <2>2, <4>3
    <3> QED BY <3>1, <3>2
  <2>4. ASSUME NEW x \in Devices, busy'[x], ~busy[x] PROVE queue # <<>> /\ x = Head(queue)
    <3>1. x \in Running' /\ x \notin Running
      BY <2>4 DEF Running
    <3> QED BY <2>1, <3>1
  <2> QED BY <2>3, <2>4
<1>5. CASE DeliverStatus \/ CancelAll
  BY <1>2, <1>5 DEF DeliverStatus, CancelAll
<1>6. ASSUME NEW d \in Devices,
             WorkerActive(d) \/ WorkerFinish(d) \/ CancelQueued(d) \/ CancelRunning(d)
      PROVE  busy' = busy
  BY <1>6 DEF WorkerActive, WorkerFinish, CancelQueued, CancelRunning
<1> QED BY <1>2, <1>3, <1>4, <1>5, <1>6 DEF Next

\* However batches overlap, only start_batch adds workers: a worker that ends
\* makes room for one, the device at the head of the queue.
THEOREM SlotsAreHandedOver == Spec => SlotHandover
<1>1. ASSUME TypeOK, SchedulerInv, [Next]_vars
      PROVE  [starts' = starts =>
                /\ Cardinality(Running') <= Cardinality(Running)
                /\ \A d \in Devices :
                      busy'[d] /\ ~busy[d] => queue # <<>> /\ d = Head(queue)]_vars
  BY <1>1, HandoverStep
<1> QED BY <1>1, TypeCorrect, SchedulerSafe, PTL DEF Spec, SlotHandover

-----------------------------------------------------------------------------
(* One history entry per attempt, and results of idle devices only. *)

LEMMA HistoryGrows ==
    ASSUME TypeOK, NEW d \in Devices, NEW r \in Results
    PROVE  Len(Append(history[d], r)) = Len(history[d]) + 1 /\ Len(history[d]) \in Nat
<1>1. history[d] \in Seq(Results)
  BY DEF TypeOK
<1> QED BY <1>1, AppendProperties, LenProperties

\* Before a step and after it, the busy devices are the occupied ones.
LEMMA BusyIsOccupied ==
    /\ \A d \in Devices : IsBusy(d) <=> d \in Occupied
    /\ \A d \in Devices : IsBusy(d)' <=> d \in Occupied'
BY DEF IsBusy, Occupied, Running

\* A device stops being occupied when its attempt is logged, and at no other
\* moment.
LEMMA OneEntryEnds ==
    ASSUME TypeOK, SchedulerInv, OneEntryPerAttempt, NEW d \in Devices, NEW r \in Results,
           Occupied' = Occupied \ {d}, d \in Occupied, (TypeOK /\ SchedulerInv)',
           history' = [history EXCEPT ![d] = Append(@, r)], attempts' = attempts
    PROVE  OneEntryPerAttempt'
<1> SUFFICES ASSUME NEW x \in Devices
             PROVE  attempts'[x] = Len(history'[x]) + (IF IsBusy(x)' THEN 1 ELSE 0)
  BY DEF OneEntryPerAttempt
<1>1. /\ IsBusy(x) <=> x \in Occupied
      /\ IsBusy(x)' <=> x \in Occupied'
  BY BusyIsOccupied
<1>2. attempts[x] = Len(history[x]) + (IF IsBusy(x) THEN 1 ELSE 0)
  BY DEF OneEntryPerAttempt
<1>3. history \in [Devices -> Seq(Results)]
  BY DEF TypeOK
<1>4. CASE x = d
  <2>1. ~IsBusy(x)' /\ IsBusy(x) /\ Len(history'[x]) = Len(history[x]) + 1
    BY <1>1, <1>3, <1>4, HistoryGrows
  <2>2. Len(history[x]) \in Nat
    BY <1>4, HistoryGrows
  <2> QED BY <1>2, <2>1, <2>2
<1>5. CASE x # d
  <2>1. history'[x] = history[x] /\ (IsBusy(x)' <=> IsBusy(x))
    BY <1>1, <1>3, <1>5
  <2> QED BY <1>2, <2>1
<1> QED BY <1>4, <1>5

LEMMA AttemptsStep ==
    ASSUME TypeOK, SchedulerInv, OneEntryPerAttempt, [Next]_vars, (TypeOK /\ SchedulerInv)'
    PROVE  OneEntryPerAttempt'
<1>1. ASSUME NEW devices \in SUBSET Devices, NEW cap \in Caps, StartBatch(devices, cap),
             NEW x \in Devices
      PROVE  attempts'[x] = Len(history'[x]) + (IF IsBusy(x)' THEN 1 ELSE 0)
  <2>1. /\ attempts'[x] = IF x \in Eligible(devices) THEN attempts[x] + 1 ELSE attempts[x]
        /\ history' = history
    BY <1>1 DEF StartBatch
  <2>2. /\ IsBusy(x) <=> x \in Occupied
        /\ IsBusy(x)' <=> x \in Occupied'
    BY BusyIsOccupied
  <2>3. Occupied' = Occupied \cup Eligible(devices) /\ Eligible(devices) \subseteq Devices \ Occupied
    BY <1>1, OccupiedByStart
  <2>4. attempts[x] = Len(history[x]) + (IF IsBusy(x) THEN 1 ELSE 0) /\ Len(history[x]) \in Nat
    BY HistoryGrows DEF OneEntryPerAttempt, Results
  <2>5. CASE x \in Eligible(devices)
    <3>1. IsBusy(x)' /\ ~IsBusy(x) /\ attempts'[x] = attempts[x] + 1
      BY <2>1, <2>2, <2>3, <2>5
    <3> QED BY <2>1, <2>4, <3>1
  <2>6. CASE x \notin Eligible(devices)
    <3>1. (IsBusy(x)' <=> IsBusy(x)) /\ attempts'[x] = attempts[x]
      BY <2>1, <2>2, <2>3, <2>6
    <3> QED BY <2>1, <2>4, <3>1
  <2> QED BY <2>5, <2>6
<1>2. CASE DeliverFinished
  <2>1. /\ Head(inbox).dev \in Devices /\ Head(inbox).value \in Results
        /\ history' = [history EXCEPT ![Head(inbox).dev] = Append(@, Head(inbox).value)]
        /\ attempts' = attempts
    BY <1>2, HeadSignal DEF DeliverFinished, batchVars
  <2> QED BY <1>2, <2>1, OccupiedByFinish, OneEntryEnds
<1>3. ASSUME NEW d \in Devices, CancelQueued(d) PROVE OneEntryPerAttempt'
  <2>1. history' = [history EXCEPT ![d] = Append(@, "Cancelled")] /\ attempts' = attempts
    BY <1>3 DEF CancelQueued, batchVars
  <2>2. "Cancelled" \in Results
    BY DEF Results
  <2> QED BY <1>3, <2>1, <2>2, OccupiedByCancel, OneEntryEnds
<1>4. ASSUME CancelAll, NEW x \in Devices
      PROVE  attempts'[x] = Len(history'[x]) + (IF IsBusy(x)' THEN 1 ELSE 0)
  <2>1. /\ history'[x] = IF x \in Queued THEN Append(history[x], "Cancelled") ELSE history[x]
        /\ attempts' = attempts
    BY <1>4 DEF CancelAll, batchVars
  <2>2. /\ IsBusy(x) <=> x \in Queued \cup Running
        /\ IsBusy(x)' <=> x \in Running
        /\ x \in Queued => x \notin Running
    BY <1>4, BusyIsOccupied, OccupiedDevices, OccupiedByCancelAll DEF Occupied
  <2>3. attempts[x] = Len(history[x]) + (IF IsBusy(x) THEN 1 ELSE 0)
    BY DEF OneEntryPerAttempt
  <2>4. "Cancelled" \in Results
    BY DEF Results
  <2>5. CASE x \in Queued
    <3>1. Len(history'[x]) = Len(history[x]) + 1 /\ Len(history[x]) \in Nat
      BY <2>1, <2>4, <2>5, HistoryGrows
    <3>2. IsBusy(x) /\ ~IsBusy(x)'
      BY <2>2, <2>5
    <3> QED BY <2>1, <2>3, <3>1, <3>2
  <2>6. CASE x \notin Queued
    <3>1. (IsBusy(x)' <=> IsBusy(x)) /\ history'[x] = history[x]
      BY <2>1, <2>2, <2>6
    <3> QED BY <2>1, <2>3, <3>1
  <2> QED BY <2>5, <2>6
<1>5. CASE UNCHANGED <<queue, busy, history, attempts>>
  BY <1>5 DEF OneEntryPerAttempt, IsBusy, Queued
<1>6. ASSUME NEW d \in Devices, WorkerActive(d) \/ WorkerFinish(d) \/ CancelRunning(d)
      PROVE  UNCHANGED <<queue, busy, history, attempts>>
  BY <1>6 DEF WorkerActive, WorkerFinish, CancelRunning, batchVars
<1>7. ASSUME DeliverStatus \/ UNCHANGED vars
      PROVE  UNCHANGED <<queue, busy, history, attempts>>
  BY <1>7 DEF DeliverStatus, vars, batchVars
<1>8. (\E devices \in SUBSET Devices, cap \in Caps : StartBatch(devices, cap)) \/ CancelAll
      => OneEntryPerAttempt'
  BY <1>1, <1>4 DEF OneEntryPerAttempt
<1> QED BY <1>2, <1>3, <1>5, <1>6, <1>7, <1>8 DEF Next

LEMMA ResultsStep ==
    ASSUME TypeOK, SchedulerInv, RecordedIsIdle, [Next]_vars, (TypeOK /\ SchedulerInv)'
    PROVE  RecordedIsIdle'
<1>1. \A x \in Devices : results[x] # "none" => x \notin Occupied
  BY BusyIsOccupied DEF RecordedIsIdle
<1>2. SUFFICES \A x \in Devices : results'[x] # "none" => x \notin Occupied'
  BY BusyIsOccupied DEF RecordedIsIdle
<1>3. ASSUME NEW devices \in SUBSET Devices, NEW cap \in Caps, StartBatch(devices, cap)
      PROVE  \A x \in Devices : results'[x] = "none"
  BY <1>3 DEF StartBatch
<1>4. ASSUME NEW d \in Devices, NEW r, results' = [results EXCEPT ![d] = r],
             Occupied' = Occupied \ {d}
      PROVE  \A x \in Devices : results'[x] # "none" => x \notin Occupied'
  BY <1>1, <1>4 DEF TypeOK
<1>5. CASE DeliverFinished
  BY <1>4, <1>5, OccupiedByFinish DEF DeliverFinished
<1>6. ASSUME NEW d \in Devices, CancelQueued(d)
      PROVE  \A x \in Devices : results'[x] # "none" => x \notin Occupied'
  BY <1>4, <1>6, OccupiedByCancel DEF CancelQueued
<1>7. CASE CancelAll
  <2>1. Occupied' = Running /\ Queued \cap Running = {} /\ Running \subseteq Occupied
    BY <1>7, OccupiedByCancelAll, OccupiedDevices DEF Occupied
  <2> QED BY <1>1, <1>7, <2>1 DEF CancelAll
<1>8. CASE UNCHANGED <<queue, busy, results>>
  BY <1>1, <1>8, OccupiedKept
<1>9. ASSUME NEW d \in Devices, WorkerActive(d) \/ WorkerFinish(d) \/ CancelRunning(d)
      PROVE  UNCHANGED <<queue, busy, results>>
  BY <1>9 DEF WorkerActive, WorkerFinish, CancelRunning
<1>10. ASSUME DeliverStatus \/ UNCHANGED vars
       PROVE  UNCHANGED <<queue, busy, results>>
  BY <1>10 DEF DeliverStatus, vars
<1> QED BY <1>3, <1>5, <1>6, <1>7, <1>8, <1>9, <1>10 DEF Next

-----------------------------------------------------------------------------
(* The badges: what is still in the inbox, and what is shown. *)

LEMMA InboxByActive ==
    ASSUME TypeOK, NEW d \in Devices, WorkerActive(d)
    PROVE  /\ Len(inbox) \in Nat /\ Len(inbox') = Len(inbox) + 1
           /\ \A i \in 1..Len(inbox) : inbox'[i] = inbox[i]
           /\ inbox'[Len(inbox) + 1] = StatusSignal(d, "Active")
<1>1. StatusSignal(d, "Active") \in Signals
  BY DEF StatusSignal, Signals
<1> QED BY <1>1, AppendProperties DEF WorkerActive, TypeOK

LEMMA InboxByFinish ==
    ASSUME TypeOK, NEW d \in Devices, WorkerFinish(d)
    PROVE  \E end \in Endings(cancelled[d]) :
              /\ Len(inbox) \in Nat /\ Len(inbox') = Len(inbox) + 2
              /\ \A i \in 1..Len(inbox) : inbox'[i] = inbox[i]
              /\ inbox'[Len(inbox) + 1] = StatusSignal(d, end.badge)
              /\ inbox'[Len(inbox) + 2] = FinishedSignal(d, end.result)
              /\ end.badge \in Results
<1>1. PICK end \in Endings(cancelled[d]) : inbox' = inbox \o FinalSignals(d, end)
  BY DEF WorkerFinish
<1> DEFINE n == Len(inbox)
           last == FinalSignals(d, end)
<1>2. end.badge \in Results /\ end.result \in Results
  BY DEF Endings, Results
<1>3. last \in Seq(Signals) /\ Len(last) = 2
  BY <1>2 DEF FinalSignals, StatusSignal, FinishedSignal, Signals
<1>4. last[1] = StatusSignal(d, end.badge) /\ last[2] = FinishedSignal(d, end.result)
  BY DEF FinalSignals
<1>5. n \in Nat /\ inbox \in Seq(Signals)
  BY LenProperties DEF TypeOK
<1> HIDE DEF last
<1>6. /\ Len(inbox') = n + Len(last)
      /\ \A i \in 1..(n + Len(last)) : inbox'[i] = IF i <= n THEN inbox[i] ELSE last[i - n]
  BY <1>1, <1>3, <1>5, ConcatProperties DEF last
<1>7. inbox'[n + 1] = last[1] /\ inbox'[n + 2] = last[2]
  BY <1>3, <1>5, <1>6
<1> QED BY <1>2, <1>3, <1>4, <1>5, <1>6, <1>7

\* start_batch and the cancels touch the badges of devices that have no signal
\* under way.
LEMMA BadgesOfOthers ==
    ASSUME TypeOK, SchedulerInv, TerminalIsLast, BadgeComesFirst, inbox' = inbox,
           \A x \in Devices : busy[x] => thread'[x] = thread[x] /\ status'[x] = status[x]
    PROVE  TerminalIsLast' /\ BadgeComesFirst'
<1>1. \A i \in 1..Len(inbox) : inbox[i].dev \in Devices /\ busy[inbox[i].dev]
  BY InboxEntries DEF SchedulerInv, SignalDiscipline, NoLateSignals
<1>2. TerminalIsLast'
  BY <1>1 DEF TerminalIsLast
<1>3. BadgeComesFirst'
  BY <1>1 DEF BadgeComesFirst
<1> QED BY <1>2, <1>3

LEMMA BadgeStart ==
    ASSUME TypeOK, SchedulerInv, BadgeInv, NEW devices \in SUBSET Devices, NEW cap \in Caps,
           StartBatch(devices, cap)
    PROVE  BadgeInv'
<1>1. PICK launch \in SUBSET Eligible(devices) :
          /\ status' = [x \in Devices |->
                           IF x \in launch THEN "Waiting"
                           ELSE IF x \in Eligible(devices) THEN "Queued"
                           ELSE status[x]]
          /\ LaunchWorkers(launch, {})
  BY DEF StartBatch, FirstSlots
<1>2. Running' = Running \cup launch
  BY <1>1 DEF Running, LaunchWorkers, Eligible
<1>3. /\ Occupied' = Occupied \cup Eligible(devices)
      /\ Eligible(devices) \subseteq Devices \ Occupied
  BY OccupiedByStart
<1>4. \A x \in Devices : busy[x] => thread'[x] = thread[x] /\ status'[x] = status[x]
  BY <1>1, <1>3 DEF LaunchWorkers, Occupied, Running
<1>5. TerminalIsLast' /\ BadgeComesFirst'
  BY <1>4, BadgesOfOthers DEF BadgeInv, StartBatch
<1>6. ASSUME NEW x \in Devices, ~IsBusy(x)' PROVE status'[x] \in {"Idle"} \cup Results
  BY <1>1, <1>3, <1>6, BusyIsOccupied DEF BadgeInv, NoStuckBadge
<1>7. ASSUME NEW x \in Devices, x \in Queued' PROVE status'[x] = "Queued"
  <2>1. PICK more \in SUBSET Eligible(devices) :
            /\ Running' = Running \cup more
            /\ Queued' = Queued \cup (Eligible(devices) \ more)
    BY StartBatchSets
  <2>2. launch = more
    BY <1>2, <1>3, <2>1 DEF Occupied
  <2> QED BY <1>1, <1>3, <1>7, <2>1, <2>2 DEF BadgeInv, NoStuckBadge, Occupied
<1> QED BY <1>5, <1>6, <1>7 DEF BadgeInv, NoStuckBadge

LEMMA BadgeCancel ==
    ASSUME TypeOK, SchedulerInv, BadgeInv, NEW gone \in SUBSET Queued,
           Queued' = Queued \ gone, busy' = busy, thread' = thread, inbox' = inbox,
           status' = [x \in Devices |-> IF x \in gone THEN "Cancelled" ELSE status[x]]
    PROVE  BadgeInv'
<1>1. Queued \cap Running = {}
  BY OccupiedDevices
<1>2. \A x \in Devices : busy[x] => thread'[x] = thread[x] /\ status'[x] = status[x]
  BY <1>1 DEF Running
<1>3. TerminalIsLast' /\ BadgeComesFirst'
  BY <1>2, BadgesOfOthers DEF BadgeInv
<1>4. ASSUME NEW x \in Devices, ~IsBusy(x)' PROVE status'[x] \in {"Idle"} \cup Results
  BY <1>4 DEF BadgeInv, NoStuckBadge, IsBusy, Results
<1>5. ASSUME NEW x \in Devices, x \in Queued' PROVE status'[x] = "Queued"
  BY <1>5 DEF BadgeInv, NoStuckBadge
<1> QED BY <1>3, <1>4, <1>5 DEF BadgeInv, NoStuckBadge

LEMMA BadgeActive ==
    ASSUME TypeOK, SchedulerInv, BadgeInv, NEW d \in Devices, WorkerActive(d)
    PROVE  BadgeInv'
<1> DEFINE n == Len(inbox)
<1>1. /\ n \in Nat /\ Len(inbox') = n + 1
      /\ \A i \in 1..n : inbox'[i] = inbox[i]
      /\ inbox'[n + 1] = StatusSignal(d, "Active")
  BY InboxByActive
<1>2. \A i \in 1..Len(inbox') : i \in 1..n \/ i = n + 1
  BY <1>1
<1>3. /\ inbox'[n + 1].dev = d /\ inbox'[n + 1].kind = "status"
      /\ inbox'[n + 1].value \notin Results
  BY <1>1 DEF StatusSignal, Results
<1>4. /\ thread[d] = "started" /\ status' = status /\ queue' = queue /\ busy' = busy
      /\ \A x \in Devices : x # d => thread'[x] = thread[x]
  BY DEF WorkerActive, TypeOK
<1>5. \A i \in 1..n : inbox[i].dev \in Devices
                      /\ (inbox[i].kind = "finished" => inbox[i].dev # d)
  BY <1>4, InboxEntries DEF SchedulerInv, SignalDiscipline, FinishedIsPosted
<1> HIDE DEF n
<1>6. TerminalIsLast'
  <2> SUFFICES ASSUME NEW i \in 1..Len(inbox'), inbox'[i].kind = "status",
                      inbox'[i].value \in Results
               PROVE  /\ thread'[inbox'[i].dev] = "finished"
                      /\ \A k \in 1..Len(inbox') :
                            inbox'[k].dev = inbox'[i].dev /\ inbox'[k].kind = "status" => k <= i
    BY DEF TerminalIsLast
  <2>1. i \in 1..n /\ inbox'[i] = inbox[i]
    BY <1>1, <1>2, <1>3
  <2>2. /\ thread[inbox[i].dev] = "finished"
        /\ \A k \in 1..n : inbox[k].dev = inbox[i].dev /\ inbox[k].kind = "status" => k <= i
    BY <2>1 DEF BadgeInv, TerminalIsLast, n
  <2>3. inbox[i].dev \in Devices /\ inbox[i].dev # d
    BY <1>4, <1>5, <2>1, <2>2
  <2>4. \A k \in 1..Len(inbox') : inbox'[k].dev = inbox'[i].dev => k \in 1..n
    BY <1>2, <1>3, <2>1, <2>3
  <2> QED BY <1>1, <1>4, <2>1, <2>2, <2>3, <2>4
<1>7. BadgeComesFirst'
  <2> SUFFICES ASSUME NEW i \in 1..Len(inbox'), inbox'[i].kind = "finished"
               PROVE  \/ \E k \in 1..Len(inbox') :
                            /\ k < i /\ inbox'[k].dev = inbox'[i].dev
                            /\ inbox'[k].kind = "status" /\ inbox'[k].value \in Results
                      \/ /\ status'[inbox'[i].dev] \in Results
                         /\ \A k \in 1..Len(inbox') :
                               inbox'[k].dev = inbox'[i].dev => inbox'[k].kind = "finished"
    BY DEF BadgeComesFirst
  <2>1. i \in 1..n /\ inbox'[i] = inbox[i]
    BY <1>1, <1>2, <1>3
  <2>2. inbox[i].dev # d
    BY <1>5, <2>1
  <2>3. \A k \in 1..Len(inbox') : inbox'[k].dev = inbox'[i].dev => k \in 1..n
    BY <1>2, <1>3, <2>1, <2>2
  <2>4. \A k \in 1..n : k \in 1..Len(inbox')
    BY <1>1
  <2>5. \/ \E k \in 1..n : /\ k < i /\ inbox[k].dev = inbox[i].dev
                           /\ inbox[k].kind = "status" /\ inbox[k].value \in Results
        \/ /\ status[inbox[i].dev] \in Results
           /\ \A k \in 1..n : inbox[k].dev = inbox[i].dev => inbox[k].kind = "finished"
    BY <2>1 DEF BadgeInv, BadgeComesFirst, n
  <2> QED BY <1>1, <1>4, <2>1, <2>3, <2>4, <2>5
<1>8. NoStuckBadge'
  BY <1>4 DEF BadgeInv, NoStuckBadge, IsBusy, Queued
<1> QED BY <1>6, <1>7, <1>8 DEF BadgeInv

LEMMA BadgeFinish ==
    ASSUME TypeOK, SchedulerInv, BadgeInv, NEW d \in Devices, WorkerFinish(d)
    PROVE  BadgeInv'
<1> DEFINE n == Len(inbox)
<1>1. PICK end \in Endings(cancelled[d]) :
              /\ n \in Nat /\ Len(inbox') = n + 2
              /\ \A i \in 1..n : inbox'[i] = inbox[i]
              /\ inbox'[n + 1] = StatusSignal(d, end.badge)
              /\ inbox'[n + 2] = FinishedSignal(d, end.result)
              /\ end.badge \in Results
  BY InboxByFinish
<1>2. \A i \in 1..Len(inbox') : i \in 1..n \/ i = n + 1 \/ i = n + 2
  BY <1>1
<1>3. /\ inbox'[n + 1].dev = d /\ inbox'[n + 1].kind = "status"
      /\ inbox'[n + 1].value \in Results
      /\ inbox'[n + 2].dev = d /\ inbox'[n + 2].kind = "finished"
  BY <1>1 DEF StatusSignal, FinishedSignal
<1>4. /\ thread[d] = "active" /\ status' = status /\ queue' = queue /\ busy' = busy
      /\ thread'[d] = "finished"
      /\ \A x \in Devices : x # d => thread'[x] = thread[x]
  BY DEF WorkerFinish, TypeOK
<1>5. \A i \in 1..n : inbox[i].dev \in Devices
                      /\ (inbox[i].kind = "finished" => inbox[i].dev # d)
  BY <1>4, InboxEntries DEF SchedulerInv, SignalDiscipline, FinishedIsPosted
<1> HIDE DEF n
<1>6. TerminalIsLast'
  <2> SUFFICES ASSUME NEW i \in 1..Len(inbox'), inbox'[i].kind = "status",
                      inbox'[i].value \in Results
               PROVE  /\ thread'[inbox'[i].dev] = "finished"
                      /\ \A k \in 1..Len(inbox') :
                            inbox'[k].dev = inbox'[i].dev /\ inbox'[k].kind = "status" => k <= i
    BY DEF TerminalIsLast
  <2>1. CASE i = n + 1
    <3>1. \A k \in 1..Len(inbox') : inbox'[k].kind = "status" => k <= i
      BY <1>1, <1>2, <1>3, <2>1
    <3> QED BY <1>3, <1>4, <2>1, <3>1
  <2>2. CASE i \in 1..n
    <3>1. /\ inbox'[i] = inbox[i] /\ thread[inbox[i].dev] = "finished"
          /\ \A k \in 1..n : inbox[k].dev = inbox[i].dev /\ inbox[k].kind = "status" => k <= i
      BY <1>1, <2>2 DEF BadgeInv, TerminalIsLast, n
    <3>2. inbox[i].dev \in Devices /\ inbox[i].dev # d
      BY <1>4, <1>5, <2>2, <3>1
    <3>3. \A k \in 1..Len(inbox') : inbox'[k].dev = inbox'[i].dev => k \in 1..n
      BY <1>2, <1>3, <3>1, <3>2
    <3> QED BY <1>1, <1>4, <3>1, <3>2, <3>3
  <2>3. i # n + 2
    BY <1>3
  <2> QED BY <1>2, <2>1, <2>2, <2>3
<1>7. BadgeComesFirst'
  <2> SUFFICES ASSUME NEW i \in 1..Len(inbox'), inbox'[i].kind = "finished"
               PROVE  \/ \E k \in 1..Len(inbox') :
                            /\ k < i /\ inbox'[k].dev = inbox'[i].dev
                            /\ inbox'[k].kind = "status" /\ inbox'[k].value \in Results
                      \/ /\ status'[inbox'[i].dev] \in Results
                         /\ \A k \in 1..Len(inbox') :
                               inbox'[k].dev = inbox'[i].dev => inbox'[k].kind = "finished"
    BY DEF BadgeComesFirst
  <2>1. CASE i = n + 2
    <3>1. n + 1 \in 1..Len(inbox') /\ n + 1 < i
      BY <1>1, <2>1
    <3> QED BY <1>3, <2>1, <3>1
  <2>2. CASE i \in 1..n
    <3>1. inbox'[i] = inbox[i] /\ inbox[i].dev # d
      BY <1>1, <1>5, <2>2
    <3>2. \A k \in 1..Len(inbox') : inbox'[k].dev = inbox'[i].dev => k \in 1..n
      BY <1>2, <1>3, <3>1
    <3>3. \A k \in 1..n : k \in 1..Len(inbox')
      BY <1>1
    <3>4. \/ \E k \in 1..n : /\ k < i /\ inbox[k].dev = inbox[i].dev
                             /\ inbox[k].kind = "status" /\ inbox[k].value \in Results
          \/ /\ status[inbox[i].dev] \in Results
             /\ \A k \in 1..n : inbox[k].dev = inbox[i].dev => inbox[k].kind = "finished"
      BY <2>2, <3>1 DEF BadgeInv, BadgeComesFirst, n
    <3> QED BY <1>1, <1>4, <3>1, <3>2, <3>3, <3>4
  <2>3. i # n + 1
    BY <1>3
  <2> QED BY <1>2, <2>1, <2>2, <2>3
<1>8. NoStuckBadge'
  BY <1>4 DEF BadgeInv, NoStuckBadge, IsBusy, Queued
<1> QED BY <1>6, <1>7, <1>8 DEF BadgeInv

\* A delivered badge is the terminal one, or the finished_flash under way has
\* still to pass its own.
LEMMA BadgeDelivered ==
    ASSUME TypeOK, SchedulerInv, BadgeInv, DeliverStatus
    PROVE  BadgeInv'
<1> DEFINE n == Len(inbox)
           d == Head(inbox).dev
<1>1. /\ queue' = queue /\ busy' = busy /\ thread' = thread
      /\ inbox # <<>> /\ inbox[1].kind = "status" /\ d = inbox[1].dev /\ d \in Devices
      /\ status' = [status EXCEPT ![d] = inbox[1].value]
      /\ Len(inbox') = n - 1 /\ \A i \in 1..(n - 1) : inbox'[i] = inbox[i + 1]
  BY HeadSignal DEF DeliverStatus
<1>2. n \in Nat /\ n # 0
  BY <1>1, LenProperties, EmptySeq DEF TypeOK
<1>3. \A i \in 1..(n - 1) : i + 1 \in 1..n
  BY <1>2
<1>4. 1 \in 1..n /\ \A k \in 1..n : k = 1 \/ (k - 1 \in 1..(n - 1) /\ (k - 1) + 1 = k)
  BY <1>2
<1>5. status \in [Devices -> Status] /\ \A i \in 1..n : inbox[i].dev \in Devices
  BY InboxEntries DEF TypeOK, n
<1> HIDE DEF n, d
<1>6. TerminalIsLast'
  <2> SUFFICES ASSUME NEW i \in 1..(n - 1), inbox'[i].kind = "status",
                      inbox'[i].value \in Results
               PROVE  /\ thread[inbox'[i].dev] = "finished"
                      /\ \A k \in 1..(n - 1) :
                            inbox'[k].dev = inbox'[i].dev /\ inbox'[k].kind = "status" => k <= i
    BY <1>1 DEF TerminalIsLast
  <2>1. /\ thread[inbox[i + 1].dev] = "finished"
        /\ \A k \in 1..n :
              inbox[k].dev = inbox[i + 1].dev /\ inbox[k].kind = "status" => k <= i + 1
    BY <1>1, <1>3 DEF BadgeInv, TerminalIsLast, n
  <2>2. ASSUME NEW k \in 1..(n - 1), inbox'[k].dev = inbox'[i].dev, inbox'[k].kind = "status"
        PROVE  k <= i
    <3>1. k + 1 <= i + 1
      BY <1>1, <1>3, <2>1, <2>2
    <3> QED BY <3>1
  <2> QED BY <1>1, <2>1, <2>2
<1>7. BadgeComesFirst'
  <2> SUFFICES ASSUME NEW i \in 1..(n - 1), inbox'[i].kind = "finished"
               PROVE  \/ \E k \in 1..(n - 1) :
                            /\ k < i /\ inbox'[k].dev = inbox'[i].dev
                            /\ inbox'[k].kind = "status" /\ inbox'[k].value \in Results
                      \/ /\ status'[inbox'[i].dev] \in Results
                         /\ \A k \in 1..(n - 1) :
                               inbox'[k].dev = inbox'[i].dev => inbox'[k].kind = "finished"
    BY <1>1 DEF BadgeComesFirst
  <2>1. inbox'[i] = inbox[i + 1] /\ i + 1 \in 1..n
    BY <1>1, <1>3
  <2>2. \/ \E k \in 1..n : /\ k < i + 1 /\ inbox[k].dev = inbox[i + 1].dev
                           /\ inbox[k].kind = "status" /\ inbox[k].value \in Results
        \/ /\ status[inbox[i + 1].dev] \in Results
           /\ \A k \in 1..n : inbox[k].dev = inbox[i + 1].dev => inbox[k].kind = "finished"
    BY <2>1 DEF BadgeInv, BadgeComesFirst, n
  <2>3. ASSUME NEW k \in 1..n, k < i + 1, inbox[k].dev = inbox[i + 1].dev,
               inbox[k].kind = "status", inbox[k].value \in Results, k # 1
        PROVE  \E j \in 1..(n - 1) :
                  /\ j < i /\ inbox'[j].dev = inbox'[i].dev
                  /\ inbox'[j].kind = "status" /\ inbox'[j].value \in Results
    <3>1. k - 1 \in 1..(n - 1) /\ (k - 1) + 1 = k /\ k - 1 < i
      BY <1>2, <2>3
    <3>2. inbox'[k - 1] = inbox[k]
      BY <1>1, <3>1
    <3> QED BY <2>1, <2>3, <3>1, <3>2
  <2>4. ASSUME inbox[1].dev = inbox[i + 1].dev, inbox[1].value \in Results
        PROVE  /\ status'[inbox'[i].dev] \in Results
               /\ \A k \in 1..(n - 1) :
                     inbox'[k].dev = inbox'[i].dev => inbox'[k].kind = "finished"
    <3>1. status'[d] = inbox[1].value
      BY <1>1, <1>5
    <3>2. \A k \in 1..n : inbox[k].dev = inbox[1].dev /\ inbox[k].kind = "status" => k <= 1
      BY <1>1, <1>4, <2>4 DEF BadgeInv, TerminalIsLast, n
    <3>3. ASSUME NEW k \in 1..(n - 1), inbox'[k].dev = inbox'[i].dev
          PROVE  inbox'[k].kind = "finished"
      <4>1. /\ k + 1 \in 1..n /\ inbox'[k] = inbox[k + 1] /\ ~(k + 1 <= 1)
        BY <1>1, <1>3
      <4>2. inbox[k + 1].kind # "status"
        BY <2>1, <2>4, <3>2, <3>3, <4>1
      <4> QED BY <4>1, <4>2, InboxEntries DEF n
    <3> QED BY <1>1, <2>1, <2>4, <3>1, <3>3
  <2>5. ASSUME status[inbox[i + 1].dev] \in Results,
               \A k \in 1..n : inbox[k].dev = inbox[i + 1].dev => inbox[k].kind = "finished"
        PROVE  /\ status'[inbox'[i].dev] \in Results
               /\ \A k \in 1..(n - 1) :
                     inbox'[k].dev = inbox'[i].dev => inbox'[k].kind = "finished"
    <3>1. inbox[i + 1].dev # d
      BY <1>1, <1>4, <2>5
    <3>2. status'[inbox'[i].dev] = status[inbox[i + 1].dev]
      BY <1>1, <1>5, <2>1, <3>1
    <3> QED BY <1>1, <1>3, <2>1, <2>5, <3>2
  <2> QED BY <2>2, <2>3, <2>4, <2>5
<1>8. NoStuckBadge'
  <2>1. busy[d] /\ d \notin Queued
    BY <1>1, <1>4, OccupiedDevices
       DEF SchedulerInv, SignalDiscipline, NoLateSignals, Running, n
  <2> QED BY <1>1, <2>1 DEF BadgeInv, NoStuckBadge, IsBusy, Queued
<1> QED BY <1>6, <1>7, <1>8 DEF BadgeInv

LEMMA BadgeFinished ==
    ASSUME TypeOK, SchedulerInv, BadgeInv, DeliverFinished
    PROVE  BadgeInv'
<1> DEFINE n == Len(inbox)
           d == Head(inbox).dev
<1>1. /\ inbox # <<>> /\ inbox[1].kind = "finished" /\ d = inbox[1].dev /\ d \in Devices
      /\ Len(inbox') = n - 1 /\ \A i \in 1..(n - 1) : inbox'[i] = inbox[i + 1]
  BY HeadSignal DEF DeliverFinished
<1>2. /\ status' = [x \in Devices |-> IF x \in NextQueued THEN "Waiting" ELSE status[x]]
      /\ thread' = [x \in Devices |->
                       IF x \in NextQueued THEN "started"
                       ELSE IF x = d THEN "stopped" ELSE thread[x]]
  BY DEF DeliverFinished, LaunchWorkers
<1>3. n \in Nat /\ n # 0
  BY <1>1, LenProperties, EmptySeq DEF TypeOK
<1>4. /\ 1 \in 1..n /\ \A i \in 1..(n - 1) : i + 1 \in 1..n
      /\ \A k \in 1..n : k = 1 \/ (k - 1 \in 1..(n - 1) /\ (k - 1) + 1 = k)
  BY <1>3
<1>5. \A i \in 1..n : inbox[i].dev \in Devices /\ busy[inbox[i].dev]
  BY InboxEntries DEF SchedulerInv, SignalDiscipline, NoLateSignals, n
<1>6. \A i \in 1..n : inbox[i].dev = d => i <= 1
  BY <1>1, <1>4 DEF SchedulerInv, SignalDiscipline, NoLateSignals, n
<1>7. NextQueued \subseteq Queued /\ Queued \cap Running = {} /\ d \in Running
  BY DeliverFinishedSets, OccupiedDevices
<1>8. status[d] \in Results
  <2>1. ~ \E k \in 1..n : k < 1
    BY <1>3
  <2> QED BY <1>1, <1>4, <2>1 DEF BadgeInv, BadgeComesFirst, n
<1> HIDE DEF n, d
<1>9. ASSUME NEW i \in 1..(n - 1)
      PROVE  /\ inbox'[i] = inbox[i + 1] /\ i + 1 \in 1..n /\ inbox[i + 1].dev # d
             /\ thread'[inbox[i + 1].dev] = thread[inbox[i + 1].dev]
             /\ status'[inbox[i + 1].dev] = status[inbox[i + 1].dev]
  <2>1. inbox'[i] = inbox[i + 1] /\ i + 1 \in 1..n
    BY <1>1, <1>4
  <2>2. ~(i + 1 <= 1)
    OBVIOUS
  <2>3. inbox[i + 1].dev # d
    BY <1>6, <2>1, <2>2
  <2>4. inbox[i + 1].dev \in Devices /\ inbox[i + 1].dev \notin NextQueued
    BY <1>5, <1>7, <2>1 DEF Running
  <2> QED BY <1>2, <2>1, <2>3, <2>4
<1>10. TerminalIsLast'
  <2> SUFFICES ASSUME NEW i \in 1..(n - 1), inbox'[i].kind = "status",
                      inbox'[i].value \in Results
               PROVE  /\ thread'[inbox'[i].dev] = "finished"
                      /\ \A k \in 1..(n - 1) :
                            inbox'[k].dev = inbox'[i].dev /\ inbox'[k].kind = "status" => k <= i
    BY <1>1 DEF TerminalIsLast
  <2>1. /\ thread[inbox[i + 1].dev] = "finished"
        /\ \A k \in 1..n :
              inbox[k].dev = inbox[i + 1].dev /\ inbox[k].kind = "status" => k <= i + 1
    BY <1>9 DEF BadgeInv, TerminalIsLast, n
  <2>2. ASSUME NEW k \in 1..(n - 1), inbox'[k].dev = inbox'[i].dev, inbox'[k].kind = "status"
        PROVE  k <= i
    <3>1. k + 1 <= i + 1
      BY <1>9, <2>1, <2>2
    <3> QED BY <3>1
  <2> QED BY <1>9, <2>1, <2>2
<1>11. BadgeComesFirst'
  <2> SUFFICES ASSUME NEW i \in 1..(n - 1), inbox'[i].kind = "finished"
               PROVE  \/ \E k \in 1..(n - 1) :
                            /\ k < i /\ inbox'[k].dev = inbox'[i].dev
                            /\ inbox'[k].kind = "status" /\ inbox'[k].value \in Results
                      \/ /\ status'[inbox'[i].dev] \in Results
                         /\ \A k \in 1..(n - 1) :
                               inbox'[k].dev = inbox'[i].dev => inbox'[k].kind = "finished"
    BY <1>1 DEF BadgeComesFirst
  <2>1. \/ \E k \in 1..n : /\ k < i + 1 /\ inbox[k].dev = inbox[i + 1].dev
                           /\ inbox[k].kind = "status" /\ inbox[k].value \in Results
        \/ /\ status[inbox[i + 1].dev] \in Results
           /\ \A k \in 1..n : inbox[k].dev = inbox[i + 1].dev => inbox[k].kind = "finished"
    BY <1>9 DEF BadgeInv, BadgeComesFirst, n
  <2>2. ASSUME NEW k \in 1..n, k < i + 1, inbox[k].dev = inbox[i + 1].dev,
               inbox[k].kind = "status", inbox[k].value \in Results
        PROVE  \E j \in 1..(n - 1) :
                  /\ j < i /\ inbox'[j].dev = inbox'[i].dev
                  /\ inbox'[j].kind = "status" /\ inbox'[j].value \in Results
    <3>1. k # 1
      BY <1>1, <2>2
    <3>2. k - 1 \in 1..(n - 1) /\ (k - 1) + 1 = k /\ k - 1 < i
      BY <1>3, <2>2, <3>1
    <3>3. inbox'[k - 1] = inbox[k]
      BY <1>1, <3>2
    <3> QED BY <1>9, <2>2, <3>2, <3>3
  <2> QED BY <1>9, <2>1, <2>2
<1>12. NoStuckBadge'
  <2>1. /\ Occupied' = Occupied \ {d} /\ Queued' = Queued \ NextQueued
    BY OccupiedByFinish, DeliverFinishedSets DEF d
  <2>2. ASSUME NEW x \in Devices, ~IsBusy(x)' PROVE status'[x] \in {"Idle"} \cup Results
    <3>1. x \notin Occupied \/ x = d
      BY <2>1, <2>2, BusyIsOccupied
    <3>2. x \notin NextQueued
      BY <1>7, <3>1 DEF Occupied
    <3> QED BY <1>2, <1>8, <3>1, <3>2, BusyIsOccupied DEF BadgeInv, NoStuckBadge
  <2> QED BY <1>2, <2>1, <2>2 DEF BadgeInv, NoStuckBadge
<1> QED BY <1>10, <1>11, <1>12 DEF BadgeInv

LEMMA BadgeStep ==
    ASSUME TypeOK, SchedulerInv, BadgeInv, [Next]_vars
    PROVE  BadgeInv'
<1>1. ASSUME NEW d \in Devices, CancelQueued(d) PROVE BadgeInv'
  <2>1. d \in Queued /\ Queued' = Queued \ {d}
    BY <1>1, CancelQueuedSets
  <2>2. /\ status' = [x \in Devices |-> IF x \in {d} THEN "Cancelled" ELSE status[x]]
        /\ UNCHANGED <<busy, thread, inbox>>
    BY <1>1 DEF CancelQueued, TypeOK
  <2> QED BY <2>1, <2>2, BadgeCancel
<1>2. CASE CancelAll
  <2>1. Queued' = {}
    BY <1>2 DEF CancelAll, Queued, ToSet
  <2> QED BY <1>2, <2>1, BadgeCancel DEF CancelAll
<1>3. ASSUME UNCHANGED <<queue, busy, thread, inbox, status>> PROVE BadgeInv'
  BY <1>3 DEF BadgeInv, TerminalIsLast, BadgeComesFirst, NoStuckBadge, IsBusy, Queued
<1>4. ASSUME NEW d \in Devices, CancelRunning(d) PROVE BadgeInv'
  BY <1>3, <1>4 DEF CancelRunning
<1>5. CASE UNCHANGED vars
  BY <1>3, <1>5 DEF vars
<1> QED
  BY <1>1, <1>2, <1>4, <1>5, BadgeStart, BadgeActive, BadgeFinish, BadgeDelivered,
     BadgeFinished DEF Next

\* History, badges and results agree, whatever batches overlap: a device that
\* has been let go of shows how its last run ended, one that waits shows
\* Queued, every accepted attempt has its history entry, and no batch holds a
\* result of a run still under way.
THEOREM RecordsAlwaysAgree == Spec => []RecordsAgree
<1> DEFINE Inv == TypeOK /\ SchedulerInv /\ BadgeInv /\ OneEntryPerAttempt /\ RecordedIsIdle
<1>1. Init => BadgeInv /\ OneEntryPerAttempt /\ RecordedIsIdle
  BY DEF Init, BadgeInv, TerminalIsLast, BadgeComesFirst, NoStuckBadge, OneEntryPerAttempt,
         RecordedIsIdle, IsBusy, Queued, ToSet
<1>2. ASSUME TypeOK /\ SchedulerInv, (TypeOK /\ SchedulerInv)', [Next]_vars,
             BadgeInv /\ OneEntryPerAttempt /\ RecordedIsIdle
      PROVE  (BadgeInv /\ OneEntryPerAttempt /\ RecordedIsIdle)'
  BY <1>2, BadgeStep, AttemptsStep, ResultsStep
<1>3. Spec => [](TypeOK /\ SchedulerInv)
  BY TypeCorrect, SchedulerSafe, PTL
<1>4. BadgeInv /\ OneEntryPerAttempt /\ RecordedIsIdle => RecordsAgree
  BY DEF BadgeInv, RecordsAgree, BadgesAndResultsAgree
<1> QED BY <1>1, <1>2, <1>3, <1>4, PTL DEF Spec

-----------------------------------------------------------------------------
(* The cap, and the report of a batch that was started on an idle bench. *)

LEMMA FinishedBatches ==
    ASSUME TypeOK, NEW rest \in SUBSET batch
    PROVE  /\ Cardinality(batch \ rest) = batchSize - Cardinality(rest)
           /\ batchSize \in Nat /\ Cardinality(rest) \in Nat
           /\ Cardinality(batch \ rest) >= batchSize <=> rest = {}
<1>1. IsFiniteSet(batch) /\ batchSize \in Nat
  BY CardinalityOfDevices DEF TypeOK, batchSize
<1>2. IsFiniteSet(rest) /\ Cardinality(rest) \in Nat
  BY <1>1, FS_Subset, FS_CardinalityType
<1>3. Cardinality(rest) = 0 <=> rest = {}
  BY <1>2, FS_EmptySet
<1>4. batch \cap rest = rest
  OBVIOUS
<1>5. Cardinality(batch \ rest) = batchSize - Cardinality(rest)
  BY <1>1, <1>4, FS_Difference DEF batchSize
<1> QED BY ONLY <1>1, <1>2, <1>3, <1>5

\* The last device of the batch that is resolved, and no other, completes it.
LEMMA AloneFinish ==
    ASSUME TypeOK, AloneInv, NEW d \in Devices, NEW r \in Results, NEW v \in {"ok", "failed"},
           v = "ok" <=> r = "Completed", d \in Occupied, Occupied' = Occupied \ {d},
           results' = [results EXCEPT ![d] = v],
           history' = [history EXCEPT ![d] = Append(@, r)],
           MaybeFinishBatch(results'), batch' = batch, alone' = alone, starts' = starts
    PROVE  AloneInv'
<1>1. starts # 0 /\ starts' > 0
  BY DEF AloneInv, TypeOK
<1> SUFFICES ASSUME alone
             PROVE  /\ Occupied' \subseteq batch
                    /\ \A x \in Devices :
                          /\ results'[x] # "none" <=> x \in batch \ Occupied'
                          /\ results'[x] # "none" => (results'[x] = "ok" <=> LastEntry(x)' = "Completed")
                    /\ announced' = IF Occupied' = {} THEN <<Tally(results)'>> ELSE <<>>
  BY <1>1 DEF AloneInv
<1>2. /\ Occupied \subseteq batch /\ announced = <<>>
      /\ \A x \in Devices :
            /\ results[x] # "none" <=> x \in batch \ Occupied
            /\ results[x] # "none" => (results[x] = "ok" <=> LastEntry(x) = "Completed")
  BY <1>1 DEF AloneInv, TypeOK
<1>3. results \in [Devices -> {"none", "ok", "failed"}] /\ history \in [Devices -> Seq(Results)]
  BY DEF TypeOK
<1>4. \A x \in Devices : results'[x] # "none" <=> x \in batch \ Occupied'
  BY <1>2, <1>3
<1>5. ASSUME NEW x \in Devices, results'[x] # "none"
      PROVE  results'[x] = "ok" <=> LastEntry(x)' = "Completed"
  <2>1. CASE x = d
    <3>1. history'[x] = Append(history[d], r) /\ results'[x] = v
      BY <1>3, <2>1
    <3>2. history'[x][Len(history'[x])] = r
      BY <1>3, <3>1, AppendProperties
    <3> QED BY <3>1, <3>2 DEF LastEntry
  <2>2. CASE x # d
    <3>1. history'[x] = history[x] /\ results'[x] = results[x]
      BY <1>3, <2>2
    <3> QED BY <1>2, <1>5, <3>1 DEF LastEntry
  <2> QED BY <2>1, <2>2
<1>6. {x \in Devices : results'[x] # "none"} = batch \ Occupied'
  BY <1>4 DEF TypeOK
<1>7. Resolved(results') >= batchSize <=> Occupied' = {}
  BY <1>2, <1>6, FinishedBatches DEF Resolved
<1>8. announced' = IF Occupied' = {} THEN <<Tally(results')>> ELSE <<>>
  BY <1>2, <1>7 DEF MaybeFinishBatch
<1>9. Tally(results)' = Tally(results')
  BY DEF Tally, batchSize
<1> QED BY <1>2, <1>4, <1>5, <1>8, <1>9

\* The devices that cancel_all resolves are never the last of the batch: a
\* worker is still running.
LEMMA AloneCancelAll ==
    ASSUME TypeOK, SchedulerInv, AloneInv, CancelAll
    PROVE  AloneInv'
<1>1. /\ Occupied' = Running /\ Running # {} /\ Occupied = Queued \cup Running
      /\ Queued \cap Running = {} /\ batch' = batch /\ alone' = alone /\ starts' = starts
  BY OccupiedByCancelAll, OccupiedDevices DEF CancelAll, batchVars, Occupied
<1>2. starts # 0 /\ starts' > 0
  BY <1>1 DEF AloneInv, TypeOK
<1> SUFFICES ASSUME alone
             PROVE  /\ Occupied' \subseteq batch
                    /\ \A x \in Devices :
                          /\ results'[x] # "none" <=> x \in batch \ Occupied'
                          /\ results'[x] # "none" => (results'[x] = "ok" <=> LastEntry(x)' = "Completed")
                    /\ announced' = <<>>
  BY <1>1, <1>2 DEF AloneInv
<1>3. /\ Occupied \subseteq batch /\ announced = <<>>
      /\ \A x \in Devices :
            /\ results[x] # "none" <=> x \in batch \ Occupied
            /\ results[x] # "none" => (results[x] = "ok" <=> LastEntry(x) = "Completed")
  BY <1>1, <1>2 DEF AloneInv, TypeOK
<1>4. \A x \in Devices :
         /\ results'[x] = IF x \in Queued THEN "failed" ELSE results[x]
         /\ history'[x] = IF x \in Queued THEN Append(history[x], "Cancelled") ELSE history[x]
  BY DEF CancelAll
<1>5. \A x \in Devices : results'[x] # "none" <=> x \in batch \ Occupied'
  BY <1>1, <1>3, <1>4
<1>6. ASSUME NEW x \in Devices, results'[x] # "none"
      PROVE  results'[x] = "ok" <=> LastEntry(x)' = "Completed"
  <2>1. CASE x \in Queued
    <3>1. history[x] \in Seq(Results) /\ "Cancelled" \in Results
      BY DEF TypeOK, Results
    <3>2. history'[x] = Append(history[x], "Cancelled") /\ results'[x] = "failed"
      BY <1>4, <2>1
    <3>3. history'[x][Len(history'[x])] = "Cancelled"
      BY <3>1, <3>2, AppendProperties
    <3> QED BY <3>2, <3>3 DEF LastEntry
  <2>2. CASE x \notin Queued
    BY <1>3, <1>4, <1>6, <2>2 DEF LastEntry
  <2> QED BY <2>1, <2>2
<1>7. Cardinality(Queued) = Len(queue) /\ Len(queue) \in Nat
  <2>1. queue \in [1..Len(queue) -> Queued] /\ Len(queue) \in Nat
    BY QueueEntries, LenProperties DEF TypeOK
  <2>2. queue \in Bijection(1..Len(queue), Queued)
    BY <2>1, QueueEntries
       DEF Bijection, Injection, Surjection, IsInjective, SchedulerInv, QueueDiscipline
  <2>3. ExistsBijection(1..Len(queue), Queued)
    BY <2>2 DEF ExistsBijection
  <2> QED BY <2>1, <2>3, FS_CountingElements
<1> DEFINE reached == {i \in 1..Len(queue) : Resolved(results) + i >= batchSize}
<1>8. reached = {}
  <2>1. {x \in Devices : results[x] # "none"} = batch \ Occupied
    BY <1>3 DEF TypeOK
  <2>2. Resolved(results) = batchSize - Cardinality(Occupied) /\ batchSize \in Nat
        /\ Cardinality(Occupied) \in Nat
    BY <1>3, <2>1, FinishedBatches DEF Resolved
  <2>3. Running \in SUBSET Devices /\ Queued \in SUBSET Devices /\ Occupied \in SUBSET Devices
    BY QueueEntries, OccupiedDevices DEF Running
  <2>4. Occupied \ Queued = Running /\ Occupied \cap Queued = Queued
    BY <1>1
  <2>5. Cardinality(Running) = Cardinality(Occupied) - Cardinality(Queued)
    BY <2>3, <2>4, CardinalityOfDevices, FS_Difference
  <2>6. Cardinality(Running) \in Nat /\ Cardinality(Running) # 0
    BY <1>1, <2>3, CardinalityOfDevices, FS_EmptySet
  <2>7. ASSUME NEW i \in 1..Len(queue) PROVE ~(Resolved(results) + i >= batchSize)
    BY ONLY <1>7, <2>2, <2>5, <2>6, <2>7
  <2> QED BY <2>7
<1>9. announced' = <<>>
  <2>1. announced' = announced \o [i \in 1..Cardinality(reached) |-> Tally(results)]
    BY DEF CancelAll
  <2>2. Cardinality(reached) = 0
    BY <1>8, FS_EmptySet
  <2> HIDE DEF reached
  <2>3. [i \in 1..Cardinality(reached) |-> Tally(results)] = <<>>
    BY <2>2
  <2> QED BY <1>3, <2>1, <2>3
<1> QED BY <1>1, <1>3, <1>5, <1>6, <1>9

LEMMA AloneStep ==
    ASSUME TypeOK, SchedulerInv, AloneInv, [Next]_vars
    PROVE  AloneInv'
<1>1. ASSUME NEW devices \in SUBSET Devices, NEW cap \in Caps, StartBatch(devices, cap)
      PROVE  AloneInv'
  <2>1. /\ starts' = starts + 1 /\ starts \in Nat /\ alone' = ~AnyBusy
        /\ batch' = Eligible(devices) /\ announced' = <<>> /\ Eligible(devices) # {}
        /\ \A x \in Devices : results'[x] = "none"
    BY <1>1 DEF StartBatch, TypeOK
  <2>2. starts' # 0
    BY ONLY <2>1
  <2>3. /\ Occupied' = Occupied \cup Eligible(devices)
        /\ alone' => Occupied = {}
    BY <1>1, <2>1, OccupiedByStart, OccupiedDevices
  <2> QED BY <2>1, <2>2, <2>3 DEF AloneInv
<1>2. CASE DeliverFinished
  <2> DEFINE d == Head(inbox).dev
             r == Head(inbox).value
             v == IF r = "Completed" THEN "ok" ELSE "failed"
  <2>1. d \in Devices /\ r \in Results /\ d \in Occupied /\ Occupied' = Occupied \ {d}
    BY <1>2, OccupiedByFinish, DeliverFinishedSets
  <2>2. /\ results' = [results EXCEPT ![d] = v]
        /\ history' = [history EXCEPT ![d] = Append(@, r)]
        /\ MaybeFinishBatch(results') /\ batch' = batch /\ alone' = alone /\ starts' = starts
    BY <1>2 DEF DeliverFinished, batchVars
  <2>3. v \in {"ok", "failed"} /\ (v = "ok" <=> r = "Completed")
    OBVIOUS
  <2> HIDE DEF d, r, v
  <2> QED BY <2>1, <2>2, <2>3, AloneFinish
<1>3. ASSUME NEW d \in Devices, CancelQueued(d) PROVE AloneInv'
  <2>1. /\ results' = [results EXCEPT ![d] = "failed"]
        /\ history' = [history EXCEPT ![d] = Append(@, "Cancelled")]
        /\ MaybeFinishBatch(results') /\ batch' = batch /\ alone' = alone /\ starts' = starts
    BY <1>3 DEF CancelQueued, batchVars
  <2>2. "Cancelled" \in Results
    BY DEF Results
  <2> QED BY <1>3, <2>1, <2>2, OccupiedByCancel, AloneFinish
<1>4. ASSUME UNCHANGED <<queue, busy, results, history, announced, batch, alone, starts>>
      PROVE  AloneInv'
  BY <1>4 DEF AloneInv, Occupied, Queued, Running, Tally, batchSize, LastEntry
<1>5. ASSUME NEW d \in Devices, WorkerActive(d) \/ WorkerFinish(d) \/ CancelRunning(d)
      PROVE  AloneInv'
  BY <1>4, <1>5 DEF WorkerActive, WorkerFinish, CancelRunning, batchVars
<1>6. CASE DeliverStatus \/ UNCHANGED vars
  BY <1>4, <1>6 DEF DeliverStatus, vars, batchVars
<1> QED BY <1>1, <1>2, <1>3, <1>5, <1>6, AloneCancelAll DEF Next

LEMMA CapStep ==
    ASSUME TypeOK, SchedulerInv, CapRespected, [Next]_vars
    PROVE  CapRespected'
<1>1. ASSUME NEW devices \in SUBSET Devices, NEW cap \in Caps, StartBatch(devices, cap), alone'
      PROVE  Cardinality(Running') <= batchCap'
  <2>1. PICK launch \in FirstSlots(Eligible(devices), cap) : LaunchWorkers(launch, {})
    BY <1>1 DEF StartBatch
  <2>2. Occupied = {} /\ batchCap' = cap
    BY <1>1, OccupiedDevices DEF StartBatch
  <2>3. launch \subseteq Devices /\ Running' = launch
    BY <2>1, <2>2 DEF LaunchWorkers, Running, Occupied, FirstSlots, Eligible
  <2>4. cap \in Nat /\ Cardinality(launch) \in Nat
    BY <2>3, ControllerAssumption, CardinalityOfDevices
  <2>5. \/ Cardinality(Eligible(devices)) <= cap /\ launch = Eligible(devices)
        \/ Cardinality(launch) = cap
    BY <2>1 DEF FirstSlots
  <2> QED BY <2>2, <2>3, <2>4, <2>5
<1>2. ASSUME Next, starts' = starts, alone' = alone, batchCap' = batchCap PROVE CapRespected'
  <2>1. Cardinality(Running') <= Cardinality(Running)
    BY <1>2, HandoverStep
  <2>2. Cardinality(Running) \in Nat /\ Cardinality(Running') \in Nat /\ batchCap \in Nat
    BY CardinalityOfDevices DEF Running, TypeOK
  <2> QED BY <1>2, <2>1, <2>2 DEF CapRespected
<1>3. ASSUME Next, ~ \E devices \in SUBSET Devices, cap \in Caps : StartBatch(devices, cap)
      PROVE  CapRespected'
  <2>1. starts' = starts /\ alone' = alone /\ batchCap' = batchCap
    BY <1>3 DEF Next, WorkerActive, WorkerFinish, DeliverStatus, DeliverFinished, CancelQueued,
                CancelRunning, CancelAll, batchVars
  <2> QED BY <1>2, <1>3, <2>1
<1>4. CASE UNCHANGED vars
  BY <1>4 DEF CapRespected, Running, vars
<1> QED BY <1>1, <1>3, <1>4 DEF CapRespected

LEMMA ReportOfAlone ==
    ASSUME TypeOK, SchedulerInv, AloneInv
    PROVE  BatchReportExact
<1> SUFFICES ASSUME alone PROVE BatchReportExact
  BY DEF BatchReportExact
<1>1. AnyBusy <=> Occupied # {}
  BY OccupiedDevices
<1>2. CASE starts = 0
  <2>1. announced = <<>> /\ Len(announced) = 0
    BY <1>2, EmptySeq DEF AloneInv
  <2> QED BY <1>2, <2>1 DEF BatchReportExact
<1>3. CASE starts # 0
  <2>1. starts > 0
    BY <1>3 DEF TypeOK
  <2>2. announced = IF Occupied = {} THEN <<Tally(results)>> ELSE <<>>
    BY <2>1 DEF AloneInv
  <2>3. CASE Occupied # {}
    <3>1. announced = <<>> /\ Len(announced) = 0
      BY <2>2, <2>3, EmptySeq
    <3> QED BY <1>1, <2>3, <3>1 DEF BatchReportExact
  <2>4. CASE Occupied = {}
    <3> DEFINE succeeded == {d \in batch : history[d][Len(history[d])] = "Completed"}
    <3>1. announced = <<Tally(results)>>
      BY <2>2, <2>4
    <3>2. Len(announced) = 1 /\ announced[1] = Tally(results) /\ announced # <<>>
      BY <3>1
    <3>3. succeeded = {d \in Devices : results[d] = "ok"}
      BY <2>1, <2>4 DEF AloneInv, LastEntry, TypeOK
    <3>4. succeeded \in SUBSET batch
      OBVIOUS
    <3> HIDE DEF succeeded
    <3>5. Cardinality(batch \ succeeded) = batchSize - Cardinality(succeeded)
      BY <3>4, FinishedBatches
    <3>6. announced[1].ok = Cardinality(succeeded)
          /\ announced[1].failed = Cardinality(batch \ succeeded)
      BY <3>2, <3>3, <3>5 DEF Tally
    <3> QED BY <1>1, <2>4, <3>2, <3>6 DEF BatchReportExact, succeeded
  <2> QED BY <2>3, <2>4
<1> QED BY <1>2, <1>3

\* A batch started on an idle bench keeps the cap and is reported exactly once,
\* at the moment its last device is resolved, with the counts of the history;
\* for any devices, any cap and any number of batches before and after.
THEOREM BatchesAreExact == Spec => []BatchExact
<1>1. Init => CapRespected /\ AloneInv
  <2>1. Init => Queued = {}
    BY DEF Init, Queued, ToSet
  <2>2. ASSUME Init PROVE Running = {}
    <3>1. \A d \in Devices : busy[d] = FALSE
      BY <2>2 DEF Init
    <3> QED BY ONLY <3>1 DEF Running
  <2>3. ASSUME Init PROVE starts = 0 /\ announced = <<>> /\ batchCap = 0
    BY <2>3 DEF Init
  <2>4. 0 <= 0 /\ ~(0 > 0) /\ Cardinality({}) = 0
    BY FS_EmptySet
  <2> QED BY <2>1, <2>2, <2>3, <2>4 DEF Occupied, CapRespected, AloneInv
<1>2. ASSUME TypeOK, SchedulerInv, BatchInv, [Next]_vars PROVE BatchInv'
  BY <1>2, CapStep, AloneStep DEF BatchInv
<1>3. TypeOK /\ SchedulerInv /\ BatchInv => BatchExact
  BY ReportOfAlone DEF BatchInv, BatchExact
<1>4. Init => BatchInv
  BY <1>1 DEF BatchInv
<1> QED BY <1>2, <1>3, <1>4, TypeCorrect, SchedulerSafe, PTL DEF Spec

-----------------------------------------------------------------------------
(* The panels' copy of is_busy(): SettingsPanel. *)

ShownActive == selected # NoDevice /\ status[selected] = "Active"

PanelInv ==
    /\ selected \in Devices \cup {NoDevice} /\ locked \in BOOLEAN
    /\ ShownActive => locked

LEMMA PanelRefines == PanelNext => [Next]_vars
BY DEF PanelNext, PanelDeliverStatus, PanelCancelQueued, PanelCancelAll, Silent, Select, Next

LEMMA PanelStep ==
    ASSUME TypeOK, SchedulerInv, RecordsAgree, PanelInv, [PanelNext]_panelVars
    PROVE  PanelInv'
<1>1. status \in [Devices -> Status] /\ "Active" \notin {"Idle"} \cup Results
  BY DEF TypeOK, Results
<1>2. ASSUME NEW d \in Devices \cup {NoDevice}, Select(d) PROVE PanelInv'
  <2>1. selected' = d /\ locked' = (d # NoDevice /\ IsBusy(d)) /\ status' = status
    BY <1>2 DEF Select, vars
  <2>2. d # NoDevice /\ status[d] = "Active" => IsBusy(d)
    BY <1>1, <1>2 DEF RecordsAgree, BadgesAndResultsAgree, NoStuckBadge
  <2>3. (d # NoDevice /\ IsBusy(d)) \in BOOLEAN
    OBVIOUS
  <2> QED BY <1>2, <2>1, <2>2, <2>3 DEF PanelInv, ShownActive
<1>3. ASSUME PanelDeliverStatus, selected' = selected PROVE PanelInv'
  <2> DEFINE d == Head(inbox).dev
  <2>1. d \in Devices /\ IsBusy(d)
    <3>1. inbox # <<>> /\ d = inbox[1].dev /\ d \in Devices
      BY <1>3, HeadSignal DEF PanelDeliverStatus, DeliverStatus
    <3>2. 1 \in 1..Len(inbox)
      BY <3>1, EmptySeq DEF TypeOK
    <3> QED BY <3>1, <3>2 DEF SchedulerInv, SignalDiscipline, NoLateSignals, IsBusy
  <2>2. /\ status' = [status EXCEPT ![d] = Head(inbox).value]
        /\ locked' = IF d = selected THEN IsBusy(d) ELSE locked
    BY <1>3 DEF PanelDeliverStatus, DeliverStatus, RefreshLock
  <2> HIDE DEF d
  <2>3. CASE d = selected
    BY <1>3, <2>1, <2>2, <2>3 DEF PanelInv
  <2>4. CASE d # selected
    BY <1>1, <1>3, <2>2, <2>4 DEF PanelInv, ShownActive
  <2> QED BY <2>3, <2>4
<1>4. ASSUME NEW gone \in SUBSET Devices, selected' = selected,
             status' = [x \in Devices |-> IF x \in gone THEN "Cancelled" ELSE status[x]],
             locked' = IF selected \in gone THEN FALSE ELSE locked
      PROVE  PanelInv'
  BY <1>1, <1>4 DEF PanelInv, ShownActive
<1>5. ASSUME NEW d \in Devices, PanelCancelQueued(d), selected' = selected PROVE PanelInv'
  <2>1. /\ status' = [x \in Devices |-> IF x \in {d} THEN "Cancelled" ELSE status[x]]
        /\ locked' = IF selected \in {d} THEN FALSE ELSE locked
    BY <1>1, <1>5 DEF PanelCancelQueued, CancelQueued, RefreshLock
  <2> QED BY <1>4, <1>5, <2>1
<1>6. ASSUME PanelCancelAll, selected' = selected PROVE PanelInv'
  <2>1. /\ status' = [x \in Devices |-> IF x \in Queued THEN "Cancelled" ELSE status[x]]
        /\ locked' = IF selected \in Queued THEN FALSE ELSE locked
    BY <1>6 DEF PanelCancelAll, CancelAll, RefreshLock
  <2>2. Queued \in SUBSET Devices
    BY QueueEntries
  <2> QED BY <1>4, <1>6, <2>1, <2>2
<1>7. ASSUME UNCHANGED <<selected, locked>>,
             \A x \in Devices : status'[x] \in {status[x], "Waiting", "Queued"}
      PROVE  PanelInv'
  BY <1>7 DEF PanelInv, ShownActive
<1>8. ASSUME Silent PROVE \A x \in Devices : status'[x] \in {status[x], "Waiting", "Queued"}
  <2>1. ASSUME NEW devices \in SUBSET Devices, NEW cap \in Caps, StartBatch(devices, cap),
               NEW x \in Devices
        PROVE  status'[x] \in {status[x], "Waiting", "Queued"}
    BY <2>1 DEF StartBatch
  <2>2. ASSUME NEW d \in Devices, WorkerActive(d) \/ WorkerFinish(d) \/ CancelRunning(d)
        PROVE  status' = status
    BY <2>2 DEF WorkerActive, WorkerFinish, CancelRunning
  <2>3. ASSUME DeliverFinished, NEW x \in Devices
        PROVE  status'[x] \in {status[x], "Waiting", "Queued"}
    BY <2>3 DEF DeliverFinished
  <2> QED BY <1>8, <2>1, <2>2, <2>3 DEF Silent
<1>9. CASE UNCHANGED panelVars
  BY <1>9 DEF panelVars, vars, PanelInv, ShownActive
<1> QED BY <1>2, <1>3, <1>5, <1>6, <1>7, <1>8, <1>9 DEF PanelNext

\* The settings of a device whose badge shows a flash under way are locked,
\* whichever came first, the selection or the upload.
THEOREM ActiveStaysLocked == PanelSpec => []ActiveIsLocked
<1>1. PanelSpec => Spec
  <2>1. PanelInit => Init
    BY DEF PanelInit
  <2>2. [PanelNext]_panelVars => [Next]_vars
    BY PanelRefines DEF panelVars
  <2> QED BY <2>1, <2>2, PTL DEF PanelSpec, Spec
<1>2. PanelInit => PanelInv
  BY DEF PanelInit, PanelInv, ShownActive
<1>3. TypeOK /\ PanelInv => ActiveIsLocked
  BY DEF PanelInv, ShownActive, ActiveIsLocked, PanelTypeOK
<1>4. TypeOK /\ SchedulerInv /\ RecordsAgree /\ PanelInv /\ [PanelNext]_panelVars => PanelInv'
  BY PanelStep
<1> QED
  BY <1>1, <1>2, <1>3, <1>4, TypeCorrect, SchedulerSafe, RecordsAlwaysAgree, PTL DEF PanelSpec

-----------------------------------------------------------------------------
(* Part 3, FlashWorker: the run of one device. *)

\* The sentinel is the last thing in the queue of lines, it is not there
\* while the output is open, and while the loop reads it is there afterwards.
LinesInv ==
    /\ \A i \in 1..Len(lines) : lines[i] = "eof" => i = Len(lines) /\ ~stdout
    /\ process # "running" => ~stdout
    /\ process \in {"none", "created"} => lines = <<>>
    /\ pc = "read" /\ ~stdout => lines # <<>> /\ lines[Len(lines)] = "eof"

\* Which process there is at each point of the run, and what the run has
\* found out by then.
RunInv ==
    /\ pc \in {"prepare", "check"} => process = "none"
    /\ pc = "spawn" => process = "created"
    /\ pc \in {"read", "drained", "wait", "terminate", "terminating"} =>
          process \in {"running", "exited"}
    /\ pc = "drained" => cancelRequested \/ (lines = <<>> /\ ~stdout)
    /\ pc = "wait" => lines = <<>> /\ ~stdout
    /\ pc \in {"prepare", "check", "spawn", "read", "drained", "wait"} => result = "none"
    /\ pc \in {"terminate", "terminating"} => result \in {"Failed", "Cancelled"}
    /\ pc \in {"finish", "report", "exit", "done"} => result \in Results
    /\ result = "Cancelled" => cancelRequested
    /\ result = "Completed" => process = "exited" /\ rc = 0 /\ lines = <<>>
    /\ badge = "Completed" => result = "Completed"
    /\ finished = IF pc \in {"exit", "done"} THEN 1 ELSE 0

\* A process that runs has been signalled once the cancel call has returned
\* or the worker has passed the point where it looks after it.
SignalInv ==
    /\ process = "running" /\ signalled = "no" /\ cancelRequested /\ canceller = "idle" =>
          pc \in {"read", "drained", "terminate"}
    /\ canceller = "terminating" \/ pc = "terminating" => signalled # "no"
    /\ process = "running" /\ signalled = "no" /\ pc \in {"finish", "report", "exit", "done"} =>
          ~stdout \/ raised

WorkerInv == RunTypeOK /\ LinesInv /\ RunInv /\ SignalInv

-----------------------------------------------------------------------------
(* Sequences of lines. *)

\* What the reader's thread puts into the queue.
LEMMA AppendLine ==
    ASSUME RunTypeOK, NEW x \in {"line", "eof"}
    PROVE  /\ Append(lines, x) \in Seq({"line", "eof"})
           /\ Len(Append(lines, x)) = Len(lines) + 1
           /\ Append(lines, x)[Len(lines) + 1] = x
           /\ \A i \in 1..Len(lines) : Append(lines, x)[i] = lines[i]
           /\ Append(lines, x) # <<>>
BY AppendProperties DEF RunTypeOK

\* What the loop takes out of it.
LEMMA TakeLine ==
    ASSUME RunTypeOK, lines # <<>>
    PROVE  /\ Tail(lines) \in Seq({"line", "eof"})
           /\ Len(lines) \in Nat /\ Len(lines) >= 1
           /\ Head(lines) = lines[1]
           /\ Len(Tail(lines)) = Len(lines) - 1
           /\ \A i \in 1..Len(Tail(lines)) : Tail(lines)[i] = lines[i + 1]
BY HeadTailProperties DEF RunTypeOK

-----------------------------------------------------------------------------
(* The inductive invariant, party by party. *)

LEMMA WorkerInit == RunInit => WorkerInv
<1> SUFFICES ASSUME RunInit PROVE WorkerInv
  OBVIOUS
<1>1. RunTypeOK
  <2>1. lines \in Seq({"line", "eof"})
    BY DEF RunInit
  <2>2. cancelRequested \in BOOLEAN /\ stdout \in BOOLEAN
    BY DEF RunInit
  <2> QED BY <2>1, <2>2 DEF RunInit, RunTypeOK
<1>2. LinesInv /\ RunInv /\ SignalInv
  BY DEF RunInit, LinesInv, RunInv, SignalInv, Results
<1> QED BY <1>1, <1>2 DEF WorkerInv

\* Steps of the worker's thread that take nothing out of the queue.
LEMMA QuietStep ==
    ASSUME WorkerInv,
           \/ Prepare \/ CheckBeforeStart \/ StartProcess \/ ReadTimeout \/ AfterLoop
           \/ WaitProcess \/ Terminate \/ TerminateWait
           \/ EmitTerminalStatus \/ EmitFinished \/ ThreadExit
    PROVE  WorkerInv'
<1> USE DEF WorkerInv, processVars, mainVars, GoFinish
<1> USE DEF RunTypeOK, LinesInv, RunInv, SignalInv, Results
<1>1. CASE Prepare
  BY <1>1 DEF Prepare
<1>2. CASE CheckBeforeStart
  BY <1>2 DEF CheckBeforeStart
<1>3. CASE StartProcess
  <2>1. CASE process' = "running"
    BY <1>3, <2>1 DEF StartProcess
  <2>2. CASE process' # "running"
    BY <1>3, <2>2 DEF StartProcess
  <2> QED BY <2>1, <2>2
<1>4. CASE ReadTimeout
  BY <1>4 DEF ReadTimeout
<1>5. CASE AfterLoop
  BY <1>5 DEF AfterLoop
<1>6. CASE WaitProcess
  BY <1>6 DEF WaitProcess
<1>7. CASE Terminate
  BY <1>7 DEF Terminate
<1>8. CASE TerminateWait
  BY <1>8 DEF TerminateWait
<1>9. CASE EmitTerminalStatus
  BY <1>9 DEF EmitTerminalStatus, TerminalBadge
<1>10. CASE EmitFinished
  BY <1>10 DEF EmitFinished
<1>11. CASE ThreadExit
  BY <1>11 DEF ThreadExit
<1> QED BY <1>1, <1>2, <1>3, <1>4, <1>5, <1>6, <1>7, <1>8, <1>9, <1>10, <1>11

\* A turn of the loop: only the sentinel leaves an empty queue behind it.
LEMMA LoopStep ==
    ASSUME WorkerInv, ReadLine \/ ReadEof
    PROVE  WorkerInv'
<1> DEFINE n == Len(lines)
<1> USE DEF WorkerInv, mainVars
<1>1. /\ lines # <<>> /\ lines' = Tail(lines) /\ pc = "read"
      /\ UNCHANGED <<finished, process, signalled, rc, stdout, mainVars>>
  BY DEF ReadLine, ReadEof
<1>2. /\ lines' \in Seq({"line", "eof"})
      /\ n \in Nat /\ n >= 1
      /\ Head(lines) = lines[1]
      /\ Len(lines') = n - 1
      /\ \A i \in 1..(n - 1) : lines'[i] = lines[i + 1]
  BY <1>1, TakeLine
<1> HIDE DEF n
<1>3. ASSUME NEW i \in 1..Len(lines'), lines'[i] = "eof"
      PROVE  i = Len(lines') /\ ~stdout'
  <2>1. i + 1 \in 1..n /\ lines[i + 1] = "eof"
    BY <1>2, <1>3
  <2>2. i + 1 = n /\ ~stdout
    BY <2>1 DEF LinesInv, n
  <2> QED BY <2>2, <1>1, <1>2
<1>4. ASSUME Head(lines) = "line", ~stdout
      PROVE  lines' # <<>> /\ lines'[Len(lines')] = "eof"
  <2>1. lines[n] = "eof"
    BY <1>1, <1>4 DEF LinesInv, n
  <2>2. n > 1
    BY <2>1, <1>2, <1>4
  <2>3. n - 1 \in 1..(n - 1) /\ (n - 1) + 1 = n
    BY <2>2, <1>2
  <2> QED BY <2>1, <2>3, <1>2
<1>5. ASSUME Head(lines) = "eof"
      PROVE  lines' = <<>> /\ ~stdout
  <2>1. 1 \in 1..n /\ lines[1] = "eof"
    BY <1>2, <1>5
  <2>2. n = 1 /\ ~stdout
    BY <2>1 DEF LinesInv, n
  <2> QED BY <2>2, <1>2
<1>6. /\ badge' \in {badge, "Working"}
      /\ \/ pc' \in {"read", "drained"} /\ UNCHANGED <<result, raised>>
         \/ pc' = "finish" /\ result' = "Failed" /\ raised' = TRUE /\ ~cancelRequested
  BY DEF ReadLine, ReadEof, UpdateSpeedRaises, GoFinish
<1>7. pc' = "read" => Head(lines) = "line"
  BY DEF ReadLine, ReadEof, UpdateSpeedRaises, GoFinish
<1>8. pc' = "drained" => cancelRequested \/ Head(lines) = "eof"
  BY DEF ReadLine, ReadEof, UpdateSpeedRaises, GoFinish
<1>9. RunTypeOK'
  <2>1. raised' \in BOOLEAN /\ stdout' \in BOOLEAN /\ cancelRequested' \in BOOLEAN
    BY <1>1, <1>6 DEF RunTypeOK
  <2>2. pc' \in {"read", "drained", "finish"} /\ result' \in {"none"} \cup Results
    BY <1>6 DEF RunTypeOK, Results
  <2> QED BY <1>1, <1>2, <1>6, <2>1, <2>2 DEF RunTypeOK
<1>10. LinesInv'
  <2>1. process # "running" => ~stdout
    BY DEF LinesInv
  <2>2. process' \notin {"none", "created"}
    BY <1>1 DEF RunInv
  <2> QED BY <1>1, <1>3, <1>4, <1>7, <2>1, <2>2 DEF LinesInv
<1>11. RunInv'
  BY <1>1, <1>5, <1>6, <1>8 DEF RunInv, LinesInv, Results
<1>12. SignalInv'
  BY <1>1, <1>6 DEF SignalInv
<1> QED BY <1>9, <1>10, <1>11, <1>12

\* The main thread.
LEMMA MainStepKeeps ==
    ASSUME WorkerInv, RequestCancel \/ MainStep
    PROVE  WorkerInv'
<1> USE DEF WorkerInv, MainStep, runVars, processVars
<1>1. UNCHANGED <<runVars, process, rc, stdout, lines>> /\ (cancelRequested => cancelRequested')
  BY DEF RequestCancel, CancelTerminate, CancelTerminateWait, Announce, Join
<1>2. RunTypeOK'
  BY DEF RunTypeOK, RequestCancel, CancelTerminate, CancelTerminateWait, Announce, Join
<1>3. LinesInv' /\ RunInv'
  BY <1>1 DEF LinesInv, RunInv
<1>4. SignalInv'
  BY <1>1 DEF SignalInv, RunInv, RunTypeOK, RequestCancel, CancelTerminate, CancelTerminateWait,
              Announce, Join
<1> QED BY <1>2, <1>3, <1>4

\* The process and the thread that reads its output.
LEMMA ProcessStepKeeps ==
    ASSUME WorkerInv, ProcessStep
    PROVE  WorkerInv'
<1> USE DEF WorkerInv, runVars, mainVars
<1>1. /\ process = "running"
      /\ process' \in {"running", "exited"} /\ (process' = "exited" => ~stdout')
      /\ UNCHANGED <<signalled, runVars, mainVars>>
  BY DEF ProcessStep, ProcessWrites, ProcessCloses, ProcessExits
<1>2. \/ stdout /\ stdout' /\ lines' = Append(lines, "line")
      \/ stdout /\ ~stdout' /\ lines' = Append(lines, "eof")
      \/ ~stdout /\ ~stdout' /\ lines' = lines
  BY DEF ProcessStep, ProcessWrites, ProcessCloses, ProcessExits, RunTypeOK
<1>3. stdout => \A i \in 1..Len(lines) : lines[i] # "eof"
  BY DEF LinesInv
<1>4. Len(lines) \in Nat
  BY LenProperties DEF RunTypeOK
<1>5. RunTypeOK'
  <2>1. lines' \in Seq({"line", "eof"})
    BY <1>2, AppendLine DEF RunTypeOK
  <2>2. rc' \in {-1, 0, 1} /\ stdout' \in BOOLEAN
    BY DEF ProcessStep, ProcessWrites, ProcessCloses, ProcessExits, RunTypeOK
  <2> QED BY <1>1, <2>1, <2>2 DEF RunTypeOK
<1>6. LinesInv'
  <2>1. CASE stdout /\ stdout' /\ lines' = Append(lines, "line")
    <3>1. ASSUME NEW i \in 1..Len(lines')
          PROVE  lines'[i] # "eof"
      <4>1. i \in 1..Len(lines) \/ i = Len(lines) + 1
        BY <2>1, <1>4, AppendLine
      <4> QED BY <4>1, <2>1, <1>3, AppendLine
    <3> QED BY <3>1, <2>1, <1>1 DEF LinesInv
  <2>2. CASE stdout /\ ~stdout' /\ lines' = Append(lines, "eof")
    <3>1. ASSUME NEW i \in 1..Len(lines'), lines'[i] = "eof"
          PROVE  i = Len(lines')
      <4>1. i \in 1..Len(lines) \/ i = Len(lines) + 1
        BY <2>2, <1>4, AppendLine
      <4> QED BY <4>1, <2>2, <3>1, <1>3, <1>4, AppendLine
    <3>2. lines' # <<>> /\ lines'[Len(lines')] = "eof"
      BY <2>2, AppendLine
    <3> QED BY <3>1, <3>2, <2>2, <1>1 DEF LinesInv
  <2>3. CASE ~stdout /\ ~stdout' /\ lines' = lines
    BY <2>3, <1>1 DEF LinesInv
  <2> QED BY <2>1, <2>2, <2>3, <1>2
<1>7. RunInv'
  <2>1. ~stdout => lines' = lines /\ ~stdout'
    BY <1>2
  <2>2. result # "Completed"
    BY <1>1 DEF RunInv
  <2> QED BY <1>1, <2>1, <2>2 DEF RunInv
<1>8. SignalInv'
  <2>1. ~stdout => ~stdout'
    BY <1>2
  <2> QED BY <1>1, <2>1 DEF SignalInv
<1> QED BY <1>5, <1>6, <1>7, <1>8

LEMMA NextKeepsWorkerInv ==
    ASSUME WorkerInv, [RunNext]_workerVars
    PROVE  WorkerInv'
<1>1. CASE WorkerStep
  BY <1>1, QuietStep, LoopStep DEF WorkerStep
<1>2. CASE RequestCancel \/ MainStep
  BY <1>2, MainStepKeeps
<1>3. CASE ProcessStep
  BY <1>3, ProcessStepKeeps
<1>4. CASE UNCHANGED workerVars
  BY <1>4 DEF workerVars, WorkerInv, RunTypeOK, LinesInv, RunInv, SignalInv
<1> QED BY <1>1, <1>2, <1>3, <1>4 DEF RunNext

LEMMA WorkerInvariant == RunSpec => []WorkerInv
BY WorkerInit, NextKeepsWorkerInv, PTL DEF RunSpec

-----------------------------------------------------------------------------
(* What the controller relies on. *)

\* The badge Completed is only ever shown of a process that exited with 0 and
\* whose output was read to its end, for any number of lines it writes.
THEOREM CompletedIsTrue == RunSpec => []CompletedIsGenuine
<1>1. WorkerInv => CompletedIsGenuine
  BY DEF WorkerInv, RunInv, CompletedIsGenuine
<1> QED BY <1>1, WorkerInvariant, PTL

\* A run that has ended leaves no process at work that was not told to stop,
\* whenever the cancel came, but one that had closed its output or whose line
\* made the worker raise; after a cancel, not even those.
THEOREM NoProcessForgotten == RunSpec => []NoneForgotten
<1>1. WorkerInv => NoneForgotten
  BY DEF WorkerInv, RunInv, SignalInv, RunTypeOK, NoneForgotten, CancelLeavesNoProcess,
         OnlyClosedOutputIsAbandoned, Ended
<1> QED BY <1>1, WorkerInvariant, PTL

\* The worker implements the contract FlashController is modelled with: it
\* starts, is at work, and ends once, with a badge and a history result that
\* fit each other and the cancel flag.
THEOREM WorkerKeepsContract == RunSpec => ImplementsContract
<1>1. RunInit => Contract!Init
  BY DEF RunInit, Contract!Init, Contract!NoEnding
<1>2. ASSUME WorkerInv, [RunNext]_workerVars
      PROVE  [Contract!Next]_(Contract!contractVars)
  <2> USE DEF Contract!contractVars
  <2>1. CASE Prepare
    BY <2>1 DEF Prepare, GoFinish, mainVars, Contract!Next, Contract!Activate
  <2>2. CASE EmitTerminalStatus
    <3>1. [badge |-> badge', result |-> result'] \in Endings(cancelRequested)
      BY <1>2, <2>2
      DEF EmitTerminalStatus, TerminalBadge, WorkerInv, RunInv, RunTypeOK, Results, Endings
    <3>2. Contract!End
      BY <2>2, <3>1 DEF EmitTerminalStatus, mainVars, Contract!End, Contract!Endings, Endings
    <3> QED BY <3>2 DEF Contract!Next
  <2>3. CASE RequestCancel
    BY <2>3 DEF RequestCancel, runVars, Contract!Next, Contract!Cancel
  <2>4. CASE EmitFinished \/ ThreadExit
    BY <2>4 DEF EmitFinished, ThreadExit, mainVars
  <2>5. CASE /\ pc \notin {"prepare", "finish", "report", "exit", "done"}
             /\ pc' \notin {"prepare", "report", "exit", "done"}
             /\ UNCHANGED cancelRequested
    BY <2>5
  <2>6. CASE UNCHANGED <<runVars, cancelRequested>>
    BY <2>6 DEF runVars
  <2>7. CASE CheckBeforeStart \/ StartProcess \/ ReadLine \/ ReadEof \/ ReadTimeout \/ AfterLoop
                \/ WaitProcess \/ Terminate \/ TerminateWait
    BY <2>5, <2>7
    DEF CheckBeforeStart, StartProcess, ReadLine, ReadEof, ReadTimeout, AfterLoop, WaitProcess,
        Terminate, TerminateWait, UpdateSpeedRaises, GoFinish, mainVars
  <2>8. CASE MainStep
    BY <2>6, <2>8 DEF MainStep, CancelTerminate, CancelTerminateWait, Announce, Join
  <2>9. CASE ProcessStep \/ UNCHANGED workerVars
    BY <2>6, <2>9
    DEF ProcessStep, ProcessWrites, ProcessCloses, ProcessExits, mainVars, workerVars, runVars
  <2> QED
    BY <1>2, <2>1, <2>2, <2>3, <2>4, <2>7, <2>8, <2>9 DEF RunNext, WorkerStep
<1> QED
  BY <1>1, <1>2, WorkerInvariant, PTL DEF RunSpec, ImplementsContract, Contract!Spec
=============================================================================
