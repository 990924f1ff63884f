----------------------------- MODULE FlashJobs -----------------------------
(***************************************************************************)
(* What the batch scheduler promises, without queues, threads or signals:  *)
(* a device handed to it is pending or running until it is resolved, it is *)
(* resolved exactly once with one log entry, and a slot that becomes free  *)
(* goes to a pending device at once.  FlashController is shown to          *)
(* implement it.                                                           *)
(***************************************************************************)
EXTENDS Naturals, Sequences

CONSTANTS Devices, Results

VARIABLES pending, running, log

jobVars == <<pending, running, log>>

Init ==
    /\ pending = {}
    /\ running = {}
    /\ log = [d \in Devices |-> <<>>]

\* A set of idle devices is accepted; some start, the others wait.
Accept ==
    \E now, later \in SUBSET (Devices \ (pending \cup running)) :
        /\ now # {}
        /\ now \cap later = {}
        /\ running' = running \cup now
        /\ pending' = pending \cup later
        /\ UNCHANGED log

\* A running device is resolved; if any device is pending, exactly one takes
\* over the slot.
Resolve(d) ==
    /\ d \in running
    /\ \E r \in Results : log' = [log EXCEPT ![d] = Append(@, r)]
    /\ \/ /\ pending = {}
          /\ running' = running \ {d}
          /\ UNCHANGED pending
       \/ \E next \in pending :
             /\ pending' = pending \ {next}
             /\ running' = (running \ {d}) \cup {next}

\* Pending devices are given up without ever having run.
Withdraw ==
    \E out \in (SUBSET pending) \ {{}} :
        /\ pending' = pending \ out
        /\ \E r \in Results :
              log' = [d \in Devices |->
                         IF d \in out THEN Append(log[d], r) ELSE log[d]]
        /\ UNCHANGED running

Next == Accept \/ Withdraw \/ \E d \in Devices : Resolve(d)

Spec == Init /\ [][Next]_jobVars
=============================================================================
