------------------------ MODULE Provisioning_proofs ------------------------
(***************************************************************************)
(* Proofs about provisioning.  Provisioning, for any number of runs of a   *)
(* device: reports are true, burns come in order and none is forgotten.    *)
(* PortDialogs, for any devices and limits and any number of dialogs: the  *)
(* books of every batch controller balance, the dialog in front keeps off  *)
(* the ports being flashed, nothing is launched after a cancel, and each   *)
(* controller implements the pool of jobs.                                 *)
(***************************************************************************)
EXTENDS Provisioning, PortDialogs, SequenceTheorems, FiniteSetTheorems, TLAPS

\* Where a run has started no burn yet, and where it is between the two.
BeforeBurns == {"idle", "generate fe", "generate sb", "check before", "burn fe"}
BetweenBurns == {"check between", "burn sb"}

\* What a run has done by the time it is somewhere, and what it then leaves.
ProgressInv(r) ==
    /\ pc[r] = "idle" <=> r > started
    /\ pc[r] # "done" => report[r] = "none"
    /\ pc[r] \in BeforeBurns => spawned[r] = 0 /\ tool[r].fuse = "none" /\ tool[r].state = "none"
    /\ pc[r] \in BetweenBurns =>
          IF "fe" \in security.wanted
          THEN spawned[r] = 1 /\ tool[r].fuse = "fe" /\ tool[r].state = "ok"
          ELSE spawned[r] = 0 /\ tool[r].fuse = "none" /\ tool[r].state = "none"
    /\ pc[r] = "reading" => tool[r].state # "none" /\ (tool[r].fuse = "fe" => spawned[r] = 1)

\* Every key that is burned is one, and secure boot is never burned first.
BurnInv(r) ==
    /\ "fe" \in security.wanted /\ pc[r] \notin {"idle", "generate fe", "done"} =>
          keyFile["fe"] # 0
    /\ "sb" \in security.wanted /\ pc[r] \notin {"idle", "generate fe", "generate sb", "done"} =>
          keyFile["sb"] # 0
    /\ tool[r].state = "none" <=> tool[r].fuse = "none"
    /\ tool[r].state # "none" => tool[r].fuse \in security.wanted /\ tool[r].key \in 1..made
    /\ tool[r].state = "ok" => burned[tool[r].fuse] # 0
    /\ tool[r].fuse = "sb" /\ "fe" \in security.wanted => burned["fe"] # 0

\* What a run has reported, and what a cancel has still let it do.
ReportInv(r) ==
    /\ report[r] = "ok" => \A f \in security.wanted : burned[f] # 0
    /\ report[r] = "cancelled before" => spawned[r] = 0
    /\ report[r] = "cancelled after fe" /\ "fe" \in security.wanted =>
          burned["fe"] # 0 /\ tool[r].fuse = "fe"
    /\ report[r] # "none" /\ tool[r].state = "running" => tool[r].told \/ ~tool[r].output
    /\ ~cancel[r] => atCancel[r] = -1
    /\ atCancel[r] # -1 => atCancel[r] <= spawned[r] /\ spawned[r] <= atCancel[r] + 1
    /\ atCancel[r] # -1 /\ pc[r] = "burn sb" => atCancel[r] = spawned[r]

\* The keys themselves.
KeyInv ==
    /\ made \in Nat
    /\ ~security.generate => keyFile["fe"] # 0 /\ keyFile["sb"] # 0
    /\ "fe" \in security.wanted /\ burned["sb"] # 0 => burned["fe"] # 0

RunInv(r) == ProgressInv(r) /\ BurnInv(r) /\ ReportInv(r)

ProvisionInv == TypeOK /\ KeyInv /\ \A r \in Runs : RunInv(r)

-----------------------------------------------------------------------------

LEMMA CounterTypes ==
    ASSUME TypeOK
    PROVE  started \in Nat /\ started <= MaxRuns /\ current \in 0..started
<1>1. started \in 0..MaxRuns /\ current \in 0..started
  BY DEF TypeOK
<1> QED BY <1>1, ProvisioningAssumption

\* What the types say of one run, and of the counters.
LEMMA RunTypes ==
    ASSUME TypeOK, NEW r \in Runs
    PROVE  /\ r \in Nat /\ r > 0
           /\ security.wanted \subseteq Fuses
           /\ started \in Nat /\ started <= MaxRuns /\ current \in 0..started
           /\ tool[r].state \in {"none", "running", "ok", "bad"}
           /\ tool[r].fuse \in Fuses \cup {"none"}
           /\ tool[r].key \in Nat
           /\ tool[r].told \in BOOLEAN /\ tool[r].output \in BOOLEAN
           /\ spawned[r] \in {0, 1, 2} /\ atCancel[r] \in {-1, 0, 1, 2}
<1>1. r \in Nat /\ r > 0
  BY ProvisioningAssumption DEF Runs
<1>2. security.wanted \subseteq Fuses
  BY DEF TypeOK
<1>3. started \in 0..MaxRuns /\ current \in 0..started
  BY DEF TypeOK
<1>4. tool[r] \in [fuse : Fuses \cup {"none"}, output : BOOLEAN, told : BOOLEAN,
                  state : {"none", "running", "ok", "bad"}, key : Nat]
  BY DEF TypeOK
<1>5. spawned[r] \in 0..2 /\ atCancel[r] \in -1..2
  BY DEF TypeOK
<1> QED BY <1>1, <1>2, <1>3, <1>4, <1>5, ProvisioningAssumption

LEMMA InitProvision == Init => ProvisionInv
<1> SUFFICES ASSUME Init PROVE ProvisionInv
  OBVIOUS
<1>1. TypeOK
  <2>1. /\ security \in [wanted : SUBSET Fuses, generate : BOOLEAN, vault : BOOLEAN]
        /\ current \in 0..started /\ started \in 0..MaxRuns
        /\ report \in [Runs -> Reports]
    BY ProvisioningAssumption DEF Init, Reports
  <2>2. tool \in [Runs -> [fuse : Fuses \cup {"none"}, output : BOOLEAN, told : BOOLEAN,
                          state : {"none", "running", "ok", "bad"}, key : Nat]]
    BY DEF Init, NoTool
  <2>3. /\ keyFile \in [Fuses -> 0..made] /\ vault \in [Fuses -> 0..made]
        /\ burned \in [Fuses -> 0..made]
    BY DEF Init, Fuses
  <2>4. spawned \in [Runs -> 0..2] /\ atCancel \in [Runs -> -1..2]
    BY DEF Init
  <2> QED BY <2>1, <2>2, <2>3, <2>4 DEF Init, TypeOK
<1>2. KeyInv
  BY DEF Init, KeyInv, Fuses
<1>3. ASSUME NEW r \in Runs PROVE RunInv(r)
  <2>1. r \in Nat /\ r > 0
    BY ProvisioningAssumption DEF Runs
  <2> QED BY <2>1
    DEF Init, RunInv, ProgressInv, BurnInv, ReportInv, NoTool, BeforeBurns, BetweenBurns
<1> QED BY <1>1, <1>2, <1>3 DEF ProvisionInv

\* A step that does not concern a run leaves what is known of it, as long as
\* no key is lost.
LEMMA RunKept ==
    ASSUME NEW r \in Runs, RunInv(r), TypeOK, KeyInv,
           security' = security, made' \in Nat, made' >= made,
           \A f \in Fuses : (keyFile[f] # 0 => keyFile'[f] # 0) /\ (burned[f] # 0 => burned'[f] # 0),
           r > started' <=> r > started,
           UNCHANGED <<pc[r], cancel[r], tool[r], report[r], spawned[r], atCancel[r]>>
    PROVE  RunInv(r)'
<1>1. ProgressInv(r)'
  BY DEF RunInv, ProgressInv
<1>2. BurnInv(r)'
  <2>1. /\ keyFile["fe"] # 0 => keyFile'["fe"] # 0
        /\ keyFile["sb"] # 0 => keyFile'["sb"] # 0
        /\ burned["fe"] # 0 => burned'["fe"] # 0
    BY DEF Fuses
  <2>2. tool[r].state = "ok" => burned'[tool[r].fuse] # 0
    BY RunTypes DEF RunInv, BurnInv
  <2>3. tool[r].key \in 1..made => tool[r].key \in 1..made'
    BY DEF KeyInv
  <2>4. pc'[r] = pc[r] /\ tool'[r] = tool[r]
    OBVIOUS
  <2> QED BY <2>1, <2>2, <2>3, <2>4 DEF RunInv, BurnInv
<1>3. ReportInv(r)'
  BY RunTypes DEF RunInv, ReportInv, Fuses
<1> QED BY <1>1, <1>2, <1>3 DEF RunInv

\* A step of one run: what is to be shown of it.
LEMMA OneRunStep ==
    ASSUME ProvisionInv, NEW q \in Runs,
           TypeOK', KeyInv', RunInv(q)',
           security' = security, started' = started, made' >= made,
           \A f \in Fuses : (keyFile[f] # 0 => keyFile'[f] # 0) /\ (burned[f] # 0 => burned'[f] # 0),
           \A r \in Runs \ {q} :
              UNCHANGED <<pc[r], cancel[r], tool[r], report[r], spawned[r], atCancel[r]>>
    PROVE  ProvisionInv'
<1>1. ASSUME NEW r \in Runs, r # q PROVE RunInv(r)'
  <2>1. RunInv(r) /\ TypeOK /\ KeyInv
    BY DEF ProvisionInv
  <2>2. UNCHANGED <<pc[r], cancel[r], tool[r], report[r], spawned[r], atCancel[r]>>
    BY <1>1
  <2>3. made' \in Nat
    BY DEF KeyInv
  <2> QED BY <2>1, <2>2, <2>3, RunKept
<1> QED BY <1>1 DEF ProvisionInv

\* Steps that change nothing but which dialog is open.
LEMMA WindowStep ==
    ASSUME ProvisionInv, open' \in BOOLEAN, current' \in 0..started,
           UNCHANGED <<security, started, pc, cancel, tool, report, keyFile, vault, made, burned,
                       spawned, atCancel>>
    PROVE  ProvisionInv'
<1>1. TypeOK'
  BY DEF ProvisionInv, TypeOK
<1>2. KeyInv'
  BY DEF ProvisionInv, KeyInv
<1>3. ASSUME NEW r \in Runs PROVE RunInv(r)'
  <2>1. RunInv(r) /\ TypeOK /\ KeyInv /\ made \in Nat
    BY DEF ProvisionInv, KeyInv
  <2> QED BY <2>1, RunKept
<1> QED BY <1>1, <1>2, <1>3 DEF ProvisionInv

LEMMA StartStep ==
    ASSUME ProvisionInv, Start, NEW q \in Runs, q = started + 1
    PROVE  ProvisionInv'
<1>1. TypeOK /\ KeyInv /\ started \in Nat
  BY CounterTypes DEF ProvisionInv
<1>a. q \in Nat /\ q > started /\ q <= MaxRuns /\ q \in 0..MaxRuns
  BY <1>1, ProvisioningAssumption DEF Runs
<1>2. /\ open' = open /\ current' = q /\ started' = q
      /\ pc' = [pc EXCEPT ![q] = "generate fe"]
      /\ UNCHANGED <<security, cancel, tool, report, keyFile, vault, made, burned, spawned, atCancel>>
  BY DEF Start, keyVars
<1>3. started' \in 0..MaxRuns /\ current' \in 0..started'
  <2>1. q \in 0..q
    BY <1>a
  <2> QED BY <1>a, <1>2, <2>1
<1>4. pc' \in [Runs -> {"idle", "generate fe", "generate sb", "check before", "burn fe",
                        "check between", "burn sb", "reading", "done"}]
  BY <1>1, <1>2 DEF TypeOK
<1>5. TypeOK'
  BY <1>1, <1>2, <1>3, <1>4 DEF TypeOK
<1>6. KeyInv'
  BY <1>1, <1>2 DEF KeyInv
<1>7. RunInv(q)'
  <2>1. RunInv(q) /\ pc[q] = "idle"
    BY <1>a DEF ProvisionInv, RunInv, ProgressInv
  <2>2. pc'[q] = "generate fe" /\ ~(q > started')
    <3>1. pc'[q] = "generate fe"
      BY <1>1, <1>2 DEF TypeOK
    <3>2. ~(q > started')
      <4>1. ~(q > q)
        BY <1>a
      <4>2. started' = q
        BY <1>2
      <4> QED BY <4>1, <4>2
    <3> QED BY <3>1, <3>2
  <2> QED BY <1>2, <2>1, <2>2
    DEF RunInv, ProgressInv, BurnInv, ReportInv, BeforeBurns, BetweenBurns
<1>8. ASSUME NEW r \in Runs, r # q PROVE RunInv(r)'
  <2>1. r > started' <=> r > started
    <3>1. r \in Nat
      BY ProvisioningAssumption DEF Runs
    <3>2. r > q <=> r > started
      BY <3>1, <1>1, <1>8
    <3> QED BY <3>2, <1>2
  <2>2. UNCHANGED <<pc[r], cancel[r], tool[r], report[r], spawned[r], atCancel[r]>>
    BY <1>1, <1>2, <1>8 DEF TypeOK
  <2>3. RunInv(r) /\ made \in Nat
    BY DEF ProvisionInv, KeyInv
  <2>4. made' \in Nat /\ made' >= made
    <3>1. made' = made
      BY <1>2
    <3> QED BY <2>3, <3>1
  <2> QED BY <1>1, <1>2, <2>1, <2>2, <2>3, <2>4, RunKept
<1> QED BY <1>5, <1>6, <1>7, <1>8 DEF ProvisionInv

\* A cancel, from the window that is closed over a run.
LEMMA CancelStep ==
    ASSUME ProvisionInv, NEW q \in Runs, RequestCancel(q), open' = FALSE,
           UNCHANGED <<security, current, started, pc, report, keyVars, burned, spawned>>
    PROVE  ProvisionInv'
<1>1. TypeOK /\ KeyInv /\ RunInv(q)
  BY DEF ProvisionInv
<1>2. tool' \in [Runs -> [fuse : Fuses \cup {"none"}, output : BOOLEAN, told : BOOLEAN,
                          state : {"none", "running", "ok", "bad"}, key : Nat]]
  <2>1. tool' = [tool EXCEPT ![q].told = tool[q].told \/ tool[q].state = "running"]
    BY DEF RequestCancel
  <2>2. (tool[q].told \/ tool[q].state = "running") \in BOOLEAN
    OBVIOUS
  <2>3. tool \in [Runs -> [fuse : Fuses \cup {"none"}, output : BOOLEAN, told : BOOLEAN,
                           state : {"none", "running", "ok", "bad"}, key : Nat]]
    BY <1>1 DEF TypeOK
  <2> QED BY <2>1, <2>2, <2>3
<1>3. /\ tool'[q].fuse = tool[q].fuse /\ tool'[q].state = tool[q].state
      /\ tool'[q].key = tool[q].key /\ tool'[q].output = tool[q].output
      /\ tool[q].told => tool'[q].told
  BY <1>1 DEF RequestCancel, TypeOK
<1>4. cancel'[q] /\ atCancel'[q] = IF atCancel[q] = -1 THEN spawned[q] ELSE atCancel[q]
  BY <1>1 DEF RequestCancel, TypeOK
<1>5. cancel' \in [Runs -> BOOLEAN] /\ atCancel' \in [Runs -> -1..2]
  <2>1. spawned[q] \in -1..2
    BY <1>1, RunTypes
  <2> QED BY <1>1, <2>1 DEF RequestCancel, TypeOK
<1>6. TypeOK'
  BY <1>1, <1>2, <1>5 DEF TypeOK, keyVars
<1>7. KeyInv'
  BY <1>1 DEF KeyInv, keyVars
<1>8. RunInv(q)'
  <2>1. pc'[q] = pc[q] /\ report'[q] = report[q] /\ spawned'[q] = spawned[q]
    OBVIOUS
  <2>2. ProgressInv(q)'
    BY <1>1, <1>3, <2>1 DEF RunInv, ProgressInv
  <2>3. BurnInv(q)'
    BY <1>1, <1>3, <2>1 DEF RunInv, BurnInv, keyVars
  <2>4. ReportInv(q)'
    <3>1. spawned[q] \in {0, 1, 2} /\ atCancel[q] \in {-1, 0, 1, 2}
      BY <1>1, RunTypes
    <3>2. pc[q] = "burn sb" => atCancel[q] = -1 \/ atCancel[q] = spawned[q]
      BY <1>1 DEF RunInv, ReportInv
    <3>3. atCancel[q] = -1 \/ (atCancel[q] <= spawned[q] /\ spawned[q] <= atCancel[q] + 1)
      BY <1>1 DEF RunInv, ReportInv
    <3>4. /\ atCancel'[q] # -1 /\ atCancel'[q] <= spawned'[q] /\ spawned'[q] <= atCancel'[q] + 1
          /\ pc'[q] = "burn sb" => atCancel'[q] = spawned'[q]
      <4>1. /\ atCancel'[q] = IF atCancel[q] = -1 THEN spawned[q] ELSE atCancel[q]
            /\ spawned'[q] = spawned[q] /\ pc'[q] = pc[q]
        BY <1>4, <2>1
      <4>2. CASE atCancel[q] = -1
        BY <4>1, <4>2, <3>1
      <4>3. CASE atCancel[q] # -1
        BY <4>1, <4>3, <3>1, <3>2, <3>3
      <4> QED BY <4>2, <4>3
    <3>5. security' = security /\ burned' = burned
      OBVIOUS
    <3> QED BY <1>1, <1>3, <1>4, <2>1, <3>4, <3>5 DEF RunInv, ReportInv
  <2> QED BY <2>2, <2>3, <2>4 DEF RunInv
<1>9. \A r \in Runs \ {q} :
         UNCHANGED <<pc[r], cancel[r], tool[r], report[r], spawned[r], atCancel[r]>>
  BY <1>1 DEF RequestCancel, TypeOK
<1>10. made' >= made /\ keyFile' = keyFile
  BY <1>1 DEF KeyInv, keyVars
<1> QED BY <1>6, <1>7, <1>8, <1>9, <1>10, OneRunStep

LEMMA DialogStep ==
    ASSUME ProvisionInv, OpenDialog \/ Start \/ CloseDialog \/ RejectDialog
    PROVE  ProvisionInv'
<1>1. started \in Nat /\ current \in 0..started /\ started <= MaxRuns
  BY CounterTypes DEF ProvisionInv
<1>2. CASE OpenDialog
  <2>1. current' \in 0..started
    BY <1>1, <1>2 DEF OpenDialog
  <2> QED BY <1>2, <2>1, WindowStep DEF OpenDialog, keyVars
<1>3. CASE RejectDialog
  <2>1. current' \in 0..started
    BY <1>1, <1>3 DEF RejectDialog
  <2> QED BY <1>3, <2>1, WindowStep DEF RejectDialog, keyVars
<1>4. CASE CloseDialog /\ ~(current # 0 /\ Alive(current))
  <2>1. current' \in 0..started
    BY <1>1, <1>4 DEF CloseDialog
  <2> QED BY <1>4, <2>1, WindowStep DEF CloseDialog, keyVars
<1>5. CASE CloseDialog /\ current # 0 /\ Alive(current)
  <2>1. PICK q \in Runs : q = current
    BY <1>1, <1>5, ProvisioningAssumption DEF Runs
  <2>2. RequestCancel(q) /\ open' = FALSE
    BY <1>5, <2>1 DEF CloseDialog
  <2>3. UNCHANGED <<security, current, started, pc, report, keyVars, burned, spawned>>
    BY <1>5 DEF CloseDialog
  <2> QED BY <2>2, <2>3, CancelStep
<1>6. CASE Start
  <2>1. PICK q \in Runs : q = started + 1
    <3>1. started < MaxRuns
      BY <1>6 DEF Start
    <3>2. started + 1 \in Runs
      BY <1>1, <3>1, ProvisioningAssumption DEF Runs
    <3> QED BY <3>2
  <2> QED BY <1>6, <2>1, StartStep
<1> QED BY <1>2, <1>3, <1>4, <1>5, <1>6

-----------------------------------------------------------------------------
(* The steps of a worker. *)

PcStates == {"idle", "generate fe", "generate sb", "check before", "burn fe",
             "check between", "burn sb", "reading", "done"}
ToolType == [fuse : Fuses \cup {"none"}, output : BOOLEAN, told : BOOLEAN,
             state : {"none", "running", "ok", "bad"}, key : Nat]

LEMMA FunctionTypes ==
    ASSUME TypeOK
    PROVE  /\ pc \in [Runs -> PcStates] /\ cancel \in [Runs -> BOOLEAN]
           /\ tool \in [Runs -> ToolType] /\ report \in [Runs -> Reports]
           /\ spawned \in [Runs -> 0..2] /\ atCancel \in [Runs -> -1..2]
BY DEF TypeOK, PcStates, ToolType

\* A step that moves one run's control and leaves keys, eFuses, flags and
\* counts alone.
LEMMA ControlStep ==
    ASSUME ProvisionInv, NEW q \in Runs, RunInv(q)',
           pc' \in [Runs -> PcStates], report' \in [Runs -> Reports], tool' \in [Runs -> ToolType],
           \A r \in Runs \ {q} :
              pc'[r] = pc[r] /\ report'[r] = report[r] /\ tool'[r] = tool[r],
           UNCHANGED <<windowVars, cancel, keyVars, burned, spawned, atCancel>>
    PROVE  ProvisionInv'
<1>1. TypeOK /\ KeyInv /\ made \in Nat
  BY DEF ProvisionInv, KeyInv
<1>2. UNCHANGED <<security, open, current, started, cancel, keyFile, vault, made, burned,
                  spawned, atCancel>>
  BY DEF windowVars, keyVars
<1>3. TypeOK'
  BY <1>1, <1>2 DEF TypeOK, PcStates, ToolType
<1>4. KeyInv'
  BY <1>1, <1>2 DEF KeyInv
<1>5. made' >= made
  <2>1. made' = made
    BY <1>2
  <2> QED BY <1>1, <2>1
<1> QED BY <1>2, <1>3, <1>4, <1>5, OneRunStep

\* A run that ends, with a report that is true of what it did.
LEMMA FinishStep ==
    ASSUME ProvisionInv, NEW q \in Runs, NEW what \in Reports \ {"none"}, Finish(q, what),
           pc[q] \notin {"idle", "done"},
           what = "ok" => \A f \in security.wanted : burned[f] # 0,
           what = "cancelled before" => spawned[q] = 0,
           what = "cancelled after fe" /\ "fe" \in security.wanted =>
              burned["fe"] # 0 /\ tool[q].fuse = "fe",
           tool' \in [Runs -> ToolType],
           \A r \in Runs \ {q} : tool'[r] = tool[r],
           /\ tool'[q].fuse = tool[q].fuse /\ tool'[q].state = tool[q].state
           /\ tool'[q].key = tool[q].key /\ tool'[q].output = tool[q].output,
           tool'[q].state = "running" => tool'[q].told \/ ~tool'[q].output,
           UNCHANGED <<windowVars, cancel, keyVars, burned, spawned, atCancel>>
    PROVE  ProvisionInv'
<1>1. TypeOK /\ RunInv(q)
  BY DEF ProvisionInv
<1>2. pc' \in [Runs -> PcStates] /\ report' \in [Runs -> Reports]
  <2>1. "done" \in PcStates
    BY DEF PcStates
  <2> QED BY <1>1, <2>1, FunctionTypes DEF Finish
<1>3. /\ pc'[q] = "done" /\ report'[q] = what
      /\ \A r \in Runs \ {q} : pc'[r] = pc[r] /\ report'[r] = report[r]
  BY <1>1, FunctionTypes DEF Finish
<1>4. UNCHANGED <<security, started, cancel, keyFile, made, burned, spawned, atCancel>>
  BY DEF windowVars, keyVars
<1>5. RunInv(q)'
  <2>1. ProgressInv(q)'
    BY <1>1, <1>3, <1>4 DEF RunInv, ProgressInv, BeforeBurns, BetweenBurns
  <2>2. BurnInv(q)'
    BY <1>1, <1>3, <1>4 DEF RunInv, BurnInv
  <2>3. ReportInv(q)'
    BY <1>1, <1>3, <1>4 DEF RunInv, ReportInv
  <2> QED BY <2>1, <2>2, <2>3 DEF RunInv
<1> QED BY <1>2, <1>3, <1>5, ControlStep

\* A run that goes on.
LEMMA PassStep ==
    ASSUME ProvisionInv, NEW q \in Runs, NEW next \in PcStates \ {"idle", "done", "reading"},
           pc' = [pc EXCEPT ![q] = next], pc[q] \notin {"idle", "done"},
           next \in BeforeBurns => pc[q] \in BeforeBurns,
           next \in BetweenBurns =>
              IF "fe" \in security.wanted
              THEN spawned[q] = 1 /\ tool[q].fuse = "fe" /\ tool[q].state = "ok"
              ELSE spawned[q] = 0 /\ tool[q].fuse = "none" /\ tool[q].state = "none",
           "fe" \in security.wanted /\ next # "generate fe" => keyFile["fe"] # 0,
           "sb" \in security.wanted /\ next \notin {"generate fe", "generate sb"} => keyFile["sb"] # 0,
           next = "burn sb" => atCancel[q] = -1 \/ atCancel[q] = spawned[q],
           UNCHANGED <<windowVars, cancel, tool, report, keyVars, burned, spawned, atCancel>>
    PROVE  ProvisionInv'
<1>1. TypeOK /\ RunInv(q)
  BY DEF ProvisionInv
<1>2. pc' \in [Runs -> PcStates] /\ report' \in [Runs -> Reports] /\ tool' \in [Runs -> ToolType]
  BY <1>1, FunctionTypes
<1>3. pc'[q] = next /\ \A r \in Runs \ {q} : pc'[r] = pc[r]
  BY <1>1, FunctionTypes
<1>4. UNCHANGED <<security, started, cancel, tool, report, keyFile, made, burned, spawned, atCancel>>
  BY DEF windowVars, keyVars
<1>5. RunInv(q)'
  <2>1. ProgressInv(q)'
    BY <1>1, <1>3, <1>4 DEF RunInv, ProgressInv, BeforeBurns, BetweenBurns
  <2>2. BurnInv(q)'
    BY <1>1, <1>3, <1>4 DEF RunInv, BurnInv
  <2>3. ReportInv(q)'
    BY <1>1, <1>3, <1>4 DEF RunInv, ReportInv
  <2> QED BY <2>1, <2>2, <2>3 DEF RunInv
<1> QED BY <1>2, <1>3, <1>4, <1>5, ControlStep

\* A key is generated over whatever the file held.
LEMMA GenerateStep ==
    ASSUME ProvisionInv, NEW q \in Runs, NEW f \in Fuses, NEW here, NEW next,
           GenerateKey(q, f, here, next),
           \/ f = "fe" /\ here = "generate fe" /\ next = "generate sb"
           \/ f = "sb" /\ here = "generate sb" /\ next = "check before"
    PROVE  ProvisionInv'
<1>1. TypeOK /\ KeyInv /\ RunInv(q) /\ made \in Nat /\ pc[q] = here
  BY DEF ProvisionInv, KeyInv, GenerateKey
<1>2. next \in PcStates \ {"idle", "done", "reading"} /\ pc[q] \notin {"idle", "done"}
      /\ pc[q] \in BeforeBurns /\ next \notin BetweenBurns
  BY <1>1 DEF PcStates, BeforeBurns, BetweenBurns
<1>3. CASE ~(security.generate /\ f \in security.wanted)
  <2>1. /\ pc' = [pc EXCEPT ![q] = next]
        /\ UNCHANGED <<windowVars, cancel, tool, report, keyVars, burned, spawned, atCancel>>
    BY <1>3 DEF GenerateKey
  <2>2. /\ "fe" \in security.wanted /\ next # "generate fe" => keyFile["fe"] # 0
        /\ "sb" \in security.wanted /\ next \notin {"generate fe", "generate sb"} => keyFile["sb"] # 0
    BY <1>1, <1>3 DEF KeyInv, RunInv, BurnInv
  <2> QED BY <1>2, <2>1, <2>2, PassStep
<1>4. CASE security.generate /\ f \in security.wanted /\ Finish(q, "failed") /\ UNCHANGED keyVars
  <2>1. UNCHANGED <<windowVars, cancel, tool, keyVars, burned, spawned, atCancel>>
    BY <1>4 DEF GenerateKey
  <2>2. tool[q].state = "none"
    BY <1>1, <1>2 DEF RunInv, ProgressInv
  <2>3. "failed" \in Reports \ {"none"}
    BY DEF Reports
  <2> QED BY <1>1, <1>2, <1>4, <2>1, <2>2, <2>3, FinishStep, FunctionTypes
<1>5. CASE /\ made' = made + 1 /\ keyFile' = [keyFile EXCEPT ![f] = made + 1]
           /\ vault' \in {vault} \cup
                 (IF security.vault THEN {[vault EXCEPT ![f] = made + 1]} ELSE {})
           /\ pc' = [pc EXCEPT ![q] = next] /\ UNCHANGED report
  <2>1. UNCHANGED <<security, open, current, started, cancel, tool, report, burned, spawned, atCancel>>
    BY <1>5 DEF GenerateKey, windowVars
  <2>2. made' \in Nat /\ made' >= made /\ made' # 0 /\ made' \in 0..made' /\ 0..made \subseteq 0..made'
    <3>1. made' = made + 1
      BY <1>5
    <3>2. made \in Nat
      BY <1>1
    <3>3. made + 1 \in Nat /\ made + 1 >= made /\ made + 1 # 0
      BY ONLY <3>2
    <3>4. made + 1 \in 0..(made + 1) /\ 0..made \subseteq 0..(made + 1)
      BY ONLY <3>2
    <3> QED BY <3>1, <3>3, <3>4
  <2>3. /\ keyFile \in [Fuses -> 0..made] /\ vault \in [Fuses -> 0..made]
        /\ burned \in [Fuses -> 0..made]
    BY <1>1 DEF TypeOK
  <2>4. keyFile' = [keyFile EXCEPT ![f] = made']
    BY <1>5
  <2>5. vault' = vault \/ vault' = [vault EXCEPT ![f] = made']
    BY <1>5
  <2>6. keyFile' \in [Fuses -> 0..made'] /\ burned' \in [Fuses -> 0..made']
    BY <2>1, <2>2, <2>3, <2>4
  <2>7. vault' \in [Fuses -> 0..made']
    BY <2>2, <2>3, <2>5
  <2>8. pc' \in [Runs -> PcStates] /\ pc'[q] = next /\ \A r \in Runs \ {q} : pc'[r] = pc[r]
    BY <1>1, <1>2, <1>5, FunctionTypes
  <2>9. TypeOK'
    BY <1>1, <2>1, <2>6, <2>7, <2>8 DEF TypeOK, PcStates
  <2>10. \A k \in Fuses : (keyFile[k] # 0 => keyFile'[k] # 0) /\ (k = f => keyFile'[k] # 0)
    BY <2>2, <2>3, <2>4
  <2>11. KeyInv'
    BY <1>1, <2>1, <2>2, <2>10 DEF KeyInv, Fuses
  <2>12. RunInv(q)'
    <3>1. ProgressInv(q)'
      BY <1>1, <1>2, <2>1, <2>8 DEF RunInv, ProgressInv, BeforeBurns, BetweenBurns
    <3>2. BurnInv(q)'
      <4>1. /\ keyFile["fe"] # 0 => keyFile'["fe"] # 0
            /\ "fe" = f => keyFile'["fe"] # 0
            /\ "sb" = f => keyFile'["sb"] # 0
        BY <2>10 DEF Fuses
      <4>2. tool[q].state = "none"
        BY <1>1, <1>2 DEF RunInv, ProgressInv
      <4>3. /\ security' = security /\ burned' = burned /\ tool'[q] = tool[q] /\ pc'[q] = next
        BY <2>1, <2>8
      <4>4. BurnInv(q) /\ pc[q] = here /\ pc[q] \notin {"idle", "done"}
        BY <1>1, <1>2 DEF RunInv
      <4>5. /\ "fe" \in security.wanted => keyFile'["fe"] # 0
            /\ "sb" \in security.wanted /\ next # "generate sb" => keyFile'["sb"] # 0
        BY <4>1, <4>4 DEF BurnInv
      <4> QED BY <4>2, <4>3, <4>4, <4>5 DEF BurnInv
    <3>3. ReportInv(q)'
      BY <1>1, <1>2, <2>1, <2>8 DEF RunInv, ReportInv
    <3> QED BY <3>1, <3>2, <3>3 DEF RunInv
  <2> QED BY <2>1, <2>2, <2>8, <2>9, <2>10, <2>11, <2>12, OneRunStep
<1> QED BY <1>3, <1>4, <1>5 DEF GenerateKey

LEMMA CheckStep ==
    ASSUME ProvisionInv, NEW q \in Runs, CheckBefore(q) \/ CheckBetween(q)
    PROVE  ProvisionInv'
<1>1. TypeOK /\ KeyInv /\ RunInv(q)
  BY DEF ProvisionInv
<1>2. PICK here \in {"check before", "check between"} :
        Check(q, here, IF here = "check before" THEN "burn fe" ELSE "burn sb",
              IF here = "check before" THEN "cancelled before" ELSE "cancelled after fe")
  BY DEF CheckBefore, CheckBetween
<1>3. pc[q] = here /\ UNCHANGED <<windowVars, cancel, tool, keyVars, burned, spawned, atCancel>>
  BY <1>2 DEF Check
<1>4. tool[q].state \in {"none", "ok"}
  BY <1>1, <1>3 DEF RunInv, ProgressInv, BeforeBurns, BetweenBurns
<1>5. CASE here = "check before" /\ Finish(q, "cancelled before")
  <2>1. spawned[q] = 0 /\ "cancelled before" \in Reports \ {"none"}
    BY <1>1, <1>3, <1>5 DEF RunInv, ProgressInv, BeforeBurns, Reports
  <2> QED BY <1>1, <1>3, <1>4, <1>5, <2>1, FinishStep, FunctionTypes
<1>6. CASE here = "check between" /\ Finish(q, "cancelled after fe")
  <2>1. "cancelled after fe" \in Reports \ {"none"}
    BY DEF Reports
  <2>2. "fe" \in security.wanted => burned["fe"] # 0 /\ tool[q].fuse = "fe"
    BY <1>1, <1>3, <1>6 DEF RunInv, ProgressInv, BurnInv, BetweenBurns
  <2> QED BY <1>1, <1>3, <1>4, <1>6, <2>1, <2>2, FinishStep, FunctionTypes
<1>7. CASE here = "check before" /\ pc' = [pc EXCEPT ![q] = "burn fe"] /\ UNCHANGED report
  <2>1. "burn fe" \in PcStates \ {"idle", "done", "reading"} /\ pc[q] \in BeforeBurns
        /\ "burn fe" \notin BetweenBurns
    BY <1>3, <1>7 DEF PcStates, BeforeBurns, BetweenBurns
  <2>2. /\ "fe" \in security.wanted => keyFile["fe"] # 0
        /\ "sb" \in security.wanted => keyFile["sb"] # 0
    BY <1>1, <1>3, <1>7 DEF RunInv, BurnInv
  <2> QED BY <1>3, <1>7, <2>1, <2>2, PassStep
<1>8. CASE /\ here = "check between" /\ pc' = [pc EXCEPT ![q] = "burn sb"] /\ UNCHANGED report
           /\ ~cancel[q]
  <2>1. "burn sb" \in PcStates \ {"idle", "done", "reading"} /\ "burn sb" \notin BeforeBurns
    BY DEF PcStates, BeforeBurns
  <2>2. /\ "fe" \in security.wanted => keyFile["fe"] # 0
        /\ "sb" \in security.wanted => keyFile["sb"] # 0
    BY <1>1, <1>3, <1>8 DEF RunInv, BurnInv
  <2>3. IF "fe" \in security.wanted
        THEN spawned[q] = 1 /\ tool[q].fuse = "fe" /\ tool[q].state = "ok"
        ELSE spawned[q] = 0 /\ tool[q].fuse = "none" /\ tool[q].state = "none"
    BY <1>1, <1>3, <1>8 DEF RunInv, ProgressInv, BetweenBurns
  <2>4. atCancel[q] = -1
    BY <1>1, <1>8 DEF RunInv, ReportInv
  <2> QED BY <1>3, <1>8, <2>1, <2>2, <2>3, <2>4, PassStep
<1> QED BY <1>2, <1>5, <1>6, <1>7, <1>8 DEF Check

\* espefuse is started for a fuse: the run reads the key file, and counts.
LEMMA SpawnStep ==
    ASSUME ProvisionInv, NEW q \in Runs, NEW f \in Fuses, f \in security.wanted,
           \/ f = "fe" /\ pc[q] = "burn fe"
           \/ f = "sb" /\ pc[q] = "burn sb",
           tool' = [tool EXCEPT ![q] =
              [fuse |-> f, state |-> "running", output |-> TRUE, told |-> FALSE, key |-> keyFile[f]]],
           spawned' = [spawned EXCEPT ![q] = spawned[q] + 1],
           pc' = [pc EXCEPT ![q] = "reading"],
           UNCHANGED <<windowVars, cancel, report, keyVars, burned, atCancel>>
    PROVE  ProvisionInv'
<1>1. TypeOK /\ KeyInv /\ RunInv(q)
  BY DEF ProvisionInv
<1>2. UNCHANGED <<security, open, current, started, cancel, report, keyFile, vault, made, burned,
                  atCancel>>
  BY DEF windowVars, keyVars
<1>3. made \in Nat /\ made' = made
  BY <1>1, <1>2 DEF KeyInv
<1>4. keyFile[f] \in 1..made
  <2>1. keyFile[f] \in 0..made
    BY <1>1 DEF TypeOK
  <2>2. keyFile[f] # 0
    BY <1>1 DEF RunInv, BurnInv
  <2> QED BY ONLY <1>3, <2>1, <2>2
<1>5. /\ pc' \in [Runs -> PcStates] /\ pc'[q] = "reading"
      /\ \A r \in Runs \ {q} : pc'[r] = pc[r]
  BY <1>1, FunctionTypes DEF PcStates
<1>6. /\ tool' \in [Runs -> ToolType]
      /\ tool'[q] = [fuse |-> f, state |-> "running", output |-> TRUE, told |-> FALSE,
                     key |-> keyFile[f]]
      /\ \A r \in Runs \ {q} : tool'[r] = tool[r]
  <2>1. keyFile[f] \in Nat
    BY ONLY <1>3, <1>4
  <2> QED BY <1>1, <2>1, FunctionTypes DEF ToolType
<1>7. /\ f = "fe" => spawned[q] = 0
      /\ f = "sb" => spawned[q] \in {0, 1}
      /\ f = "sb" => atCancel[q] = -1 \/ atCancel[q] = spawned[q]
  BY <1>1 DEF RunInv, ProgressInv, ReportInv, BeforeBurns, BetweenBurns
<1>8. /\ spawned' \in [Runs -> 0..2] /\ spawned'[q] = spawned[q] + 1
      /\ \A r \in Runs \ {q} : spawned'[r] = spawned[r]
  <2>1. spawned[q] \in {0, 1}
    BY <1>7
  <2>2. spawned[q] + 1 \in 0..2
    BY ONLY <2>1
  <2> QED BY <1>1, <2>2, FunctionTypes
<1>9. TypeOK'
  BY <1>1, <1>2, <1>5, <1>6, <1>8 DEF TypeOK, PcStates, ToolType
<1>10. KeyInv'
  BY <1>1, <1>2 DEF KeyInv
<1>11. RunInv(q)'
  <2>1. ProgressInv(q)'
    <3>1. f = "fe" => spawned'[q] = 1
      BY ONLY <1>7, <1>8
    <3>2. "reading" \notin BeforeBurns \cup BetweenBurns
      BY DEF BeforeBurns, BetweenBurns
    <3> QED BY <1>1, <1>2, <1>5, <1>6, <3>1, <3>2 DEF RunInv, ProgressInv
  <2>2. BurnInv(q)'
    <3>1. f = "sb" /\ "fe" \in security.wanted => burned["fe"] # 0
      BY <1>1 DEF RunInv, ProgressInv, BurnInv, BetweenBurns
    <3>2. tool'[q].key \in 1..made'
      BY <1>3, <1>4, <1>6
    <3>3. /\ "fe" \in security.wanted => keyFile["fe"] # 0
          /\ "sb" \in security.wanted => keyFile["sb"] # 0
      BY <1>1 DEF RunInv, BurnInv
    <3>4. tool'[q].fuse = f /\ tool'[q].state = "running" /\ f # "none"
      BY <1>6 DEF Fuses
    <3> QED BY <1>2, <3>1, <3>2, <3>3, <3>4 DEF BurnInv
  <2>3. ReportInv(q)'
    <3>1. report[q] = "none" /\ (~cancel[q] => atCancel[q] = -1)
      BY <1>1 DEF RunInv, ProgressInv, ReportInv
    <3>2. atCancel[q] # -1 => atCancel[q] = spawned[q] \/ (f = "fe" /\ atCancel[q] <= 0)
      <4>1. atCancel[q] # -1 => atCancel[q] <= spawned[q]
        BY <1>1 DEF RunInv, ReportInv
      <4>2. f \in {"fe", "sb"}
        BY DEF Fuses
      <4>3. CASE f = "fe"
        <5>1. spawned[q] = 0
          BY <1>7, <4>3
        <5> QED BY <4>1, <4>3, <5>1
      <4>4. CASE f = "sb"
        BY <1>7, <4>4
      <4> QED BY <4>2, <4>3, <4>4
    <3>3. spawned[q] \in {0, 1} /\ atCancel[q] \in {-1, 0, 1, 2} /\ (f = "fe" => spawned[q] = 0)
      BY <1>1, <1>7, RunTypes
    <3>4. atCancel[q] # -1 => atCancel[q] <= spawned[q] + 1 /\ spawned[q] + 1 <= atCancel[q] + 1
      BY ONLY <3>2, <3>3
    <3> QED BY <1>2, <1>5, <1>8, <3>1, <3>4 DEF ReportInv
  <2> QED BY <2>1, <2>2, <2>3 DEF RunInv
<1>12. made' >= made
  BY ONLY <1>3
<1> QED BY <1>2, <1>5, <1>6, <1>8, <1>9, <1>10, <1>11, <1>12, OneRunStep

LEMMA BurnStep ==
    ASSUME ProvisionInv, NEW q \in Runs, BurnFE(q) \/ BurnSB(q)
    PROVE  ProvisionInv'
<1>1. TypeOK /\ KeyInv /\ RunInv(q)
  BY DEF ProvisionInv
<1>2. /\ pc[q] \in {"burn fe", "burn sb"}
      /\ UNCHANGED <<windowVars, cancel, keyVars, burned, atCancel>>
  BY DEF BurnFE, BurnSB, Burn
<1>3. tool[q].state \in {"none", "ok"} /\ pc[q] \notin {"idle", "done"}
  BY <1>1, <1>2 DEF RunInv, ProgressInv, BeforeBurns, BetweenBurns
<1>4. CASE Finish(q, "failed") /\ UNCHANGED <<tool, spawned>>
  <2>1. "failed" \in Reports \ {"none"}
    BY DEF Reports
  <2> QED BY <1>1, <1>2, <1>3, <1>4, <2>1, FinishStep, FunctionTypes
<1>5. ASSUME NEW f \in Fuses, f \in security.wanted,
             \/ f = "fe" /\ pc[q] = "burn fe"
             \/ f = "sb" /\ pc[q] = "burn sb",
             tool' = [tool EXCEPT ![q] =
               [fuse |-> f, state |-> "running", output |-> TRUE, told |-> FALSE, key |-> keyFile[f]]],
             spawned' = [spawned EXCEPT ![q] = @ + 1],
             pc' = [pc EXCEPT ![q] = "reading"], UNCHANGED report
      PROVE  ProvisionInv'
  BY <1>2, <1>5, SpawnStep
<1>6. CASE /\ "fe" \notin security.wanted /\ pc[q] = "burn fe"
           /\ pc' = [pc EXCEPT ![q] = "check between"] /\ UNCHANGED <<report, tool, spawned>>
  <2>1. "check between" \in PcStates \ {"idle", "done", "reading"}
        /\ "check between" \notin BeforeBurns
    BY DEF PcStates, BeforeBurns
  <2>2. spawned[q] = 0 /\ tool[q].fuse = "none" /\ tool[q].state = "none"
    BY <1>1, <1>6 DEF RunInv, ProgressInv, BeforeBurns
  <2>3. "sb" \in security.wanted => keyFile["sb"] # 0
    BY <1>1, <1>6 DEF RunInv, BurnInv
  <2> QED BY <1>2, <1>3, <1>6, <2>1, <2>2, <2>3, PassStep
<1>7. CASE /\ "sb" \notin security.wanted /\ pc[q] = "burn sb"
           /\ Finish(q, "ok") /\ UNCHANGED <<tool, spawned>>
  <2>1. "ok" \in Reports \ {"none"}
    BY DEF Reports
  <2>2. "fe" \in security.wanted => burned["fe"] # 0
    BY <1>1, <1>7 DEF RunInv, ProgressInv, BurnInv, BetweenBurns
  <2>3. \A f \in security.wanted : burned[f] # 0
    BY <1>1, <1>7, <2>2, RunTypes DEF Fuses
  <2> QED BY <1>1, <1>2, <1>3, <1>7, <2>1, <2>3, FinishStep, FunctionTypes
<1>8. CASE BurnFE(q)
  <2>1. "fe" \in Fuses
    BY DEF Fuses
  <2> QED BY <1>4, <1>5, <1>6, <1>8, <2>1 DEF BurnFE, Burn
<1>9. CASE BurnSB(q)
  <2>1. "sb" \in Fuses
    BY DEF Fuses
  <2> QED BY <1>4, <1>5, <1>7, <1>9, <2>1 DEF BurnSB, Burn
<1> QED BY <1>8, <1>9

\* Reading the output of a burn, and the ways that ends.
LEMMA ReadStep ==
    ASSUME ProvisionInv, NEW q \in Runs, BurnWaited(q) \/ BurnWaitExpires(q) \/ BurnAborted(q)
    PROVE  ProvisionInv'
<1>1. TypeOK /\ KeyInv /\ RunInv(q) /\ tool \in [Runs -> ToolType]
  BY FunctionTypes DEF ProvisionInv
<1>2. /\ pc[q] = "reading" /\ UNCHANGED <<windowVars, cancel, keyVars, burned, spawned, atCancel>>
  BY DEF BurnWaited, BurnWaitExpires, BurnAborted
<1>3. "failed" \in Reports \ {"none"} /\ "ok" \in Reports \ {"none"}
  BY DEF Reports
<1>4. CASE Finish(q, "failed") /\ UNCHANGED tool /\ ~tool[q].output
  BY <1>1, <1>2, <1>3, <1>4, FinishStep
<1>5. CASE BurnAborted(q)
  <2>1. Finish(q, "failed")
        /\ tool' = [tool EXCEPT ![q].told = tool[q].told \/ tool[q].state = "running"]
    BY <1>5 DEF BurnAborted
  <2>2. (tool[q].told \/ tool[q].state = "running") \in BOOLEAN
    OBVIOUS
  <2>3. /\ tool' \in [Runs -> ToolType]
        /\ \A r \in Runs \ {q} : tool'[r] = tool[r]
    BY <1>1, <2>1, <2>2 DEF ToolType
  <2>4. /\ tool'[q].fuse = tool[q].fuse /\ tool'[q].state = tool[q].state
        /\ tool'[q].key = tool[q].key /\ tool'[q].output = tool[q].output
        /\ tool[q].state = "running" => tool'[q].told
    BY <1>1, <2>1 DEF ToolType
  <2> QED BY <1>2, <1>3, <2>1, <2>3, <2>4, FinishStep
<1>6. CASE tool[q].state = "ok" /\ Proceed(q) /\ UNCHANGED tool
  <2>1. tool[q].fuse \in security.wanted /\ burned[tool[q].fuse] # 0
    BY <1>1, <1>6 DEF RunInv, BurnInv
  <2>2. /\ "fe" \in security.wanted => keyFile["fe"] # 0
        /\ "sb" \in security.wanted => keyFile["sb"] # 0
    BY <1>1, <1>2 DEF RunInv, BurnInv
  <2>3. CASE tool[q].fuse = "fe"
    <3>1. "check between" \in PcStates \ {"idle", "done", "reading"}
          /\ "check between" \notin BeforeBurns
      BY DEF PcStates, BeforeBurns
    <3>2. pc' = [pc EXCEPT ![q] = "check between"] /\ UNCHANGED report
      BY <1>6, <2>3 DEF Proceed
    <3>3. spawned[q] = 1 /\ "fe" \in security.wanted
      BY <1>1, <1>2, <2>1, <2>3 DEF RunInv, ProgressInv
    <3> QED BY <1>2, <1>6, <2>2, <2>3, <3>1, <3>2, <3>3, PassStep
  <2>4. CASE tool[q].fuse # "fe"
    <3>1. tool[q].fuse = "sb"
      BY <1>1, <2>1, <2>4, RunTypes DEF Fuses
    <3>2. Finish(q, "ok")
      BY <1>6, <2>4 DEF Proceed
    <3>3. "fe" \in security.wanted => burned["fe"] # 0
      BY <1>1, <3>1 DEF RunInv, BurnInv
    <3>4. \A f \in security.wanted : burned[f] # 0
      BY <1>1, <2>1, <3>1, <3>3, RunTypes DEF Fuses
    <3> QED BY <1>1, <1>2, <1>3, <1>6, <3>2, <3>4, FinishStep
  <2> QED BY <2>3, <2>4
<1> QED BY <1>4, <1>5, <1>6 DEF BurnWaited, BurnWaitExpires

-----------------------------------------------------------------------------
(* The steps of espefuse. *)

LEMMA BlockIsBurned ==
    ASSUME ProvisionInv, NEW q \in Runs, ToolBurns(q)
    PROVE  ProvisionInv'
<1>1. TypeOK /\ KeyInv /\ RunInv(q) /\ made \in Nat
  BY DEF ProvisionInv, KeyInv
<1>2. /\ tool[q].state = "running" /\ burned' = [burned EXCEPT ![tool[q].fuse] = tool[q].key]
      /\ UNCHANGED <<security, open, current, started, pc, cancel, tool, report, keyFile, vault,
                     made, spawned, atCancel>>
  BY DEF ToolBurns, windowVars, keyVars
<1>3. tool[q].fuse \in Fuses /\ tool[q].key \in 1..made
  BY <1>1, <1>2, RunTypes DEF RunInv, BurnInv
<1>4. tool[q].key \in 0..made /\ tool[q].key # 0
  BY ONLY <1>1, <1>3
<1>5. burned \in [Fuses -> 0..made]
  BY <1>1 DEF TypeOK
<1>6. burned' \in [Fuses -> 0..made] /\ burned'[tool[q].fuse] # 0
      /\ \A f \in Fuses : burned[f] # 0 => burned'[f] # 0
  BY <1>2, <1>3, <1>4, <1>5
<1>7. TypeOK'
  BY <1>1, <1>2, <1>6 DEF TypeOK
<1>8. KeyInv'
  <2>1. "fe" \in security.wanted /\ burned'["sb"] # 0 => burned'["fe"] # 0
    <3>1. burned["fe"] # 0 => burned'["fe"] # 0
      BY <1>6 DEF Fuses
    <3>2. CASE tool[q].fuse = "fe"
      BY <1>6, <3>2
    <3>3. CASE tool[q].fuse = "sb"
      BY <1>1, <3>1, <3>3 DEF RunInv, BurnInv
    <3> QED BY <1>3, <3>2, <3>3 DEF Fuses
  <2> QED BY <1>1, <1>2, <2>1 DEF KeyInv
<1>9. RunInv(q)'
  BY <1>1, <1>2, <1>6, RunKept
<1>10. made' >= made
  BY <1>1, <1>2
<1> QED BY <1>2, <1>6, <1>7, <1>8, <1>9, <1>10, OneRunStep

LEMMA ToolStep ==
    ASSUME ProvisionInv, NEW q \in Runs, ToolBurns(q) \/ ToolClosesOutput(q) \/ ToolExits(q)
    PROVE  ProvisionInv'
<1>1. TypeOK /\ KeyInv /\ RunInv(q) /\ tool \in [Runs -> ToolType]
      /\ pc \in [Runs -> PcStates] /\ report \in [Runs -> Reports]
  BY FunctionTypes DEF ProvisionInv
<1>2. CASE ToolClosesOutput(q)
  <2>1. /\ tool' = [tool EXCEPT ![q].output = FALSE] /\ tool[q].state = "running"
        /\ UNCHANGED <<windowVars, pc, cancel, report, keyVars, burned, spawned, atCancel>>
    BY <1>2 DEF ToolClosesOutput
  <2>2. /\ tool' \in [Runs -> ToolType] /\ \A r \in Runs \ {q} : tool'[r] = tool[r]
        /\ tool'[q].fuse = tool[q].fuse /\ tool'[q].state = tool[q].state
        /\ tool'[q].key = tool[q].key /\ tool'[q].output = FALSE
    BY <1>1, <2>1 DEF ToolType
  <2>3. RunInv(q)'
    BY <1>1, <2>1, <2>2 DEF RunInv, ProgressInv, BurnInv, ReportInv, windowVars, keyVars
  <2> QED BY <1>1, <2>1, <2>2, <2>3, ControlStep
<1>3. ASSUME NEW end \in {"ok", "bad"}, end = "ok" => burned[tool[q].fuse] = tool[q].key,
             tool[q].state = "running",
             tool' = [tool EXCEPT ![q].state = end, ![q].output = FALSE],
             UNCHANGED <<windowVars, pc, cancel, report, keyVars, burned, spawned, atCancel>>
      PROVE  ProvisionInv'
  <2>1. /\ tool' \in [Runs -> ToolType] /\ \A r \in Runs \ {q} : tool'[r] = tool[r]
        /\ tool'[q].fuse = tool[q].fuse /\ tool'[q].state = end
        /\ tool'[q].key = tool[q].key /\ tool'[q].output = FALSE
    BY <1>1, <1>3 DEF ToolType
  <2>2. UNCHANGED <<security, started, pc, cancel, report, keyFile, made, burned, spawned, atCancel>>
    BY <1>3 DEF windowVars, keyVars
  <2>3. tool[q].fuse \in security.wanted /\ tool[q].key \in 1..made
    BY <1>1, <1>3 DEF RunInv, BurnInv
  <2>4. tool[q].key # 0
    <3>1. made \in Nat
      BY <1>1 DEF KeyInv
    <3> QED BY ONLY <2>3, <3>1
  <2>5. ProgressInv(q)'
    BY <1>1, <1>3, <2>1, <2>2 DEF RunInv, ProgressInv, BeforeBurns, BetweenBurns
  <2>6. BurnInv(q)'
    BY <1>1, <1>3, <2>1, <2>2, <2>3, <2>4 DEF RunInv, BurnInv
  <2>7. ReportInv(q)'
    BY <1>1, <1>3, <2>1, <2>2 DEF RunInv, ReportInv
  <2>8. RunInv(q)'
    BY <2>5, <2>6, <2>7 DEF RunInv
  <2> QED BY <1>1, <1>3, <2>1, <2>8, ControlStep
<1>4. CASE ToolExits(q)
  BY <1>3, <1>4 DEF ToolExits
<1> QED BY <1>2, <1>4, BlockIsBurned

-----------------------------------------------------------------------------
(* The theorems. *)

LEMMA NextProvision == ProvisionInv /\ [Next]_vars => ProvisionInv'
<1> SUFFICES ASSUME ProvisionInv, [Next]_vars PROVE ProvisionInv'
  OBVIOUS
<1>1. CASE UNCHANGED vars
  <2>1. open' = open /\ current' = current
        /\ UNCHANGED <<security, started, pc, cancel, tool, report, keyFile, vault, made, burned,
                       spawned, atCancel>>
    BY <1>1 DEF vars
  <2>2. open' \in BOOLEAN /\ current' \in 0..started
    BY <2>1 DEF ProvisionInv, TypeOK
  <2> QED BY <2>1, <2>2, WindowStep
<1>2. CASE OpenDialog \/ Start \/ CloseDialog \/ RejectDialog
  BY <1>2, DialogStep
<1>3. ASSUME NEW r \in Runs, GenerateFE(r) \/ GenerateSB(r) PROVE ProvisionInv'
  <2>1. "fe" \in Fuses /\ "sb" \in Fuses
    BY DEF Fuses
  <2> QED BY <1>3, <2>1, GenerateStep DEF GenerateFE, GenerateSB
<1>4. ASSUME NEW r \in Runs, CheckBefore(r) \/ CheckBetween(r) PROVE ProvisionInv'
  BY <1>4, CheckStep
<1>5. ASSUME NEW r \in Runs, BurnFE(r) \/ BurnSB(r) PROVE ProvisionInv'
  BY <1>5, BurnStep
<1>6. ASSUME NEW r \in Runs, BurnWaited(r) \/ BurnWaitExpires(r) \/ BurnAborted(r)
      PROVE  ProvisionInv'
  BY <1>6, ReadStep
<1>7. ASSUME NEW r \in Runs, ToolBurns(r) \/ ToolClosesOutput(r) \/ ToolExits(r)
      PROVE  ProvisionInv'
  BY <1>7, ToolStep
<1> QED BY <1>1, <1>2, <1>3, <1>4, <1>5, <1>6, <1>7 DEF Next

\* For any number of runs, overlapping, cancelled or abandoned at any of their
\* steps: what finished_provision says of a run is true of the device's
\* eFuses, and a run that has been reported has told its espefuse to stop,
\* unless it only waited for it to end.
THEOREM ReportsStayTrue == Spec => []RunsAreAccountedFor
<1>1. ProvisionInv => RunsAreAccountedFor
  BY DEF ProvisionInv, RunInv, ReportInv, RunsAreAccountedFor, ReportsAreTrue, NoForgottenBurn
<1> QED BY <1>1, InitProvision, NextProvision, PTL DEF Spec

\* The runs of a device, taken together, never burn its secure boot digest
\* while the flash encryption key it is also to have is blank, and a cancel
\* lets at most one more burn of its run start.
THEOREM BurnsStayInOrder == Spec => []BurnsInOrder
<1>1. ProvisionInv => BurnsInOrder
  <2> SUFFICES ASSUME ProvisionInv PROVE BurnsInOrder
    OBVIOUS
  <2>1. EncryptionFirst
    BY DEF ProvisionInv, KeyInv, EncryptionFirst, Fuses
  <2>2. CancelBoundsBurns
    BY DEF ProvisionInv, RunInv, ReportInv, CancelBoundsBurns
  <2> QED BY <2>1, <2>2 DEF BurnsInOrder
<1> QED BY <1>1, InitProvision, NextProvision, PTL DEF Spec

-----------------------------------------------------------------------------
(* Batches of devices, and the dialogs that take ports. *)

Busy(k) == Queued(k) \cup Working(k)
Resolved(k) == {d \in Devices : results[k][d] # "none"}
Good(k) == {d \in Devices : results[k][d] = "ok"}

OneByOne(s) == \A i, j \in 1..Len(s) : s[i] = s[j] => i = j

\* Each device of the batch is waiting, has a worker, or has its result; a
\* worker that ends is only counted once it is out of both other sets.
Partition(k) ==
    /\ Busy(k) \cup Resolved(k) = batch[k]
    /\ Queued(k) \cap Working(k) = {}
    /\ Resolved(k) \cap Busy(k) = {}

Slots(k) ==
    /\ OneByOne(queue[k])
    /\ Cardinality(Working(k)) <= cap[k]
    /\ queue[k] # <<>> => Cardinality(Working(k)) = cap[k]

Reported(k) ==
    /\ Len(reports[k]) = batches[k] - (IF AnyBusy(k) THEN 1 ELSE 0)
    /\ ~AnyBusy(k) /\ batches[k] > 0 =>
          Last(reports[k]) = <<Cardinality(Good(k)), Cardinality(batch[k] \ Good(k))>>

Buttons(k) ==
    /\ cancellable[k] = AnyBusy(k)
    /\ startable[k] = (~AnyBusy(k) /\ eligible[k] # {})

\* A batch is of devices its dialog has offered, and a dialog that has not
\* been opened has none.
Offered(k) ==
    /\ batch[k] \subseteq eligible[k]
    /\ k > opened => batch[k] = {}

DialogInv(k) ==
    /\ Partition(k) /\ Slots(k) /\ Reported(k) /\ Buttons(k) /\ Offered(k)
    /\ calledOff[k] => queue[k] = <<>>

\* The dialog in front was opened on devices that were idle, and while it is
\* in front no upload is started.
FrontInv ==
    /\ shown # 0 => eligible[shown] \cap flashing = {}
    /\ readShown # 0 => readOf[readShown] \notin flashing
    /\ \A r \in Read!Reads : runnable[r] => reader[r] = "none"

PortInv == PortTypeOK /\ FrontInv /\ \A k \in Dialogs : DialogInv(k)

-----------------------------------------------------------------------------
(* Sequences without repetitions, and the sets they list. *)

LEMMA ListedSet ==
    ASSUME NEW S, NEW s \in Seq(S)
    PROVE  ToSet(s) = {s[i] : i \in 1..Len(s)} /\ ToSet(s) \subseteq S /\ Len(s) \in Nat
<1>1. DOMAIN s = 1..Len(s) /\ Len(s) \in Nat
  BY LenProperties
<1>2. \A i \in 1..Len(s) : s[i] \in S
  BY ElementOfSeq
<1> QED BY <1>1, <1>2 DEF ToSet

LEMMA ListedCardinality ==
    ASSUME NEW S, NEW s \in Seq(S), OneByOne(s)
    PROVE  Len(s) = Cardinality(ToSet(s)) /\ IsFiniteSet(ToSet(s))
<1>1. s \in [1..Len(s) -> ToSet(s)] /\ Len(s) \in Nat
  BY ListedSet, LenProperties
<1>2. s \in Bijection(1..Len(s), ToSet(s))
  BY <1>1, ListedSet DEF Bijection, Injection, Surjection, IsInjective, OneByOne
<1>3. ExistsBijection(1..Len(s), ToSet(s))
  BY <1>2 DEF ExistsBijection
<1> QED BY <1>1, <1>3, FS_CountingElements, FS_NatBijection

LEMMA TailSet ==
    ASSUME NEW S, NEW s \in Seq(S), s # <<>>, OneByOne(s)
    PROVE  /\ Tail(s) \in Seq(S) /\ OneByOne(Tail(s))
           /\ Head(s) \in ToSet(s) /\ ToSet(Tail(s)) = ToSet(s) \ {Head(s)}
<1> DEFINE n == Len(s)
           t == Tail(s)
<1>1. /\ n \in Nat /\ n # 0 /\ t \in Seq(S) /\ Len(t) = n - 1 /\ Head(s) = s[1]
      /\ \A i \in 1..(n - 1) : t[i] = s[i + 1]
  BY HeadTailProperties, EmptySeq, LenProperties
<1>2. ToSet(s) = {s[i] : i \in 1..n} /\ ToSet(t) = {t[i] : i \in 1..(n - 1)}
  BY <1>1, ListedSet
<1>3. 1 \in 1..n /\ \A i \in 1..(n - 1) : i + 1 \in 1..n /\ i + 1 # 1
  BY <1>1
<1>4. \A i \in 1..n : i = 1 \/ (i - 1 \in 1..(n - 1) /\ (i - 1) + 1 = i)
  BY <1>1
<1> HIDE DEF n, t
<1>5. OneByOne(t)
  <2> SUFFICES ASSUME NEW i \in 1..(n - 1), NEW j \in 1..(n - 1), t[i] = t[j] PROVE i = j
    BY <1>1 DEF OneByOne
  <2>1. s[i + 1] = s[j + 1]
    BY <1>1
  <2>2. i + 1 = j + 1
    BY <1>3, <2>1 DEF OneByOne, n
  <2> QED BY <2>2
<1>6. ASSUME NEW x PROVE x \in ToSet(t) <=> x \in ToSet(s) /\ x # s[1]
  <2>1. ASSUME x \in ToSet(t) PROVE x \in ToSet(s) /\ x # s[1]
    <3>1. PICK i \in 1..(n - 1) : x = t[i]
      BY <1>2, <2>1
    <3>2. i + 1 \in 1..n /\ i + 1 # 1 /\ x = s[i + 1]
      BY <1>1, <1>3, <3>1
    <3> QED BY <1>2, <1>3, <3>2 DEF OneByOne, n
  <2>2. ASSUME x \in ToSet(s), x # s[1] PROVE x \in ToSet(t)
    <3>1. PICK i \in 1..n : x = s[i]
      BY <1>2, <2>2
    <3>2. i - 1 \in 1..(n - 1) /\ x = t[i - 1]
      BY <1>1, <1>4, <2>2, <3>1
    <3> QED BY <1>2, <3>2
  <2> QED BY <2>1, <2>2
<1> QED BY <1>1, <1>2, <1>3, <1>5, <1>6 DEF t

LEMMA ListingProps ==
    ASSUME NEW S \in SUBSET Devices, NEW s \in Listings(S)
    PROVE  s \in Seq(Devices) /\ OneByOne(s) /\ ToSet(s) = S /\ (s = <<>> <=> S = {})
<1>1. IsFiniteSet(S) /\ Cardinality(S) \in Nat
  BY BatchProvisionAssumption, FS_Subset, FS_CardinalityType
<1>2. s \in [1..Cardinality(S) -> S]
  BY DEF Listings, Bijection, Injection
<1>3. s \in Seq(S) /\ Len(s) = Cardinality(S)
  BY <1>1, <1>2
<1>4. s \in Seq(Devices)
  BY <1>3, SeqMonotonic
<1>5. OneByOne(s)
  BY <1>2, <1>3 DEF Listings, Bijection, Injection, IsInjective, OneByOne
<1>6. \A d \in S : \E i \in 1..Cardinality(S) : s[i] = d
  BY DEF Listings, Bijection, Surjection
<1>7. ToSet(s) = S
  <2>1. ToSet(s) = {s[i] : i \in 1..Len(s)} /\ ToSet(s) \subseteq S
    BY ONLY <1>3, ListedSet
  <2> QED BY <1>3, <1>6, <2>1
<1>8. s = <<>> => S = {}
  BY <1>7 DEF ToSet
<1>9. S = {} => s = <<>>
  <2>1. S = {} => Len(s) = 0
    BY <1>3, FS_EmptySet
  <2> QED BY <1>3, <2>1, EmptySeq
<1> QED BY <1>4, <1>5, <1>7, <1>8, <1>9

LEMMA Finite ==
    ASSUME NEW S \in SUBSET Devices
    PROVE  IsFiniteSet(S) /\ Cardinality(S) \in Nat /\ (Cardinality(S) = 0 <=> S = {})
BY BatchProvisionAssumption, FS_Subset, FS_CardinalityType, FS_EmptySet

LEMMA MinOfTwo ==
    ASSUME NEW a \in Nat, NEW b \in Nat
    PROVE  Min({a, b}) = IF a <= b THEN a ELSE b
<1> DEFINE m == IF a <= b THEN a ELSE b
<1>1. m \in {a, b} /\ \A y \in {a, b} : m <= y
  OBVIOUS
<1>2. \A x \in {a, b} : (\A y \in {a, b} : x <= y) => x = m
  OBVIOUS
<1> HIDE DEF m
<1>3. Min({a, b}) = m
  BY <1>1, <1>2 DEF Min
<1> QED BY <1>3 DEF m

-----------------------------------------------------------------------------
(* The books of one dialog, step by step. *)

LEMMA DialogTypes ==
    ASSUME BatchTypeOK, NEW k \in Dialogs
    PROVE  /\ queue[k] \in Seq(Devices) /\ Queued(k) \subseteq Devices
           /\ Working(k) \subseteq Devices /\ Busy(k) \subseteq Devices
           /\ batch[k] \subseteq Devices /\ eligible[k] \subseteq Devices
           /\ cap[k] \in Nat /\ batches[k] \in Nat /\ opened \in Nat
           /\ reports[k] \in Seq(Nat \X Nat) /\ Len(reports[k]) \in Nat
           /\ Queued(k) = {} <=> queue[k] = <<>>
           /\ AnyBusy(k) <=> Busy(k) # {}
<1>1. /\ queue[k] \in Seq(Devices) /\ batch[k] \subseteq Devices /\ eligible[k] \subseteq Devices
      /\ cap[k] \in Nat /\ batches[k] \in 0..MaxBatches /\ reports[k] \in Seq(Nat \X Nat)
      /\ opened \in 0..MaxDialogs
  BY DEF BatchTypeOK
<1>2. Queued(k) \subseteq Devices
  BY <1>1, ListedSet DEF Queued
<1>3. queue[k] = <<>> => Queued(k) = {}
  BY DEF Queued, ToSet
<1>4. Queued(k) = {} => queue[k] = <<>>
  <2>1. queue[k] # <<>> => 1 \in 1..Len(queue[k])
    BY <1>1, EmptySeq
  <2>2. Queued(k) = {queue[k][i] : i \in 1..Len(queue[k])}
    BY <1>1, ListedSet DEF Queued
  <2> QED BY <2>1, <2>2
<1>5. Len(reports[k]) \in Nat
  BY <1>1, LenProperties
<1> QED BY <1>1, <1>2, <1>3, <1>4, <1>5 DEF Working, Busy, AnyBusy

\* A step that leaves a dialog's books as they are.
LEMMA SameBooks ==
    ASSUME BatchTypeOK, NEW k \in Dialogs, DialogInv(k),
           Working(k)' = Working(k), opened \in Nat, opened' \in Nat, opened <= opened',
           UNCHANGED <<eligible[k], queue[k], results[k], startable[k], cancellable[k],
                       batch[k], cap[k], calledOff[k], batches[k], reports[k]>>
    PROVE  DialogInv(k)'
<1>1. Queued(k)' = Queued(k) /\ Resolved(k)' = Resolved(k) /\ Good(k)' = Good(k)
  BY DEF Queued, Resolved, Good
<1>2. Busy(k)' = Busy(k) /\ (AnyBusy(k)' <=> AnyBusy(k))
  BY <1>1 DEF Busy, AnyBusy
<1>3. Partition(k)' /\ Slots(k)'
  BY <1>1, <1>2 DEF DialogInv, Partition, Slots
<1>6. Reported(k)'
  BY <1>1, <1>2 DEF DialogInv, Reported
<1>7. Buttons(k)'
  BY <1>2 DEF DialogInv, Buttons, AnyBusy
<1>4. k > opened' => k > opened
  BY DEF Dialogs
<1>5. Offered(k)'
  BY <1>4 DEF DialogInv, Offered
<1> QED BY <1>3, <1>5, <1>6, <1>7 DEF DialogInv

\* The last device of a batch that is resolved, and no other, completes it.
LEMMA FinishBooks ==
    ASSUME BatchTypeOK, NEW k \in Dialogs, DialogInv(k),
           NEW gone \in SUBSET Busy(k), gone # {}, Busy(k)' = Busy(k) \ gone,
           (Queued(k) \cap Working(k))' = {},
           NEW res \in [Devices -> Outcomes \cup {"none"}],
           \A d \in Devices : IF d \in gone THEN res[d] # "none" ELSE res[d] = results[k][d],
           results' = [results EXCEPT ![k] = res], FinishBatch(k, res),
           UNCHANGED <<batch, batches, eligible, opened>>
    PROVE  /\ Partition(k)' /\ Reported(k)' /\ Buttons(k)' /\ Offered(k)'
           /\ startable' \in [Dialogs -> BOOLEAN] /\ cancellable' \in [Dialogs -> BOOLEAN]
           /\ reports' \in [Dialogs -> Seq(Nat \X Nat)]
           /\ \A x \in Dialogs \ {k} : UNCHANGED <<startable[x], cancellable[x], reports[x]>>
<1> DEFINE resolved == {d \in Devices : res[d] # "none"}
           good == {d \in Devices : res[d] = "ok"}
           size == Cardinality(batch[k])
<1>0. eligible' = eligible
  OBVIOUS
<1>1. results'[k] = res /\ Resolved(k)' = resolved /\ Good(k)' = good
  BY DEF BatchTypeOK, Resolved, Good
<1>2. /\ Busy(k) \cup Resolved(k) = batch[k] /\ Resolved(k) \cap Busy(k) = {}
      /\ Busy(k) \subseteq Devices /\ batch[k] \subseteq Devices
  BY DialogTypes DEF DialogInv, Partition
<1>3. resolved = Resolved(k) \cup gone
  BY <1>2 DEF Resolved
<1>4. resolved = batch[k] \ Busy(k)' /\ Busy(k)' \subseteq batch[k] /\ good \subseteq resolved
  BY <1>2, <1>3
<1>5. Partition(k)'
  BY <1>1, <1>4 DEF Partition
<1> HIDE DEF resolved, good
<1>6. /\ IsFiniteSet(batch[k]) /\ size \in Nat
      /\ Cardinality(resolved) >= size <=> Busy(k)' = {}
  <2>1. IsFiniteSet(batch[k]) /\ size \in Nat
    BY <1>2, Finite
  <2>2. /\ IsFiniteSet(Busy(k)') /\ Cardinality(Busy(k)') \in Nat
        /\ Cardinality(Busy(k)') = 0 <=> Busy(k)' = {}
    BY <1>2, <1>4, Finite
  <2>3. Cardinality(resolved) = size - Cardinality(Busy(k)')
    <3>1. batch[k] \cap Busy(k)' = Busy(k)'
      BY <1>4
    <3> QED BY <1>4, <2>1, <3>1, FS_Difference
  <2> QED BY ONLY <2>1, <2>2, <2>3
<1>7. /\ Cardinality(good) \in Nat /\ size - Cardinality(good) \in Nat
      /\ Cardinality(batch[k] \ good) = size - Cardinality(good)
  <2>1. good \subseteq batch[k] /\ batch[k] \cap good = good
    BY <1>4
  <2>2. IsFiniteSet(good) /\ Cardinality(good) <= size /\ Cardinality(good) \in Nat
    BY <1>6, <2>1, FS_Subset, FS_CardinalityType
  <2>3. Cardinality(batch[k] \ good) = size - Cardinality(good)
    BY <1>6, <2>1, FS_Difference
  <2> HIDE DEF size
  <2> QED BY ONLY <1>6, <2>2, <2>3
<1>8. /\ AnyBusy(k) /\ (AnyBusy(k)' <=> Busy(k)' # {})
      /\ Len(reports[k]) = batches[k] - 1 /\ cancellable[k] /\ ~startable[k]
      /\ batches[k] \in Nat /\ eligible[k] # {}
  BY <1>2, DialogTypes DEF DialogInv, Reported, Buttons, Offered, AnyBusy, Busy
<1>9. Offered(k)'
  BY DEF DialogInv, Offered
<1>10. startable \in [Dialogs -> BOOLEAN] /\ cancellable \in [Dialogs -> BOOLEAN]
       /\ reports \in [Dialogs -> Seq(Nat \X Nat)] /\ reports[k] \in Seq(Nat \X Nat)
  BY DEF BatchTypeOK
<1>11. CASE Busy(k)' = {}
  <2>0. ~AnyBusy(k)'
    BY <1>8, <1>11
  <2>1. /\ reports' = [reports EXCEPT ![k] = Append(@, <<Cardinality(good), size - Cardinality(good)>>)]
        /\ startable' = [startable EXCEPT ![k] = TRUE]
        /\ cancellable' = [cancellable EXCEPT ![k] = FALSE]
    BY <1>6, <1>11 DEF FinishBatch, resolved, good
  <2> DEFINE entry == <<Cardinality(good), size - Cardinality(good)>>
  <2>2. entry \in Nat \X Nat
    BY <1>7
  <2> HIDE DEF entry, size
  <2>3. /\ Append(reports[k], entry) \in Seq(Nat \X Nat)
        /\ Len(Append(reports[k], entry)) = Len(reports[k]) + 1
        /\ Append(reports[k], entry)[Len(reports[k]) + 1] = entry
    BY <1>10, <2>2, AppendProperties
  <2>4. reports'[k] = Append(reports[k], entry)
    BY <1>10, <2>1 DEF entry
  <2>5. Reported(k)'
    <3>1. Last(reports'[k]) = entry
      BY <2>3, <2>4 DEF Last
    <3>2. entry = <<Cardinality(Good(k)'), Cardinality(batch[k] \ Good(k)')>>
      BY <1>1, <1>7 DEF entry
    <3>4. Len(reports'[k]) = batches'[k] - 0
      BY <1>8, <2>3, <2>4
    <3> QED BY <2>0, <3>1, <3>2, <3>4 DEF Reported
  <2>6. Buttons(k)'
    <3>1. startable'[k] = TRUE
      BY <1>10, <2>1
    <3>2. cancellable'[k] = FALSE
      BY <1>10, <2>1
    <3>3. cancellable'[k] = AnyBusy(k)'
      BY <2>0, <3>2 DEF AnyBusy
    <3>4. startable'[k] = (~AnyBusy(k)' /\ eligible'[k] # {})
      BY <1>0, <1>8, <2>0, <3>1 DEF AnyBusy
    <3> QED BY <3>3, <3>4 DEF Buttons
  <2>7. /\ startable' \in [Dialogs -> BOOLEAN] /\ cancellable' \in [Dialogs -> BOOLEAN]
        /\ reports' \in [Dialogs -> Seq(Nat \X Nat)]
        /\ \A x \in Dialogs \ {k} : UNCHANGED <<startable[x], cancellable[x], reports[x]>>
    BY <1>10, <2>1, <2>3 DEF entry
  <2> QED BY <1>5, <1>9, <2>5, <2>6, <2>7
<1>12. CASE Busy(k)' # {}
  <2>1. UNCHANGED <<reports, startable, cancellable>>
    BY <1>6, <1>12 DEF FinishBatch, resolved, good
  <2>2. Reported(k)'
    BY <1>8, <1>12, <2>1 DEF Reported
  <2>3. Buttons(k)'
    <3>1. startable'[k] = startable[k] /\ cancellable'[k] = cancellable[k]
      BY <2>1
    <3>2. eligible'[k] = eligible[k] /\ AnyBusy(k)'
      BY <1>0, <1>8, <1>12
    <3>3. startable[k] = FALSE /\ cancellable[k] = TRUE
      BY <1>8, <1>10
    <3> QED BY <3>1, <3>2, <3>3, Zenon DEF Buttons
  <2> QED BY <1>5, <1>9, <1>10, <2>1, <2>2, <2>3
<1> QED BY <1>11, <1>12

AllBooks == \A k \in Dialogs : DialogInv(k)

LEMMA OtherDialogs ==
    ASSUME BatchTypeOK, AllBooks, NEW k \in Dialogs, DialogInv(k)',
           opened' \in Nat, opened <= opened',
           \A x \in Dialogs \ {k} :
               UNCHANGED <<eligible[x], queue[x], worker[x], results[x], startable[x],
                           cancellable[x], batch[x], cap[x], calledOff[x], batches[x],
                           reports[x]>>
    PROVE  AllBooks'
<1> SUFFICES ASSUME NEW x \in Dialogs, x # k PROVE DialogInv(x)'
  BY DEF AllBooks
<1>1. /\ worker'[x] = worker[x]
      /\ UNCHANGED <<eligible[x], queue[x], results[x], startable[x], cancellable[x],
                     batch[x], cap[x], calledOff[x], batches[x], reports[x]>>
  OBVIOUS
<1>2. Working(x)' = Working(x) /\ opened \in Nat /\ DialogInv(x)
  BY <1>1, DialogTypes DEF Working, AllBooks
<1> QED BY <1>1, <1>2, SameBooks

LEMMA BooksByStart ==
    ASSUME BatchTypeOK, AllBooks, NEW k \in Dialogs, StartBatch(k)
    PROVE  /\ BatchTypeOK' /\ AllBooks' /\ eligible' = eligible
           /\ \E launch \in SUBSET eligible[k] :
                 /\ launch # {}
                 /\ Queued(k) = {} /\ Working(k) = {}
                 /\ Queued(k)' = eligible[k] \ launch /\ Working(k)' = launch
           /\ calledOff'[k] = FALSE /\ log' = log
           /\ \A x \in Dialogs \ {k} : UNCHANGED <<queue[x], worker[x]>>
<1>1. /\ Busy(k) = {} /\ eligible[k] # {} /\ ~AnyBusy(k)
      /\ queue[k] = <<>> /\ Queued(k) = {} /\ Working(k) = {}
  BY DialogTypes DEF StartBatch, AllBooks, DialogInv, Buttons, Busy
<1>2. {d \in eligible[k] : ~IsBusy(k, d)} = eligible[k]
  BY <1>1 DEF IsBusy
<1>3. PICK limit \in Caps, launch \in SUBSET eligible[k] :
            /\ Cardinality(launch) = Min({limit, Cardinality(eligible[k])})
            /\ \E rest \in Listings(eligible[k] \ launch) :
                  queue' = [queue EXCEPT ![k] = @ \o rest]
            /\ worker' = [worker EXCEPT ![k] = Launched(@, launch)]
            /\ results' = [results EXCEPT ![k] = [d \in Devices |-> "none"]]
            /\ batch' = [batch EXCEPT ![k] = eligible[k]]
            /\ cap' = [cap EXCEPT ![k] = limit]
            /\ batches' = [batches EXCEPT ![k] = @ + 1]
            /\ calledOff' = [calledOff EXCEPT ![k] = FALSE]
  BY <1>1, <1>2 DEF StartBatch
<1>4. PICK rest \in Listings(eligible[k] \ launch) : queue' = [queue EXCEPT ![k] = @ \o rest]
  BY <1>3
<1>5. /\ shown = k /\ batches[k] < MaxBatches
      /\ startable' = [startable EXCEPT ![k] = FALSE]
      /\ cancellable' = [cancellable EXCEPT ![k] = TRUE]
      /\ UNCHANGED <<dialogVars, log, reports>>
  BY DEF StartBatch
<1>6. eligible' = eligible /\ opened' = opened /\ shown' = shown /\ log' = log /\ reports' = reports
  BY <1>5 DEF dialogVars
<1>7. eligible[k] \subseteq Devices /\ limit \in Nat /\ limit # 0
  BY DialogTypes, BatchProvisionAssumption
<1>8. /\ rest \in Seq(Devices) /\ OneByOne(rest) /\ ToSet(rest) = eligible[k] \ launch
      /\ rest = <<>> <=> eligible[k] \ launch = {}
  <2>1. eligible[k] \ launch \in SUBSET Devices
    BY <1>7
  <2> QED BY <2>1, ListingProps
<1>9. queue'[k] = rest
  <2>1. queue'[k] = queue[k] \o rest
    BY <1>4 DEF BatchTypeOK
  <2> QED BY <1>1, <1>8, <2>1, ConcatEmptySeq
<1>10. Queued(k)' = eligible[k] \ launch
  BY <1>8, <1>9 DEF Queued
<1>11. worker'[k] = Launched(worker[k], launch)
  BY <1>3 DEF BatchTypeOK
<1>12. Working(k)' = launch
  <2>1. \A d \in Devices : worker[k][d] = "none"
    BY <1>1 DEF Working
  <2> QED BY <1>7, <1>11, <2>1 DEF Working, Launched
<1>13. /\ Cardinality(launch) <= limit
       /\ launch # eligible[k] => Cardinality(launch) = limit
       /\ launch # {}
  <2>1. /\ IsFiniteSet(eligible[k]) /\ Cardinality(eligible[k]) \in Nat
        /\ Cardinality(eligible[k]) # 0
    BY <1>1, <1>7, Finite
  <2>2. Cardinality(launch) = IF limit <= Cardinality(eligible[k])
                              THEN limit ELSE Cardinality(eligible[k])
    BY <1>3, <1>7, <2>1, MinOfTwo
  <2>3. launch # eligible[k] => Cardinality(launch) # Cardinality(eligible[k])
    BY <2>1, FS_Subset
  <2>4. Cardinality({}) = 0
    BY FS_EmptySet
  <2>5. Cardinality(launch) # 0 /\ Cardinality(launch) <= limit
        /\ (Cardinality(launch) # Cardinality(eligible[k]) => Cardinality(launch) = limit)
    BY ONLY <1>7, <2>1, <2>2
  <2> QED BY <2>3, <2>4, <2>5
<1>14. /\ results'[k] = [d \in Devices |-> "none"] /\ batch'[k] = eligible[k] /\ cap'[k] = limit
       /\ batches'[k] = batches[k] + 1 /\ batches[k] \in Nat /\ calledOff'[k] = FALSE
       /\ startable'[k] = FALSE /\ cancellable'[k] = TRUE
  BY <1>3, <1>5 DEF BatchTypeOK
<1>15. BatchTypeOK'
  <2>1. queue' \in [Dialogs -> Seq(Devices)]
    <3>1. queue' = [queue EXCEPT ![k] = rest]
      BY <1>1, <1>4, <1>8, ConcatEmptySeq DEF BatchTypeOK
    <3> QED BY <1>8, <3>1 DEF BatchTypeOK
  <2>2. worker' \in [Dialogs -> [Devices -> {"none", "running", "stopping"} \cup Outcomes]]
    BY <1>3 DEF BatchTypeOK, Launched
  <2>3. results' \in [Dialogs -> [Devices -> Outcomes \cup {"none"}]]
    BY <1>3 DEF BatchTypeOK
  <2>4. batches' \in [Dialogs -> 0..MaxBatches]
    <3>1. batches[k] + 1 \in 0..MaxBatches
      BY <1>5, BatchProvisionAssumption DEF BatchTypeOK
    <3> QED BY <1>3, <3>1 DEF BatchTypeOK
  <2>5. /\ batch' \in [Dialogs -> SUBSET Devices] /\ cap' \in [Dialogs -> Nat]
        /\ calledOff' \in [Dialogs -> BOOLEAN]
        /\ startable' \in [Dialogs -> BOOLEAN] /\ cancellable' \in [Dialogs -> BOOLEAN]
    BY <1>3, <1>5, <1>7 DEF BatchTypeOK
  <2> QED BY <1>6, <2>1, <2>2, <2>3, <2>4, <2>5 DEF BatchTypeOK
<1>16. DialogInv(k)'
  <2>1. /\ Busy(k)' = eligible[k] /\ AnyBusy(k)' = TRUE
        /\ Resolved(k)' = {}
    BY <1>1, <1>10, <1>12, <1>14 DEF Busy, AnyBusy, Resolved
  <2>2. Partition(k)'
    BY <1>10, <1>12, <1>14, <2>1 DEF Partition
  <2>3. Slots(k)'
    BY <1>8, <1>9, <1>12, <1>13, <1>14 DEF Slots
  <2>4. Reported(k)'
    <3>1. Len(reports[k]) = batches[k] - 0
      BY <1>1 DEF AllBooks, DialogInv, Reported
    <3>2. Len(reports'[k]) = batches'[k] - 1
      BY <1>6, <1>14, <3>1
    <3> QED BY <2>1, <3>2 DEF Reported
  <2>5. Buttons(k)'
    BY <1>14, <2>1 DEF Buttons
  <2>6. ~(k > opened)
    BY <1>5 DEF BatchTypeOK, Dialogs
  <2>7. Offered(k)'
    BY <1>6, <1>14, <2>6 DEF Offered
  <2> QED BY <1>14, <2>2, <2>3, <2>4, <2>5, <2>7 DEF DialogInv
<1>17. opened' \in Nat /\ opened <= opened'
  BY <1>6, DialogTypes
<1>18. \A x \in Dialogs \ {k} :
          UNCHANGED <<eligible[x], queue[x], worker[x], results[x], startable[x],
                      cancellable[x], batch[x], cap[x], calledOff[x], batches[x], reports[x]>>
  BY <1>3, <1>4, <1>5, <1>6 DEF BatchTypeOK
<1>19. AllBooks'
  BY <1>16, <1>17, <1>18, OtherDialogs
<1> QED BY <1>1, <1>6, <1>10, <1>12, <1>13, <1>14, <1>15, <1>18, <1>19

LEMMA BooksByOpen ==
    ASSUME BatchTypeOK, AllBooks, NEW excluded, OpenBatchDialog(excluded)
    PROVE  /\ BatchTypeOK' /\ AllBooks' /\ UNCHANGED <<queue, worker, log, calledOff>>
           /\ shown' = opened + 1 /\ eligible'[opened + 1] \subseteq Devices \ excluded
<1>0. opened + 1 \in Dialogs
  BY BatchProvisionAssumption DEF OpenBatchDialog, BatchTypeOK, Dialogs
<1> PICK k \in Dialogs : k = opened + 1
  BY <1>0
<1>1. PICK chosen \in SUBSET (Devices \ excluded) :
          /\ eligible' = [eligible EXCEPT ![k] = chosen]
          /\ startable' = [startable EXCEPT ![k] = chosen # {}]
  BY DEF OpenBatchDialog
<1>2. /\ opened < MaxDialogs /\ opened' = k /\ shown' = k
      /\ UNCHANGED <<queue, worker, results, cancellable, batch, cap, batches, calledOff, log,
                     reports>>
  BY DEF OpenBatchDialog, startVars
<1>3. opened \in 0..MaxDialogs /\ k > opened /\ opened' \in 0..MaxDialogs
      /\ opened' \in Nat /\ opened <= opened' /\ shown' \in 0..opened'
  BY <1>2, BatchProvisionAssumption DEF BatchTypeOK, Dialogs
<1>4. DialogInv(k) /\ batch[k] = {}
  BY <1>3 DEF AllBooks, DialogInv, Offered
<1>5. (chosen # {}) \in BOOLEAN
  OBVIOUS
<1>6. /\ eligible'[k] = chosen /\ startable'[k] = (chosen # {})
      /\ eligible' \in [Dialogs -> SUBSET Devices] /\ startable' \in [Dialogs -> BOOLEAN]
  BY <1>1, <1>3, <1>5 DEF BatchTypeOK
<1>7. BatchTypeOK'
  BY <1>2, <1>3, <1>6 DEF BatchTypeOK
<1>8. /\ Queued(k)' = Queued(k) /\ Working(k)' = Working(k) /\ Resolved(k)' = Resolved(k)
      /\ Good(k)' = Good(k) /\ (AnyBusy(k)' <=> AnyBusy(k)) /\ Busy(k)' = Busy(k)
  BY <1>2 DEF Queued, Working, Resolved, Good, AnyBusy, Busy
<1>9. Partition(k)' /\ Slots(k)' /\ Offered(k)'
  BY <1>2, <1>3, <1>4, <1>8 DEF DialogInv, Partition, Slots, Offered
<1>10. Reported(k)'
  BY <1>2, <1>4, <1>8 DEF DialogInv, Reported
<1>11. Buttons(k)'
  <2>1. ~AnyBusy(k)
    BY <1>3, <1>4, DialogTypes DEF DialogInv, Partition
  <2>2. cancellable'[k] = AnyBusy(k)'
    BY <1>2, <1>4, <1>8, <2>1 DEF DialogInv, Buttons, AnyBusy
  <2>3. startable'[k] = (~AnyBusy(k)' /\ eligible'[k] # {})
    BY <1>6, <1>8, <2>1
  <2> QED BY <2>2, <2>3 DEF Buttons
<1>12. DialogInv(k)'
  BY <1>2, <1>4, <1>9, <1>10, <1>11 DEF DialogInv
<1>13. \A x \in Dialogs \ {k} :
          UNCHANGED <<eligible[x], queue[x], worker[x], results[x], startable[x],
                      cancellable[x], batch[x], cap[x], calledOff[x], batches[x], reports[x]>>
  BY <1>1, <1>2 DEF BatchTypeOK
<1>14. AllBooks'
  BY <1>3, <1>12, <1>13, OtherDialogs
<1> QED BY <1>1, <1>2, <1>6, <1>7, <1>14

\* Only the books of k, and what a dialog shows, are touched by a step of k.
LEMMA BooksByCancel ==
    ASSUME BatchTypeOK, AllBooks, NEW k \in Dialogs, CancelAll(k), shown' \in 0..opened
    PROVE  /\ BatchTypeOK' /\ AllBooks' /\ eligible' = eligible
           /\ \A x \in Dialogs : Working(x)' = Working(x)
           /\ \A x \in Dialogs \ {k} : queue'[x] = queue[x] /\ log'[x] = log[x]
           /\ queue'[k] = <<>>
           /\ \A d \in Devices :
                 log'[k][d] = IF d \in Queued(k) THEN Append(log[k][d], "failed") ELSE log[k][d]
<1> DEFINE out == Queued(k)
           res == [d \in Devices |-> IF d \in out THEN "failed" ELSE results[k][d]]
           stopped == [d \in Devices |-> IF worker[k][d] = "running" THEN "stopping"
                                         ELSE worker[k][d]]
<1>1. /\ queue' = [queue EXCEPT ![k] = <<>>]
      /\ results' = [results EXCEPT ![k] = res]
      /\ log' = [log EXCEPT ![k] =
                    [d \in Devices |-> IF d \in out THEN Append(@[d], "failed") ELSE @[d]]]
      /\ worker' = [worker EXCEPT ![k] =
                       [d \in Devices |-> IF @[d] = "running" THEN "stopping" ELSE @[d]]]
      /\ calledOff' = [calledOff EXCEPT ![k] = TRUE]
      /\ IF out = {} THEN UNCHANGED <<reports, startable, cancellable>> ELSE FinishBatch(k, res)
  BY DEF CancelAll
<1>2. eligible' = eligible /\ opened' = opened /\ batch' = batch /\ cap' = cap
      /\ batches' = batches
  BY DEF CancelAll, startVars
<1>3. worker' = [worker EXCEPT ![k] = stopped]
  BY <1>1 DEF BatchTypeOK
<1>4. stopped \in [Devices -> {"none", "running", "stopping"} \cup Outcomes]
  BY DEF BatchTypeOK
<1>5. \A d \in Devices : stopped[d] = "none" <=> worker[k][d] = "none"
  BY DEF BatchTypeOK
<1>6. queue'[k] = <<>> /\ Queued(k)' = {} /\ worker'[k] = stopped
  BY <1>1, <1>3 DEF Queued, ToSet, BatchTypeOK
<1> HIDE DEF stopped
<1>7. Working(k)' = Working(k)
  BY <1>5, <1>6 DEF Working
<1>8. \A x \in Dialogs : Working(x)' = Working(x)
  BY <1>3, <1>7 DEF Working, BatchTypeOK
<1>9. res \in [Devices -> Outcomes \cup {"none"}] /\ results'[k] = res
  BY <1>1 DEF BatchTypeOK, Outcomes
<1>10. /\ Queued(k) \subseteq Devices /\ DialogInv(k) /\ opened \in Nat /\ opened' \in Nat
       /\ Queued(k) = {} <=> queue[k] = <<>>
       /\ shown' \in 0..opened'
  BY <1>2, DialogTypes DEF AllBooks
<1>11. /\ queue' \in [Dialogs -> Seq(Devices)]
       /\ worker' \in [Dialogs -> [Devices -> {"none", "running", "stopping"} \cup Outcomes]]
       /\ results' \in [Dialogs -> [Devices -> Outcomes \cup {"none"}]]
       /\ calledOff' \in [Dialogs -> BOOLEAN]
  BY <1>1, <1>3, <1>4, <1>9, EmptySeq DEF BatchTypeOK
<1>12. log' \in [Dialogs -> [Devices -> Seq(Outcomes)]]
  <2>1. \A d \in Devices : Append(log[k][d], "failed") \in Seq(Outcomes)
    BY AppendProperties DEF BatchTypeOK, Outcomes
  <2> QED BY <1>1, <2>1 DEF BatchTypeOK
<1>13. \A d \in Devices :
          log'[k][d] = IF d \in Queued(k) THEN Append(log[k][d], "failed") ELSE log[k][d]
  BY <1>1 DEF BatchTypeOK
<1>14. ASSUME startable' \in [Dialogs -> BOOLEAN], cancellable' \in [Dialogs -> BOOLEAN],
              reports' \in [Dialogs -> Seq(Nat \X Nat)]
       PROVE  BatchTypeOK'
  BY <1>2, <1>10, <1>11, <1>12, <1>14 DEF BatchTypeOK
<1>15. ASSUME NEW x \in Dialogs \ {k}
       PROVE  UNCHANGED <<eligible[x], queue[x], worker[x], results[x], batch[x], cap[x],
                          calledOff[x], batches[x], log[x]>>
  BY <1>1, <1>2, <1>15 DEF BatchTypeOK
<1>16. Slots(k)'
  <2>1. Len(<<>>) = 0
    BY EmptySeq
  <2> QED BY <1>2, <1>6, <1>7, <1>10, <2>1 DEF DialogInv, Slots, OneByOne
<1> HIDE DEF res
<1>17. CASE out = {}
  <2>1. UNCHANGED <<reports, startable, cancellable>>
    BY <1>1, <1>17
  <2>2. res = results[k]
    BY <1>17 DEF res, BatchTypeOK
  <2>3. queue[k] = <<>>
    BY <1>10, <1>17
  <2>4. Queued(k)' = Queued(k) /\ Resolved(k)' = Resolved(k) /\ Good(k)' = Good(k)
    BY <1>6, <1>9, <1>17, <2>2 DEF Resolved, Good
  <2>5. Busy(k)' = Busy(k) /\ (AnyBusy(k)' <=> AnyBusy(k))
    BY <1>7, <2>4 DEF Busy, AnyBusy
  <2>6. Partition(k)'
    BY <1>2, <1>7, <1>10, <2>4, <2>5 DEF DialogInv, Partition
  <2>7. Reported(k)'
    BY <1>2, <1>10, <2>1, <2>4, <2>5 DEF DialogInv, Reported
  <2>8. Buttons(k)'
    BY <1>2, <1>10, <2>1, <2>5 DEF DialogInv, Buttons, AnyBusy
  <2>9. Offered(k)'
    BY <1>2, <1>10 DEF DialogInv, Offered
  <2>10. DialogInv(k)'
    BY <1>6, <1>16, <2>6, <2>7, <2>8, <2>9 DEF DialogInv
  <2>11. startable' \in [Dialogs -> BOOLEAN] /\ cancellable' \in [Dialogs -> BOOLEAN]
         /\ reports' \in [Dialogs -> Seq(Nat \X Nat)]
    BY <2>1 DEF BatchTypeOK
  <2>12. opened <= opened'
    BY <1>2, <1>10
  <2>13. AllBooks'
    BY <1>10, <1>15, <2>1, <2>10, <2>12, OtherDialogs
  <2> QED BY <1>2, <1>6, <1>8, <1>13, <1>14, <1>15, <2>11, <2>13
<1>18. CASE out # {}
  <2>1. FinishBatch(k, res)
    BY <1>1, <1>18
  <2>2. /\ out \in SUBSET Busy(k) /\ Busy(k)' = Busy(k) \ out
        /\ (Queued(k) \cap Working(k))' = {}
    BY <1>6, <1>7, <1>10 DEF Busy, DialogInv, Partition
  <2>3. \A d \in Devices : IF d \in out THEN res[d] # "none" ELSE res[d] = results[k][d]
    BY DEF res
  <2>4. UNCHANGED <<batch, batches, eligible, opened>>
    BY <1>2
  <2> HIDE DEF out
  <2>5. /\ Partition(k)' /\ Reported(k)' /\ Buttons(k)' /\ Offered(k)'
        /\ startable' \in [Dialogs -> BOOLEAN] /\ cancellable' \in [Dialogs -> BOOLEAN]
        /\ reports' \in [Dialogs -> Seq(Nat \X Nat)]
        /\ \A x \in Dialogs \ {k} : UNCHANGED <<startable[x], cancellable[x], reports[x]>>
    BY <1>1, <1>9, <1>10, <1>18, <2>1, <2>2, <2>3, <2>4, FinishBooks
  <2>6. DialogInv(k)'
    BY <1>6, <1>16, <2>5 DEF DialogInv
  <2>7. opened <= opened'
    BY <1>2, <1>10
  <2>8. AllBooks'
    BY <1>10, <1>15, <2>5, <2>6, <2>7, OtherDialogs
  <2> QED BY <1>2, <1>6, <1>8, <1>13, <1>14, <1>15, <2>5, <2>8
<1> QED BY <1>17, <1>18

LEMMA BooksByEnd ==
    ASSUME BatchTypeOK, AllBooks, NEW k \in Dialogs, NEW d \in Devices, WorkerEnds(k, d)
    PROVE  /\ BatchTypeOK' /\ AllBooks' /\ UNCHANGED <<shown, opened, eligible, queue, calledOff, log>>
           /\ \A x \in Dialogs : Working(x)' = Working(x)
<1>1. PICK outcome \in Outcomes : worker' = [worker EXCEPT ![k][d] = outcome]
  BY DEF WorkerEnds
<1>2. /\ worker[k][d] # "none"
      /\ UNCHANGED <<shown, opened, eligible, queue, results, startable, cancellable, batch, cap,
                     batches, calledOff, log, reports>>
  BY DEF WorkerEnds, dialogVars, startVars
<1>3. \A x \in Dialogs, y \in Devices :
         worker'[x][y] = IF x = k /\ y = d THEN outcome ELSE worker[x][y]
  BY <1>1 DEF BatchTypeOK
<1>4. outcome # "none"
  BY DEF Outcomes
<1>5. \A x \in Dialogs : Working(x)' = Working(x)
  BY <1>2, <1>3, <1>4 DEF Working
<1>6. BatchTypeOK'
  BY <1>1, <1>2 DEF BatchTypeOK
<1>7. ASSUME NEW x \in Dialogs PROVE DialogInv(x)'
  BY <1>2, <1>5, DialogTypes, SameBooks DEF AllBooks
<1> QED BY <1>2, <1>5, <1>6, <1>7 DEF AllBooks

LEMMA BooksByFinish ==
    ASSUME BatchTypeOK, AllBooks, NEW k \in Dialogs, NEW d \in Devices, WorkerFinished(k, d)
    PROVE  /\ BatchTypeOK' /\ AllBooks' /\ UNCHANGED <<shown, opened, eligible, calledOff>>
           /\ NextOf(k) \subseteq Queued(k) /\ (NextOf(k) = {} <=> Queued(k) = {})
           /\ \A x, y \in NextOf(k) : x = y
           /\ d \in Working(k) /\ worker[k][d] \in Outcomes
           /\ Queued(k)' = Queued(k) \ NextOf(k)
           /\ Working(k)' = (Working(k) \ {d}) \cup NextOf(k)
           /\ log' = [log EXCEPT ![k][d] = Append(@, worker[k][d])]
           /\ \A x \in Dialogs \ {k} : UNCHANGED <<queue[x], worker[x]>>
<1> DEFINE outcome == worker[k][d]
           res == [results[k] EXCEPT ![d] = outcome]
           next == NextOf(k)
           left == [x \in Devices |-> IF x \in next THEN "running"
                                      ELSE IF x = d THEN "none" ELSE worker[k][x]]
<1>1. /\ outcome \in Outcomes
      /\ results' = [results EXCEPT ![k] = res]
      /\ log' = [log EXCEPT ![k][d] = Append(@, outcome)]
      /\ worker' = [worker EXCEPT ![k] = Launched([@ EXCEPT ![d] = "none"], next)]
      /\ queue' = [queue EXCEPT ![k] = IF @ = <<>> THEN @ ELSE Tail(@)]
      /\ FinishBatch(k, res)
  BY DEF WorkerFinished, Handover
<1>2. UNCHANGED <<shown, opened, eligible, batch, cap, batches, calledOff>>
  BY DEF WorkerFinished, dialogVars, startVars
<1>3. DialogInv(k) /\ queue[k] \in Seq(Devices) /\ Queued(k) \subseteq Devices
      /\ Working(k) \subseteq Devices /\ (Queued(k) = {} <=> queue[k] = <<>>)
      /\ opened \in Nat
  BY DialogTypes DEF AllBooks
<1>4. outcome # "none" /\ d \in Working(k)
  BY <1>1 DEF Outcomes, Working
<1>5. worker' = [worker EXCEPT ![k] = left] /\ worker'[k] = left
  BY <1>1 DEF Launched, BatchTypeOK
<1>6. /\ next \subseteq Queued(k) /\ (next = {} <=> Queued(k) = {}) /\ (\A x, y \in next : x = y)
      /\ Queued(k)' = Queued(k) \ next /\ OneByOne(queue'[k])
      /\ queue' \in [Dialogs -> Seq(Devices)]
      /\ next # {} => next = {Head(queue[k])}
  <2>1. queue'[k] = IF queue[k] = <<>> THEN queue[k] ELSE Tail(queue[k])
    BY <1>1 DEF BatchTypeOK
  <2>2. OneByOne(queue[k])
    BY <1>3 DEF DialogInv, Slots
  <2>3. CASE queue[k] = <<>>
    <3>1. next = {} /\ queue'[k] = queue[k] /\ queue' = queue
      BY <1>1, <2>1, <2>3 DEF NextOf, BatchTypeOK
    <3> QED BY <1>3, <2>2, <2>3, <3>1 DEF Queued, BatchTypeOK
  <2>4. CASE queue[k] # <<>>
    <3>1. /\ Tail(queue[k]) \in Seq(Devices) /\ OneByOne(Tail(queue[k]))
          /\ Head(queue[k]) \in Queued(k)
          /\ ToSet(Tail(queue[k])) = Queued(k) \ {Head(queue[k])}
      BY <1>3, <2>2, <2>4, TailSet DEF Queued
    <3>2. next = {Head(queue[k])} /\ queue'[k] = Tail(queue[k])
      BY <2>1, <2>4 DEF NextOf
    <3>3. Queued(k)' = Queued(k) \ next
      BY <3>1, <3>2 DEF Queued
    <3>4. queue' \in [Dialogs -> Seq(Devices)]
      BY <1>1, <2>4, <3>1 DEF BatchTypeOK
    <3> QED BY <3>1, <3>2, <3>3, <3>4
  <2> QED BY <2>3, <2>4
<1> HIDE DEF next
<1>7. Queued(k) \cap Working(k) = {} /\ d \notin Queued(k)
  BY <1>3, <1>4 DEF DialogInv, Partition
<1>8. Working(k)' = (Working(k) \ {d}) \cup next
  BY <1>3, <1>5, <1>6 DEF Working
<1>9. left \in [Devices -> {"none", "running", "stopping"} \cup Outcomes]
  BY DEF BatchTypeOK
<1> HIDE DEF left
<1>10. res \in [Devices -> Outcomes \cup {"none"}]
       /\ \A x \in Devices : IF x \in {d} THEN res[x] # "none" ELSE res[x] = results[k][x]
  BY <1>1, <1>4 DEF BatchTypeOK
<1> HIDE DEF res
<1>11. /\ {d} \in SUBSET Busy(k) /\ {d} # {} /\ Busy(k)' = Busy(k) \ {d}
       /\ (Queued(k) \cap Working(k))' = {}
  BY <1>4, <1>6, <1>7, <1>8 DEF Busy
<1>12. UNCHANGED <<batch, batches, eligible, opened>>
  BY <1>2
<1>13. /\ Partition(k)' /\ Reported(k)' /\ Buttons(k)' /\ Offered(k)'
       /\ startable' \in [Dialogs -> BOOLEAN] /\ cancellable' \in [Dialogs -> BOOLEAN]
       /\ reports' \in [Dialogs -> Seq(Nat \X Nat)]
       /\ \A x \in Dialogs \ {k} : UNCHANGED <<startable[x], cancellable[x], reports[x]>>
  BY <1>1, <1>3, <1>10, <1>11, <1>12, FinishBooks
<1>14. Slots(k)'
  <2>1. /\ Cardinality(Working(k)) <= cap[k] /\ cap[k] \in Nat
        /\ queue[k] # <<>> => Cardinality(Working(k)) = cap[k]
    BY <1>3, DialogTypes DEF DialogInv, Slots
  <2>2. IsFiniteSet(Working(k)) /\ Cardinality(Working(k)) \in Nat
    BY <1>3, Finite
  <2>3. /\ IsFiniteSet(Working(k) \ {d})
        /\ Cardinality(Working(k) \ {d}) = Cardinality(Working(k)) - 1
    BY <1>4, <2>2, FS_RemoveElement
  <2>4. cap'[k] = cap[k]
    BY <1>2
  <2>5. CASE next = {}
    <3>1. Working(k)' = Working(k) \ {d} /\ queue'[k] = <<>>
      BY <1>1, <1>3, <1>6, <1>8, <2>5 DEF BatchTypeOK
    <3>2. Cardinality(Working(k)') <= cap[k]
      BY <2>1, <2>2, <2>3, <3>1
    <3> QED BY <1>6, <2>4, <3>1, <3>2 DEF Slots
  <2>6. CASE next # {}
    <3>1. /\ Working(k)' = (Working(k) \ {d}) \cup {Head(queue[k])}
          /\ Head(queue[k]) \notin Working(k) \ {d} /\ queue[k] # <<>>
      BY <1>3, <1>6, <1>7, <1>8, <2>6
    <3>2. Cardinality(Working(k)') = Cardinality(Working(k) \ {d}) + 1
      BY <2>3, <3>1, FS_AddElement
    <3>3. Cardinality(Working(k)') = cap[k]
      BY <2>1, <2>2, <2>3, <3>1, <3>2
    <3> QED BY <1>6, <2>1, <2>4, <3>3 DEF Slots
  <2> QED BY <2>5, <2>6
<1>15. calledOff'[k] => queue'[k] = <<>>
  BY <1>1, <1>2, <1>3 DEF DialogInv, BatchTypeOK
<1>16. DialogInv(k)'
  BY <1>13, <1>14, <1>15 DEF DialogInv
<1>17. BatchTypeOK'
  <2>1. log' \in [Dialogs -> [Devices -> Seq(Outcomes)]]
    <3>1. Append(log[k][d], outcome) \in Seq(Outcomes)
      BY <1>1, AppendProperties DEF BatchTypeOK
    <3> QED BY <1>1, <3>1 DEF BatchTypeOK
  <2>2. worker' \in [Dialogs -> [Devices -> {"none", "running", "stopping"} \cup Outcomes]]
    BY <1>5, <1>9 DEF BatchTypeOK
  <2>3. results' \in [Dialogs -> [Devices -> Outcomes \cup {"none"}]]
    BY <1>1, <1>10 DEF BatchTypeOK
  <2> QED BY <1>2, <1>6, <1>13, <2>1, <2>2, <2>3 DEF BatchTypeOK
<1>18. ASSUME NEW x \in Dialogs \ {k}
       PROVE  UNCHANGED <<eligible[x], queue[x], worker[x], results[x], batch[x], cap[x],
                          calledOff[x], batches[x]>>
  BY <1>1, <1>2, <1>5 DEF BatchTypeOK
<1>19. opened' \in Nat /\ opened <= opened'
  BY <1>2, <1>3
<1>20. AllBooks'
  BY <1>13, <1>16, <1>18, <1>19, OtherDialogs
<1> QED BY <1>1, <1>2, <1>4, <1>6, <1>8, <1>17, <1>18, <1>20 DEF next

-----------------------------------------------------------------------------
(* All the dialogs, and what is in front. *)

LEMMA BooksByHiding ==
    ASSUME BatchTypeOK, AllBooks, shown' = 0,
           UNCHANGED <<opened, eligible, queue, worker, results, startable, cancellable,
                       startVars, calledOff, log, reports>>
    PROVE  BatchTypeOK' /\ AllBooks'
<1>1. UNCHANGED <<opened, eligible, queue, worker, results, startable, cancellable, batch, cap,
                  batches, calledOff, log, reports>>
  BY DEF startVars
<1>2. BatchTypeOK'
  BY <1>1 DEF BatchTypeOK
<1>3. ASSUME NEW x \in Dialogs PROVE DialogInv(x)'
  <2>1. Working(x)' = Working(x)
    BY <1>1 DEF Working
  <2> QED BY <1>1, <2>1, DialogTypes, SameBooks DEF AllBooks
<1> QED BY <1>2, <1>3 DEF AllBooks

LEMMA BooksStep ==
    ASSUME BatchTypeOK, AllBooks, BatchNext
    PROVE  BatchTypeOK' /\ AllBooks' /\ eligible' = eligible /\ shown' \in {shown, 0}
<1>1. ASSUME NEW k \in Dialogs, StartBatch(k)
      PROVE  BatchTypeOK' /\ AllBooks' /\ eligible' = eligible /\ shown' \in {shown, 0}
  BY <1>1, BooksByStart DEF StartBatch, dialogVars
<1>2. ASSUME NEW k \in Dialogs, CancelAll(k), shown' \in {shown, 0}
      PROVE  BatchTypeOK' /\ AllBooks' /\ eligible' = eligible /\ shown' \in {shown, 0}
  <2>1. shown' \in 0..opened
    BY <1>2 DEF BatchTypeOK
  <2> QED BY <1>2, <2>1, BooksByCancel
<1>3. ASSUME shown' = 0,
             UNCHANGED <<opened, eligible, queue, worker, results, startable, cancellable,
                         startVars, calledOff, log, reports>>
      PROVE  BatchTypeOK' /\ AllBooks' /\ eligible' = eligible /\ shown' \in {shown, 0}
  BY <1>3, BooksByHiding
<1>4. ASSUME NEW k \in Dialogs, CancelButton(k) \/ CloseWindow(k) \/ CloseButton(k)
      PROVE  BatchTypeOK' /\ AllBooks' /\ eligible' = eligible /\ shown' \in {shown, 0}
  BY <1>2, <1>3, <1>4 DEF CancelButton, CloseWindow, CloseButton
<1>5. ASSUME NEW k \in Dialogs, NEW d \in Devices, WorkerEnds(k, d) \/ WorkerFinished(k, d)
      PROVE  BatchTypeOK' /\ AllBooks' /\ eligible' = eligible /\ shown' \in {shown, 0}
  BY <1>5, BooksByEnd, BooksByFinish
<1> QED BY <1>1, <1>4, <1>5 DEF BatchNext

LEMMA ReadTypes ==
    ASSUME Read!ReadTypeOK, Read!ReadNext
    PROVE  Read!ReadTypeOK' /\ readOf' = readOf /\ readShown' \in {readShown, 0}
<1>1. PICK r \in Read!Reads :
         Read!ChangeMode(r) \/ Read!RunRead(r) \/ Read!ReaderEnds(r) \/ Read!ReadFinished(r)
            \/ Read!CloseReadWindow(r) \/ Read!CloseReadButton(r)
  BY DEF Read!ReadNext
<1>2. readOf' = readOf /\ readOpened' = readOpened /\ readShown' \in {readShown, 0}
  BY <1>1 DEF Read!ChangeMode, Read!RunRead, Read!ReaderEnds, Read!ReadFinished,
              Read!CloseReadWindow, Read!CloseReadButton
<1>3. readShown' \in 0..readOpened' /\ readOpened' \in 0..MaxReads
      /\ DOMAIN readOf' = Read!Reads /\ \A x \in 1..readOpened' : readOf'[x] \in Devices
  BY <1>2 DEF Read!ReadTypeOK
<1>4. CASE Read!ChangeMode(r)
  BY <1>3, <1>4 DEF Read!ReadTypeOK, Read!ChangeMode
<1>5. CASE Read!RunRead(r)
  BY <1>3, <1>5 DEF Read!ReadTypeOK, Read!RunRead
<1>6. CASE Read!ReaderEnds(r)
  <2>1. reader' \in [Read!Reads -> {"none", "running", "stopping", "lost"} \cup Read!Answers]
    <3>1. PICK end \in {"failed", "lost", "nothing"} \cup {"on", "off"} :
              reader' = [reader EXCEPT ![r] = end]
      BY <1>6 DEF Read!ReaderEnds
    <3> QED BY <3>1 DEF Read!ReadTypeOK, Read!Answers
  <2> QED BY <1>3, <1>6, <2>1 DEF Read!ReadTypeOK, Read!ReaderEnds
<1>7. CASE Read!ReadFinished(r)
  <2>1. detected' \in [Devices -> {"unknown", "on", "off"}]
    BY <1>7 DEF Read!ReadFinished, Read!ReadTypeOK
  <2> QED BY <1>3, <1>7, <2>1 DEF Read!ReadTypeOK, Read!ReadFinished
<1>8. CASE Read!CloseReadWindow(r) \/ Read!CloseReadButton(r)
  BY <1>3, <1>8 DEF Read!ReadTypeOK, Read!CloseReadWindow, Read!CloseReadButton
<1> QED BY <1>1, <1>2, <1>4, <1>5, <1>6, <1>7, <1>8

\* A reader runs only with its button disabled.
LEMMA ReadButtons ==
    ASSUME Read!ReadTypeOK, Read!ReadNext, \A r \in Read!Reads : runnable[r] => reader[r] = "none"
    PROVE  \A r \in Read!Reads : runnable'[r] => reader'[r] = "none"
<1>1. PICK r \in Read!Reads :
         Read!ChangeMode(r) \/ Read!RunRead(r) \/ Read!ReaderEnds(r) \/ Read!ReadFinished(r)
            \/ Read!CloseReadWindow(r) \/ Read!CloseReadButton(r)
  BY DEF Read!ReadNext
<1>2. /\ reader \in [Read!Reads -> {"none", "running", "stopping", "lost"} \cup Read!Answers]
      /\ runnable \in [Read!Reads -> BOOLEAN]
  BY DEF Read!ReadTypeOK
<1>3. CASE Read!ChangeMode(r) \/ Read!CloseReadButton(r)
  BY <1>3 DEF Read!ChangeMode, Read!CloseReadButton
<1>4. CASE Read!RunRead(r)
  BY <1>2, <1>4 DEF Read!RunRead
<1>5. CASE Read!ReaderEnds(r)
  <2>1. reader[r] # "none" /\ runnable' = runnable
    BY <1>5 DEF Read!ReaderEnds, Read!Reading
  <2>2. \A x \in Read!Reads \ {r} : reader'[x] = reader[x]
    BY <1>2, <1>5 DEF Read!ReaderEnds
  <2> QED BY <2>1, <2>2
<1>6. CASE Read!ReadFinished(r)
  BY <1>2, <1>6 DEF Read!ReadFinished
<1>7. CASE Read!CloseReadWindow(r)
  BY <1>2, <1>7 DEF Read!CloseReadWindow
<1> QED BY <1>1, <1>3, <1>4, <1>5, <1>6, <1>7

LEMMA PortStarts == PortInit => PortInv
<1> SUFFICES ASSUME PortInit PROVE PortInv
  OBVIOUS
<1>1. BatchTypeOK
  <2>1. <<>> \in Seq(Devices) /\ <<>> \in Seq(Outcomes) /\ <<>> \in Seq(Nat \X Nat)
    BY EmptySeq
  <2>2. 0 \in 0..MaxDialogs /\ 0 \in 0..MaxBatches /\ 0 \in 0..0
    BY BatchProvisionAssumption
  <2> QED BY <2>1, <2>2 DEF PortInit, BatchInit, BatchTypeOK
<1>2. Read!ReadTypeOK
  <2>1. 0 \in 0..MaxReads /\ 0 \in 0..0 /\ 1..0 = {}
    BY PortAssumption
  <2> QED BY <2>1 DEF PortInit, Read!ReadInit, Read!ReadTypeOK, Read!Modes
<1>3. FrontInv /\ flashing \subseteq Devices
  BY DEF PortInit, BatchInit, Read!ReadInit, FrontInv
<1>4. ASSUME NEW k \in Dialogs PROVE DialogInv(k)
  <2>1. /\ queue[k] = <<>> /\ \A d \in Devices : worker[k][d] = "none" /\ results[k][d] = "none"
    BY DEF PortInit, BatchInit
  <2>2. /\ startable[k] = FALSE /\ cancellable[k] = FALSE /\ batch[k] = {} /\ cap[k] = 0
        /\ batches[k] = 0 /\ reports[k] = <<>> /\ eligible[k] = {} /\ calledOff[k] = FALSE
    BY DEF PortInit, BatchInit
  <2>3. Queued(k) = {} /\ Working(k) = {} /\ Resolved(k) = {}
    <3>1. Queued(k) = {}
      BY <1>1, <2>1, DialogTypes
    <3> QED BY <2>1, <3>1 DEF Working, Resolved
  <2>4. Busy(k) = {} /\ ~AnyBusy(k)
    BY <2>3 DEF Busy, AnyBusy
  <2>5. Partition(k) /\ Offered(k)
    BY <2>2, <2>3, <2>4 DEF Partition, Offered
  <2>6. Slots(k)
    <3>1. Cardinality({}) = 0 /\ Len(<<>>) = 0 /\ 0 <= 0 /\ 1..0 = {}
      BY FS_EmptySet, EmptySeq
    <3> QED BY <2>1, <2>2, <2>3, <3>1 DEF Slots, OneByOne
  <2>7. Reported(k)
    <3>1. Len(<<>>) = 0 - 0 /\ ~(0 > 0)
      BY EmptySeq
    <3> QED BY <2>2, <2>4, <3>1 DEF Reported
  <2>8. Buttons(k)
    <3>1. cancellable[k] = AnyBusy(k)
      BY <2>2, <2>4 DEF AnyBusy
    <3>2. startable[k] = (~AnyBusy(k) /\ eligible[k] # {})
      BY <2>2
    <3> QED BY <3>1, <3>2 DEF Buttons
  <2> QED BY <2>1, <2>5, <2>6, <2>7, <2>8 DEF DialogInv
<1> QED BY <1>1, <1>2, <1>3, <1>4 DEF PortInv, PortTypeOK

LEMMA PortStep ==
    ASSUME PortInv, [PortNext]_portVars
    PROVE  PortInv'
<1>0. /\ BatchTypeOK /\ AllBooks /\ Read!ReadTypeOK /\ FrontInv /\ flashing \subseteq Devices
      /\ PortInv' <=> BatchTypeOK' /\ AllBooks' /\ Read!ReadTypeOK' /\ FrontInv'
                      /\ flashing' \subseteq Devices
  BY DEF PortInv, PortTypeOK, AllBooks
<1>1. ASSUME UNCHANGED batchVars PROVE BatchTypeOK' /\ AllBooks'
  <2>1. UNCHANGED <<shown, opened, eligible, queue, worker, results, startable, cancellable,
                    batch, cap, calledOff, log, batches, reports>>
    BY <1>1 DEF batchVars
  <2>2. BatchTypeOK'
    BY <1>0, <2>1 DEF BatchTypeOK
  <2>3. ASSUME NEW x \in Dialogs PROVE DialogInv(x)'
    <3>1. Working(x)' = Working(x)
      BY <2>1 DEF Working
    <3> QED BY <1>0, <2>1, <3>1, DialogTypes, SameBooks DEF AllBooks
  <2> QED BY <2>2, <2>3 DEF AllBooks
<1>2. ASSUME UNCHANGED readVars PROVE Read!ReadTypeOK'
  BY <1>0, <1>2 DEF readVars, Read!ReadTypeOK
<1>3. CASE BatchNext /\ UNCHANGED <<readVars, flashing>>
  <2>1. BatchTypeOK' /\ AllBooks' /\ eligible' = eligible /\ shown' \in {shown, 0}
    BY <1>0, <1>3, BooksStep
  <2>2. FrontInv'
    BY <1>0, <1>3, <2>1 DEF FrontInv, readVars
  <2> QED BY <1>0, <1>2, <1>3, <2>1, <2>2
<1>4. CASE Read!ReadNext /\ UNCHANGED <<batchVars, flashing>>
  <2>1. Read!ReadTypeOK' /\ readOf' = readOf /\ readShown' \in {readShown, 0}
    BY <1>0, <1>4, ReadTypes
  <2>2. \A r \in Read!Reads : runnable'[r] => reader'[r] = "none"
    BY <1>0, <1>4, ReadButtons DEF FrontInv
  <2>3. FrontInv'
    BY <1>0, <1>4, <2>1, <2>2 DEF FrontInv, batchVars
  <2> QED BY <1>0, <1>1, <1>4, <2>1, <2>3
<1>5. CASE OpenBatch
  <2>1. /\ BatchTypeOK' /\ AllBooks' /\ shown' = opened + 1
        /\ eligible'[opened + 1] \subseteq Devices \ flashing
    BY <1>0, <1>5, BooksByOpen DEF OpenBatch
  <2>2. FrontInv'
    BY <1>0, <1>5, <2>1 DEF FrontInv, OpenBatch, readVars
  <2> QED BY <1>0, <1>2, <1>5, <2>1, <2>2 DEF OpenBatch
<1>6. CASE OpenRead
  <2>1. PICK d \in Devices : Read!OpenReadDialog(d, flashing)
    BY <1>6 DEF OpenRead
  <2>2. UNCHANGED batchVars /\ flashing' = flashing
    BY <1>6 DEF OpenRead
  <2>3. /\ readOpened < MaxReads /\ d \notin flashing
        /\ readOpened' = readOpened + 1 /\ readShown' = readOpened + 1
        /\ readOf' = [readOf EXCEPT ![readOpened + 1] = d]
        /\ UNCHANGED <<combo, reader, mode, runnable, detected>>
    BY <2>1 DEF Read!OpenReadDialog
  <2>4. readOpened \in 0..MaxReads /\ readOpened + 1 \in 1..MaxReads /\ MaxReads \in Nat
    BY <1>0, <2>3, PortAssumption DEF Read!ReadTypeOK
  <2>5. \A x \in 1..(readOpened + 1) : x = readOpened + 1 \/ x \in 1..readOpened
    BY <2>4
  <2>6. DOMAIN readOf' = 1..MaxReads /\ readOf'[readOpened + 1] = d
        /\ \A x \in 1..readOpened' : readOf'[x] \in Devices
    BY <1>0, <2>3, <2>4, <2>5 DEF Read!ReadTypeOK, Read!Reads
  <2>7. readShown' \in 0..readOpened' /\ readOpened' \in 0..MaxReads
    BY <2>3, <2>4
  <2>8. Read!ReadTypeOK'
    BY <1>0, <2>3, <2>6, <2>7 DEF Read!ReadTypeOK, Read!Reads
  <2>9. FrontInv'
    BY <1>0, <2>2, <2>3, <2>6 DEF FrontInv, batchVars
  <2> QED BY <1>0, <1>1, <2>2, <2>8, <2>9
<1>7. ASSUME NEW d \in Devices, Upload(d) \/ UploadEnds(d) PROVE PortInv'
  <2>1. UNCHANGED batchVars /\ UNCHANGED readVars /\ flashing' \subseteq Devices
    BY <1>0, <1>7 DEF Upload, UploadEnds
  <2>2. (shown = 0 /\ readShown = 0) \/ flashing' \subseteq flashing
    BY <1>7 DEF Upload, UploadEnds, Attended
  <2>3. FrontInv'
    BY <1>0, <2>1, <2>2 DEF FrontInv, batchVars, readVars
  <2> QED BY <1>0, <1>1, <1>2, <2>1, <2>3
<1>8. CASE UNCHANGED portVars
  <2>1. UNCHANGED batchVars /\ UNCHANGED readVars /\ flashing' = flashing
    BY <1>8 DEF portVars
  <2>2. FrontInv'
    BY <1>0, <2>1 DEF FrontInv, batchVars, readVars
  <2> QED BY <1>0, <1>1, <1>2, <2>1, <2>2
<1> QED BY <1>3, <1>4, <1>5, <1>6, <1>7, <1>8 DEF PortNext

LEMMA PortAlways == PortSpec => []PortInv
BY PortStarts, PortStep, PTL DEF PortSpec

-----------------------------------------------------------------------------
(* The properties. *)

\* The books of every batch controller balance at every step, for any devices,
\* limits and number of dialogs, in whatever order the workers end and the
\* user cancels: nothing is lost between queue, worker and result, the limit
\* is used up while somebody waits, and each batch is reported once with the
\* counts of its results.
THEOREM BooksBalance == PortSpec => []BatchBooks
<1>1. ASSUME PortInv PROVE BatchBooks
  <2>1. PortTypeOK /\ BatchTypeOK
    BY <1>1 DEF PortInv, PortTypeOK
  <2>2. ASSUME NEW k \in Dialogs
        PROVE  LET resolved == {d \in Devices : results[k][d] # "none"}
                   good == {d \in Devices : results[k][d] = "ok"}
               IN  /\ Queued(k) \cup Working(k) \cup resolved = batch[k]
                   /\ Queued(k) \cap Working(k) = {}
                   /\ resolved \cap (Queued(k) \cup Working(k)) = {}
                   /\ Len(queue[k]) = Cardinality(Queued(k))
                   /\ Cardinality(Working(k)) <= cap[k]
                   /\ queue[k] # <<>> => Cardinality(Working(k)) = cap[k]
                   /\ Len(reports[k]) = batches[k] - (IF AnyBusy(k) THEN 1 ELSE 0)
                   /\ ~AnyBusy(k) /\ batches[k] > 0 =>
                         Last(reports[k]) = <<Cardinality(good), Cardinality(batch[k] \ good)>>
                   /\ cancellable[k] = AnyBusy(k)
                   /\ startable[k] = (~AnyBusy(k) /\ eligible[k] # {})
    <3>1. DialogInv(k)
      BY <1>1 DEF PortInv
    <3>2. Len(queue[k]) = Cardinality(Queued(k))
      <4>1. queue[k] \in Seq(Devices) /\ OneByOne(queue[k])
        BY <2>1, <3>1, DialogTypes DEF DialogInv, Slots
      <4> QED BY <4>1, ListedCardinality DEF Queued
    <3>3. Partition(k) /\ Slots(k) /\ Reported(k) /\ Buttons(k)
      BY <3>1 DEF DialogInv
    <3>4. /\ cancellable[k] = AnyBusy(k)
          /\ startable[k] = (~AnyBusy(k) /\ eligible[k] # {})
      BY <3>3 DEF Buttons
    <3>5. /\ Len(reports[k]) = batches[k] - (IF AnyBusy(k) THEN 1 ELSE 0)
          /\ ~AnyBusy(k) /\ batches[k] > 0 =>
                Last(reports[k]) = <<Cardinality(Good(k)), Cardinality(batch[k] \ Good(k))>>
      BY <3>3 DEF Reported
    <3>6. /\ Cardinality(Working(k)) <= cap[k]
          /\ queue[k] # <<>> => Cardinality(Working(k)) = cap[k]
      BY <3>3 DEF Slots
    <3>7. /\ Queued(k) \cup Working(k) \cup Resolved(k) = batch[k]
          /\ Queued(k) \cap Working(k) = {}
          /\ Resolved(k) \cap (Queued(k) \cup Working(k)) = {}
      BY <3>3 DEF Partition, Busy
    <3> QED BY <3>2, <3>4, <3>5, <3>6, <3>7, Zenon DEF Resolved, Good
  <2> QED BY <2>1, <2>2 DEF BatchBooks
<1> QED BY <1>1, PortAlways, PTL

\* The dialog in front never burns or reads a device that is being flashed, and
\* never starts a second read over a first, however many dialogs were hidden
\* with their workers before.
THEOREM FrontStaysClear == PortSpec => []FrontSparesFlash
<1>1. ASSUME PortInv PROVE FrontSparesFlash
  <2>1. BatchTypeOK /\ FrontInv
    BY <1>1 DEF PortInv, PortTypeOK
  <2>2. ASSUME shown # 0 PROVE Working(shown) \cap flashing = {}
    <3>1. shown \in Dialogs
      BY <2>1, <2>2, BatchProvisionAssumption DEF BatchTypeOK, Dialogs
    <3>2. DialogInv(shown)
      BY <1>1, <3>1 DEF PortInv
    <3>3. Working(shown) \subseteq eligible[shown]
      BY <3>2 DEF DialogInv, Partition, Offered, Busy
    <3> QED BY <2>1, <2>2, <3>3 DEF FrontInv
  <2> QED BY <2>1, <2>2 DEF FrontSparesFlash, FrontInv
<1> QED BY <1>1, PortAlways, PTL

\* What a step of the controllers does to one of them.
LEMMA PoolStep ==
    ASSUME BatchTypeOK, AllBooks, BatchNext, NEW x \in Dialogs
    PROVE  /\ Pool(x)!Next \/ UNCHANGED Pool(x)!jobVars
           /\ calledOff[x] /\ calledOff'[x] => Working(x)' \subseteq Working(x)
<1>0. BatchTypeOK'
  BY BooksStep
<1>1. ASSUME UNCHANGED <<queue[x], log[x]>>, Working(x)' = Working(x)
      PROVE  /\ UNCHANGED Pool(x)!jobVars
             /\ Working(x)' \subseteq Working(x)
  <2>1. Queued(x)' = Queued(x)
    BY <1>1 DEF Queued
  <2> QED BY <1>1, <2>1 DEF Pool!jobVars
<1>2. ASSUME NEW k \in Dialogs, StartBatch(k)
      PROVE  /\ Pool(x)!Next \/ UNCHANGED Pool(x)!jobVars
             /\ calledOff[x] /\ calledOff'[x] => Working(x)' \subseteq Working(x)
  <2>1. /\ calledOff'[k] = FALSE /\ log' = log
        /\ \A y \in Dialogs \ {k} : UNCHANGED <<queue[y], worker[y]>>
    BY <1>2, BooksByStart
  <2>2. CASE x = k
    <3>1. PICK launch \in SUBSET eligible[k] :
             /\ launch # {}
             /\ Queued(k) = {} /\ Working(k) = {}
             /\ Queued(k)' = eligible[k] \ launch /\ Working(k)' = launch
      BY <1>2, BooksByStart
    <3>2. eligible[k] \subseteq Devices
      BY DialogTypes
    <3>3. Pool(x)!Accept
      BY <2>1, <2>2, <3>1, <3>2 DEF Pool!Accept
    <3> QED BY <2>1, <2>2, <3>3 DEF Pool!Next
  <2>3. CASE x # k
    <3>1. Working(x)' = Working(x)
      BY <2>1, <2>3 DEF Working
    <3> QED BY <1>1, <2>1, <2>3, <3>1
  <2> QED BY <2>2, <2>3
<1>3. ASSUME NEW k \in Dialogs, CancelAll(k), shown' \in {0, shown}
      PROVE  /\ Pool(x)!Next \/ UNCHANGED Pool(x)!jobVars
             /\ calledOff[x] /\ calledOff'[x] => Working(x)' \subseteq Working(x)
  <2>0. shown' \in 0..opened
    BY <1>3 DEF BatchTypeOK
  <2>1. /\ \A y \in Dialogs : Working(y)' = Working(y)
        /\ \A y \in Dialogs \ {k} : queue'[y] = queue[y] /\ log'[y] = log[y]
        /\ queue'[k] = <<>>
        /\ \A d \in Devices :
              log'[k][d] = IF d \in Queued(k) THEN Append(log[k][d], "failed") ELSE log[k][d]
    BY <1>3, <2>0, BooksByCancel
  <2>2. CASE x # k \/ Queued(x) = {}
    <3>1. queue'[x] = queue[x]
      BY <2>1, <2>2, DialogTypes
    <3>2. log'[x] = log[x]
      BY <1>0, <2>1, <2>2 DEF BatchTypeOK
    <3> QED BY <1>1, <2>1, <3>1, <3>2
  <2>3. CASE x = k /\ Queued(x) # {}
    <3>1. Queued(k)' = {}
      BY <2>1 DEF Queued, ToSet
    <3>2. log'[k] = [d \in Devices |-> IF d \in Queued(k) THEN Append(log[k][d], "failed")
                                       ELSE log[k][d]]
      BY <1>0, <2>1 DEF BatchTypeOK
    <3>3. Pool(x)!Withdraw
      BY <2>1, <2>3, <3>1, <3>2 DEF Pool!Withdraw, Outcomes
    <3> QED BY <2>1, <3>3 DEF Pool!Next
  <2> QED BY <2>2, <2>3
<1>4. ASSUME NEW k \in Dialogs, NEW d \in Devices, WorkerEnds(k, d)
      PROVE  /\ UNCHANGED Pool(x)!jobVars /\ Working(x)' \subseteq Working(x)
  BY <1>1, <1>4, BooksByEnd
<1>5. ASSUME NEW k \in Dialogs, NEW d \in Devices, WorkerFinished(k, d)
      PROVE  /\ Pool(x)!Next \/ UNCHANGED Pool(x)!jobVars
             /\ calledOff[x] /\ calledOff'[x] => Working(x)' \subseteq Working(x)
  <2>1. /\ NextOf(k) \subseteq Queued(k) /\ (NextOf(k) = {} <=> Queued(k) = {})
        /\ \A y, z \in NextOf(k) : y = z
        /\ d \in Working(k) /\ worker[k][d] \in Outcomes
        /\ Queued(k)' = Queued(k) \ NextOf(k)
        /\ Working(k)' = (Working(k) \ {d}) \cup NextOf(k)
        /\ log' = [log EXCEPT ![k][d] = Append(@, worker[k][d])]
        /\ \A y \in Dialogs \ {k} : UNCHANGED <<queue[y], worker[y]>>
    BY <1>5, BooksByFinish
  <2>2. CASE x # k
    <3>1. Working(x)' = Working(x) /\ log'[x] = log[x]
      BY <2>1, <2>2 DEF Working, BatchTypeOK
    <3> QED BY <1>1, <2>1, <2>2, <3>1
  <2>3. CASE x = k
    <3>1. log'[k] = [log[k] EXCEPT ![d] = Append(@, worker[k][d])]
      BY <2>1 DEF BatchTypeOK
    <3>2. Pool(x)!Resolve(d)
      <4>1. CASE Queued(k) = {}
        BY <2>1, <2>3, <3>1, <4>1 DEF Pool!Resolve
      <4>2. CASE Queued(k) # {}
        <5>1. PICK next \in NextOf(k) : NextOf(k) = {next}
          BY <2>1, <4>2
        <5> QED BY <2>1, <2>3, <3>1, <5>1 DEF Pool!Resolve
      <4> QED BY <4>1, <4>2
    <3>3. calledOff[k] => NextOf(k) = {}
      BY DEF AllBooks, DialogInv, NextOf
    <3> QED BY <2>1, <2>3, <3>2, <3>3 DEF Pool!Next
  <2> QED BY <2>2, <2>3
<1>6. ASSUME UNCHANGED <<opened, eligible, queue, worker, results, startable, cancellable,
                         startVars, calledOff, log, reports>>
      PROVE  UNCHANGED Pool(x)!jobVars /\ Working(x)' \subseteq Working(x)
  <2>1. Working(x)' = Working(x)
    BY <1>6 DEF Working
  <2> QED BY <1>1, <1>6, <2>1
<1>7. ASSUME NEW k \in Dialogs, CancelButton(k) \/ CloseWindow(k) \/ CloseButton(k)
      PROVE  /\ Pool(x)!Next \/ UNCHANGED Pool(x)!jobVars
             /\ calledOff[x] /\ calledOff'[x] => Working(x)' \subseteq Working(x)
  BY <1>3, <1>6, <1>7 DEF CancelButton, CloseWindow, CloseButton
<1> QED BY <1>2, <1>4, <1>5, <1>7 DEF BatchNext

\* The other steps of the main window leave the controllers' work alone.
LEMMA PoolsStep ==
    ASSUME PortInv, [PortNext]_portVars, NEW x \in Dialogs
    PROVE  /\ Pool(x)!Next \/ UNCHANGED Pool(x)!jobVars
           /\ calledOff[x] /\ calledOff'[x] => Working(x)' \subseteq Working(x)
<1>0. BatchTypeOK /\ AllBooks
  BY DEF PortInv, PortTypeOK, AllBooks
<1>1. ASSUME UNCHANGED <<queue, worker, log>>
      PROVE  UNCHANGED Pool(x)!jobVars /\ Working(x)' \subseteq Working(x)
  BY <1>1 DEF Pool!jobVars, Queued, Working
<1>2. CASE BatchNext
  BY <1>0, <1>2, PoolStep
<1>3. CASE OpenBatch
  BY <1>0, <1>1, <1>3, BooksByOpen DEF OpenBatch
<1>4. CASE UNCHANGED batchVars
  BY <1>1, <1>4 DEF batchVars
<1> QED BY <1>2, <1>3, <1>4 DEF PortNext, OpenRead, Upload, UploadEnds, portVars

\* Once a batch is cancelled, or its window closed upon the question, no device
\* of it gets a worker any more, in whatever order the running ones end.
THEOREM NoLaunchAfterCancel == PortSpec => NothingAfterCancel
<1>1. ASSUME PortInv, [PortNext]_portVars
      PROVE  \A k \in Dialogs, d \in Devices :
                calledOff[k] /\ worker[k][d] = "none" /\ worker'[k][d] # "none" => ~calledOff'[k]
  BY <1>1, PoolsStep DEF Working
<1> QED BY <1>1, PortAlways, PTL DEF PortSpec, NothingAfterCancel

\* Every controller implements the pool of jobs that the flash scheduler
\* implements: each device is resolved once per attempt, and a slot that
\* becomes free goes to one that waits at once.
THEOREM DialogsArePools == PortSpec => ImplementsPool
<1>1. ASSUME PortInit PROVE \A k \in Dialogs : Pool(k)!Init
  <2> SUFFICES ASSUME NEW k \in Dialogs PROVE Pool(k)!Init
    OBVIOUS
  <2>1. queue[k] = <<>> /\ worker[k] = [d \in Devices |-> "none"]
        /\ log[k] = [d \in Devices |-> <<>>]
    BY <1>1 DEF PortInit, BatchInit
  <2>2. Queued(k) = {} /\ Working(k) = {}
    BY <2>1 DEF Queued, Working, ToSet
  <2> QED BY <2>1, <2>2 DEF Pool!Init
<1>2. ASSUME PortInv, [PortNext]_portVars
      PROVE  \A k \in Dialogs : Pool(k)!Next \/ UNCHANGED Pool(k)!jobVars
  BY <1>2, PoolsStep
<1> QED BY <1>1, <1>2, PortAlways, PTL DEF PortSpec, ImplementsPool
=============================================================================
