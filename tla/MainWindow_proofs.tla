-------------------------- MODULE MainWindow_proofs --------------------------
(***************************************************************************)
(* Proofs about the main window, for any devices and keys: the locks hold, *)
(* only the key opens them, and the device table stays true; and about the *)
(* Firmware panel, for any files, rows and builds: accepted rows and the   *)
(* sources of a merge are sound, and a merge adds a whole image and loses  *)
(* no byte.                                                                *)
(***************************************************************************)
EXTENDS MainWindow, FirmwarePanel, ListSelection_proofs, FiniteSetTheorems, SequenceTheorems,
        TLAPS

\* LocksHold with what keeps the flags true: fields are enabled only for a
\* device that is neither being written to nor under Settings Lock, and the
\* panels' copy of is_busy() is not behind what the table shows.
LockInv ==
    /\ locked \in BOOLEAN
    /\ active \subseteq busy /\ busy \subseteq Devices
    /\ factory => ~firmwareOn /\ ~deletionOn
    /\ fieldsOn => ~locked /\ ~factory
    /\ panel = NoDevice => ~fieldsOn
    /\ overlay => ~menusOn /\ ~editOn /\ ~undoOn /\ ~windows
    /\ panel \in active => locked

LEMMA LockInvInit == Init => LockInv
BY DEF Init, LockInit, TableInit, LockInv

LEMMA LockInvImplies == LockInv => LocksHold
BY DEF LockInv, LocksHold

\* What the panels are after a device has been shown in them.
LEMMA ShowDeviceProps ==
    ASSUME NEW d, NEW isLocked \in BOOLEAN, ShowDevice(d, isLocked)
    PROVE  /\ panel' = d
           /\ locked' \in BOOLEAN
           /\ locked' <=> isLocked
           /\ fieldsOn' => ~isLocked /\ ~factory /\ d # NoDevice
           /\ firmwareOn' => ~factory
<1>1. panel' = d /\ locked' = isLocked
  BY DEF ShowDevice, SetDevice
<1>2. fieldsOn' => ~isLocked /\ ~factory /\ d # NoDevice
  BY DEF ShowDevice, SetDevice
<1>3. firmwareOn' => ~factory
  BY DEF ShowDevice
<1> QED BY <1>1, <1>2, <1>3

\* The handlers of the locks themselves.
LEMMA LockNextKeepsInv ==
    ASSUME LockInv, LockNext, UNCHANGED tableVars
    PROVE  LockInv'
<1> USE DEF LockInv, tableVars, keyVars, actionVars, panelVars
<1>1. CASE SetLockKey
  BY <1>1 DEF SetLockKey
<1>2. CASE LockSettings
  BY <1>2 DEF LockSettings, SetFactoryMode, RefreshPanels, SetDevice
<1>3. CASE LockInterface
  BY <1>3 DEF LockInterface, SetAllActions
<1>4. ASSUME NEW key \in Keys \cup {NoKey}, UnlockSettings(key)
      PROVE  LockInv'
  BY <1>4 DEF UnlockSettings, SetFactoryMode, RefreshPanels, SetDevice
<1>5. ASSUME NEW key \in Keys \cup {NoKey}, UnlockAttempt(key)
      PROVE  LockInv'
  BY <1>5 DEF UnlockAttempt, SetAllActions
<1>6. CASE /\ OpenWindow \/ CloseWindows
           /\ UNCHANGED <<keyVars, factory, overlay, canUndo, actionVars, panelVars, deletionOn>>
  BY <1>6 DEF OpenWindow, CloseWindows
<1> QED BY <1>1, <1>2, <1>3, <1>4, <1>5, <1>6 DEF LockNext

LEMMA NextKeepsLockInv ==
    ASSUME LockInv, [Next]_vars
    PROVE  LockInv'
<1> USE DEF LockInv, keyVars, actionVars, panelVars
<1>1. CASE LockNext /\ UNCHANGED tableVars
  BY <1>1, LockNextKeepsInv
<1>2. ASSUME NEW d \in Listed \cup {NoDevice}, SelectRow(d)
      PROVE  LockInv'
  <2>1. ShowDevice(d, d \in busy)
    BY <1>2 DEF SelectRow
  <2>2. (d \in busy) \in BOOLEAN
    OBVIOUS
  <2>3. /\ panel' = d
        /\ locked' \in BOOLEAN
        /\ locked' <=> d \in busy
        /\ fieldsOn' => ~(d \in busy) /\ ~factory /\ d # NoDevice
        /\ firmwareOn' => ~factory
    BY <2>1, <2>2, ShowDeviceProps
  <2> QED BY <1>2, <2>3 DEF SelectRow, tableVars
<1>3. ASSUME NEW d \in Devices, Add(d)
      PROVE  LockInv'
  BY <1>3, LockAssumption DEF Add, AddDevice, Deselect, ShowDevice, SetDevice, RefreshUndo
<1>4. ASSUME NEW out \in SUBSET Listed, RemoveRows(out)
      PROVE  LockInv'
  <2>1. CASE panel \in out
    <3>1. PICK d \in {NoDevice} \cup (Listed \ out) : ShowDevice(d, d \in busy)
      BY <1>4, <2>1 DEF RemoveRows
    <3>2. (d \in busy) \in BOOLEAN
      OBVIOUS
    <3> QED BY <1>4, <3>1, <3>2, ShowDeviceProps DEF RemoveRows, RemoveDevices, RefreshUndo
  <2>2. CASE panel \notin out
    BY <1>4, <2>2 DEF RemoveRows, RemoveDevices, RefreshUndo
  <2> QED BY <2>1, <2>2
<1>5. ASSUME NEW devices \in Lists, UndoOrRedo(devices)
      PROVE  LockInv'
  BY <1>5, LockAssumption DEF UndoOrRedo, ResetDevices, Deselect, ShowDevice, SetDevice, RefreshUndo
<1>6. ASSUME NEW devices \in Lists, OpenProject(devices)
      PROVE  LockInv'
  BY <1>6, LockAssumption DEF OpenProject, ResetDevices, Deselect, ShowDevice, SetDevice,
                              RefreshUndo
<1>7. CASE Sort
  BY <1>7, LockAssumption DEF Sort, SortTable, Deselect, ShowDevice, SetDevice
<1>8. CASE CommitField
  BY <1>8 DEF CommitField, RefreshPanels, SetDevice, RefreshUndo, tableVars
<1>9. ASSUME NEW d \in Devices, Upload(d)
      PROVE  LockInv'
  BY <1>9 DEF Upload, StartUpload, lockVars
<1>10. ASSUME NEW d \in Devices, StatusArrives(d)
       PROVE  LockInv'
  <2>1. CASE StatusActive(d) /\ LockPanel(d, TRUE)
    BY <1>10, <2>1, LockAssumption DEF StatusArrives, StatusActive, LockPanel, SetDevice
  <2>2. ASSUME NEW still \in BOOLEAN, StatusOver(d, still), LockPanel(d, still)
        PROVE  LockInv'
    BY <1>10, <2>2, LockAssumption DEF StatusArrives, StatusOver, LockPanel, SetDevice
  <2> QED BY <1>10, <2>1, <2>2 DEF StatusArrives
<1>11. ASSUME NEW d \in Devices, NoLongerBusy(d), UNCHANGED lockVars
       PROVE  LockInv'
  BY <1>11 DEF NoLongerBusy, lockVars
<1>12. CASE UNCHANGED vars
  BY <1>12 DEF vars, lockVars, tableVars
<1> QED
  BY <1>1, <1>2, <1>3, <1>4, <1>5, <1>6, <1>7, <1>8, <1>9, <1>10, <1>11, <1>12 DEF Next

\* Under Settings Lock nothing that changes what is flashed can be reached in
\* the panels, under Full Lock nothing at all, and no field of a device while
\* it is being written to: for any number of devices.
THEOREM LocksAlwaysHold == Spec => []LocksHold
BY LockInvInit, LockInvImplies, NextKeepsLockInv, PTL DEF Spec

-----------------------------------------------------------------------------
(* The key. *)

\* What OnlyTheKeyOpens says of every state, and of which values it is said.
KeyInv ==
    /\ stored.key = lastSet
    /\ KeyIsSet <=> lastSet # NoKey
    /\ stored.key \in Keys \cup {NoKey}
    /\ factory \/ overlay => KeyIsSet

LEMMA StoreKeyProps ==
    ASSUME StoreKey
    PROVE  stored'.key = lastSet' /\ stored'.form # "none" /\ lastSet' \in Keys /\ lastSet' # NoKey
BY LockAssumption DEF StoreKey

\* Converting the hash leaves the key it is of.
LEMMA UpgradeKeepsKey ==
    ASSUME NEW key, UpgradeAfter(key)
    PROVE  /\ stored'.key = stored.key
           /\ stored'.form = "none" <=> stored.form = "none"
BY DEF UpgradeAfter, Verify, KeyIsSet

\* One step keeps KeyInv, and ends a lock only with the key.
LEMMA KeyStep ==
    ASSUME KeyInv, [Next]_vars
    PROVE  /\ KeyInv'
           /\ (factory /\ ~factory') \/ (overlay /\ ~overlay') => entered' = lastSet
<1> DEFINE Opens == (factory /\ ~factory') \/ (overlay /\ ~overlay')
           Goal == KeyInv' /\ (Opens => entered' = lastSet)
<1> USE DEF KeyInv, KeyIsSet
<1>1. CASE SetLockKey
  BY <1>1, StoreKeyProps DEF SetLockKey
<1>2. CASE LockSettings
  BY <1>2, StoreKeyProps DEF LockSettings, SetFactoryMode
<1>3. CASE LockInterface
  BY <1>3, StoreKeyProps DEF LockInterface
<1>4. ASSUME NEW key \in Keys \cup {NoKey}, UnlockSettings(key)
      PROVE  Goal
  BY <1>4, UpgradeKeepsKey DEF UnlockSettings, SetFactoryMode, Verify
<1>5. ASSUME NEW key \in Keys \cup {NoKey}, UnlockAttempt(key)
      PROVE  Goal
  BY <1>5, UpgradeKeepsKey DEF UnlockAttempt, Verify
<1>6. CASE UNCHANGED <<keyVars, factory, overlay>>
  BY <1>6 DEF keyVars
<1>7. CASE LockNext
  BY <1>1, <1>2, <1>3, <1>4, <1>5, <1>6, <1>7 DEF LockNext
<1>8. CASE Next /\ ~LockNext
  <2>1. UNCHANGED <<keyVars, factory, overlay>>
    BY <1>8
    DEF Next, SelectRow, Add, RemoveRows, UndoOrRedo, OpenProject, Sort, CommitField, Upload,
        StatusArrives, lockVars
  <2> QED BY <2>1, <1>6
<1>9. CASE UNCHANGED vars
  BY <1>6, <1>9 DEF vars, lockVars
<1> QED BY <1>7, <1>8, <1>9

LEMMA KeyInvInit == Init => KeyInv
BY LockAssumption DEF Init, LockInit, KeyInv, KeyIsSet

\* A lock that is on can be ended with the key that was set last, in whichever
\* form it is stored, and with no other: for any set of keys.
THEOREM TheKeyAlwaysOpens == Spec => OnlyTheKeyOpens
<1>1. KeyInv => stored.key = lastSet /\ (factory \/ overlay => KeyIsSet /\ lastSet # NoKey)
  BY DEF KeyInv
<1> QED
  BY <1>1, KeyInvInit, KeyStep, PTL DEF Spec, OnlyTheKeyOpens

-----------------------------------------------------------------------------
(* The rows of the table and the dictionary. *)

\* No two of these places hold the same.
Distinct(s, P) == \A i, j \in P : s[i] = s[j] => i = j

\* What rebuild makes of a list, or of what is left of it.
TableOf(s, P) == [rows |-> Keep(s, P), rowOf |-> RowsOf(Keep(s, P))]

LEMMA RowsOfKeep ==
    ASSUME NEW P \in Places, NEW s, Distinct(s, P)
    PROVE  /\ ToSet(Keep(s, P)) = {s[i] : i \in P}
           /\ DOMAIN RowsOf(Keep(s, P)) = {s[i] : i \in P}
           /\ \A i \in P : RowsOf(Keep(s, P))[s[i]] = Upto(P, i)
<1> DEFINE K == Keep(s, P)
           n == Cardinality(P)
<1>2. /\ DOMAIN K = 1..n
      /\ \A i \in P : Upto(P, i) \in 1..n /\ K[Upto(P, i)] = s[i]
      /\ \A k \in 1..n : \E i \in P : Upto(P, i) = k /\ K[k] = s[i]
  BY KeepPlaces
<1> HIDE DEF K, n
<1>3. ToSet(K) = {s[i] : i \in P}
  <2>1. ASSUME NEW x \in ToSet(K)
        PROVE  x \in {s[i] : i \in P}
    BY <1>2, <2>1 DEF ToSet
  <2>2. ASSUME NEW i \in P
        PROVE  s[i] \in ToSet(K)
    <3>1. K[Upto(P, i)] = s[i] /\ Upto(P, i) \in DOMAIN K
      BY <1>2
    <3> QED BY <3>1 DEF ToSet
  <2> QED BY <2>1, <2>2
<1>4. DOMAIN RowsOf(K) = {s[i] : i \in P}
  BY <1>3 DEF RowsOf
<1>5. ASSUME NEW i \in P
      PROVE  RowsOf(K)[s[i]] = Upto(P, i)
  <2> DEFINE c == CHOOSE row \in DOMAIN K : K[row] = s[i]
  <2>1. s[i] \in ToSet(K)
    BY <1>3
  <2>2. RowsOf(K)[s[i]] = c
    BY <2>1 DEF RowsOf
  <2>3. Upto(P, i) \in DOMAIN K /\ K[Upto(P, i)] = s[i]
    BY <1>2
  <2>4. c \in DOMAIN K /\ K[c] = s[i]
    BY <2>3
  <2> HIDE DEF c
  <2>5. PICK j \in P : Upto(P, j) = c /\ K[c] = s[j]
    BY <1>2, <2>4
  <2>6. j = i
    BY <2>4, <2>5 DEF Distinct
  <2> QED BY <2>2, <2>5, <2>6
<1> QED BY <1>3, <1>4, <1>5 DEF K

\* remove_device_row takes one device out, as if the table had been made
\* without it: the dictionary shifted by hand is the one rebuild would make.
LEMMA RowRemovedIsRebuilt ==
    ASSUME NEW P \in Places, NEW s, Distinct(s, P), NEW p \in P
    PROVE  RowRemoved(TableOf(s, P), s[p]) = TableOf(s, P \ {p})
<1> DEFINE K == Keep(s, P)
           Q == P \ {p}
           D == RowsOf(K)
           shifted == [e \in DOMAIN D \ {s[p]} |-> IF D[e] > D[s[p]] THEN D[e] - 1 ELSE D[e]]
<1>1. /\ DOMAIN D = {s[i] : i \in P}
      /\ \A i \in P : D[s[i]] = Upto(P, i)
  BY RowsOfKeep
<1>2. /\ Q \in Places
      /\ \A q \in Q : Upto(Q, q) = IF Upto(P, q) > Upto(P, p) THEN Upto(P, q) - 1 ELSE Upto(P, q)
  BY UptoWithout
<1>3. RemoveAt(K, Upto(P, p)) = Keep(s, Q)
  BY KeepWithout
<1>4. /\ DOMAIN RowsOf(Keep(s, Q)) = {s[i] : i \in Q}
      /\ \A i \in Q : RowsOf(Keep(s, Q))[s[i]] = Upto(Q, i)
  <2>1. Distinct(s, Q)
    BY DEF Distinct
  <2> HIDE DEF Q
  <2> QED BY <1>2, <2>1, RowsOfKeep
<1>5. {s[i] : i \in Q} = {s[i] : i \in P} \ {s[p]}
  BY DEF Distinct
<1>6. shifted = RowsOf(Keep(s, Q))
  <2> DEFINE E == RowsOf(Keep(s, Q))
  <2>1. E = [e \in {s[i] : i \in Q} |-> E[e]]
    BY <1>4 DEF RowsOf
  <2>2. ASSUME NEW i \in Q
        PROVE  shifted[s[i]] = E[s[i]]
    <3>1. i \in P /\ s[i] # s[p]
      BY DEF Distinct
    <3>2. D[s[i]] = Upto(P, i) /\ D[s[p]] = Upto(P, p)
      BY <1>1, <3>1
    <3>3. s[i] \in DOMAIN D \ {s[p]}
      BY <1>1, <3>1
    <3> HIDE DEF D, Q
    <3>4. shifted[s[i]] = IF Upto(P, i) > Upto(P, p) THEN Upto(P, i) - 1 ELSE Upto(P, i)
      BY <3>2, <3>3
    <3> QED BY <1>2, <1>4, <3>4
  <2>3. DOMAIN shifted = {s[i] : i \in Q}
    BY <1>1, <1>5
  <2> HIDE DEF E, D, Q
  <2>4. \A e \in {s[i] : i \in Q} : shifted[e] = E[e]
    BY <2>2
  <2>5. shifted = [e \in {s[i] : i \in Q} |-> shifted[e]]
    BY <2>3
  <2>6. shifted = E
    BY <2>1, <2>4, <2>5
  <2> QED BY <2>6 DEF E
<1>7. s[p] \in DOMAIN D /\ D[s[p]] = Upto(P, p)
  BY <1>1
<1>8. TableOf(s, P).rows = K /\ TableOf(s, P).rowOf = D
  BY DEF TableOf
<1> HIDE DEF K, D, Q
<1>9. RowRemoved(TableOf(s, P), s[p]) = [rows |-> RemoveAt(K, Upto(P, p)), rowOf |-> shifted]
  BY <1>7, <1>8 DEF RowRemoved
<1>10. TableOf(s, Q) = [rows |-> RemoveAt(K, Upto(P, p)), rowOf |-> shifted]
  BY <1>3, <1>6 DEF TableOf
<1> QED BY <1>9, <1>10 DEF Q

\* The rows that are removed one after the other leave the table rebuild would
\* make without them.
LEMMA RemovalsAreRebuilt ==
    ASSUME NEW P \in Places, NEW s, Distinct(s, P),
           NEW gone \in Seq({s[i] : i \in P}), IsInjective(gone)
    PROVE  AfterRemovals(TableOf(s, P), gone)
               = TableOf(s, {i \in P : s[i] \notin ToSet(gone)})
<1> DEFINE m == Len(gone)
           Left(n) == {i \in P : \A k \in 1..n : gone[k] # s[i]}
           table == TableOf(s, P)
           g == [n \in 0..m |-> TableOf(s, Left(n))]
<1>1. m \in Nat /\ DOMAIN gone = 1..m /\ \A k \in 1..m : gone[k] \in {s[i] : i \in P}
  BY LenProperties, ElementOfSeq
<1>2. ASSUME NEW n \in 1..m
      PROVE  TableOf(s, Left(n)) = RowRemoved(TableOf(s, Left(n - 1)), gone[n])
  <2>1. PICK p \in P : gone[n] = s[p]
    BY <1>1
  <2>2. ASSUME NEW k \in 1..(n - 1)
        PROVE  gone[k] # s[p]
    <3>1. k \in 1..m /\ k # n
      BY <1>1
    <3> QED BY <1>1, <2>1, <3>1 DEF IsInjective
  <2>3. p \in Left(n - 1)
    BY <2>2
  <2>4. Left(n) = Left(n - 1) \ {p}
    <3>1. \A k \in 1..n : k \in 1..(n - 1) \/ k = n
      BY <1>1
    <3>2. \A k \in 1..(n - 1) : k \in 1..n
      BY <1>1
    <3>3. n \in 1..n
      BY <1>1
    <3> HIDE DEF m
    <3>4. ASSUME NEW i \in P
          PROVE  (\A k \in 1..n : gone[k] # s[i]) <=> (\A k \in 1..(n - 1) : gone[k] # s[i]) /\ i # p
      <4>1. s[i] = s[p] <=> i = p
        BY DEF Distinct
      <4> QED BY <2>1, <3>1, <3>2, <3>3, <4>1
    <3> QED BY <3>4
  <2>5. Left(n - 1) \in Places
    <3>1. IsFiniteSet(P) /\ P \subseteq Nat /\ Left(n - 1) \in SUBSET P
      BY DEF Places
    <3>2. IsFiniteSet(Left(n - 1))
      BY <3>1, FS_Subset
    <3> QED BY <3>1, <3>2 DEF Places
  <2>6. Distinct(s, Left(n - 1))
    BY DEF Distinct
  <2> HIDE DEF Left
  <2>7. RowRemoved(TableOf(s, Left(n - 1)), s[p]) = TableOf(s, Left(n - 1) \ {p})
    BY <2>3, <2>5, <2>6, RowRemovedIsRebuilt
  <2> QED BY <2>1, <2>4, <2>7
<1>3. Left(0) = P
  OBVIOUS
<1>4. Left(m) = {i \in P : s[i] \notin ToSet(gone)}
  BY <1>1 DEF ToSet
<1> DEFINE after == CHOOSE f : f = [n \in 0..Len(gone) |->
                                      IF n = 0 THEN table ELSE RowRemoved(f[n - 1], gone[n])]
<1> HIDE DEF Left, table
<1>5. g = [n \in 0..Len(gone) |-> IF n = 0 THEN table ELSE RowRemoved(g[n - 1], gone[n])]
  <2>1. ASSUME NEW n \in 0..m
        PROVE  TableOf(s, Left(n)) = IF n = 0 THEN table ELSE RowRemoved(g[n - 1], gone[n])
    <3>1. CASE n = 0
      BY <1>3, <3>1 DEF table
    <3>2. CASE n # 0
      <4>1. n \in 1..m /\ n - 1 \in 0..m
        BY <1>1, <3>2
      <4>2. g[n - 1] = TableOf(s, Left(n - 1))
        BY <4>1
      <4> QED BY <1>2, <3>2, <4>1, <4>2
    <3> QED BY <3>1, <3>2
  <2> QED BY <2>1
<1> HIDE DEF g
<1>6. after = [n \in 0..m |-> IF n = 0 THEN table ELSE RowRemoved(after[n - 1], gone[n])]
  BY <1>5
<1> HIDE DEF after
<1>7. \A n \in 0..m : after[n] = g[n]
  <2> DEFINE Bad == {n \in 0..m : after[n] # g[n]}
  <2>1. SUFFICES ASSUME Bad # {} PROVE FALSE
    OBVIOUS
  <2>2. Bad \in SUBSET Nat
    BY <1>1
  <2>3. PICK n \in Bad : \A k \in Bad : n <= k
    BY <2>1, <2>2, LeastNat
  <2>4. n \in 0..m /\ after[n] # g[n]
    BY <2>3
  <2>5. CASE n = 0
    <3>1. after[n] = table /\ g[n] = table
      BY <1>5, <1>6, <2>4, <2>5
    <3> QED BY <2>4, <3>1
  <2>6. CASE n # 0
    <3>1. n - 1 \in 0..m /\ ~(n <= n - 1)
      BY <1>1, <2>4, <2>6
    <3>2. after[n - 1] = g[n - 1]
      BY <2>3, <3>1
    <3>3. after[n] = RowRemoved(after[n - 1], gone[n])
      BY <1>6, <2>4, <2>6
    <3>4. g[n] = RowRemoved(g[n - 1], gone[n])
      BY <1>5, <2>4, <2>6
    <3> QED BY <2>4, <3>2, <3>3, <3>4
  <2> QED BY <2>5, <2>6
<1>8. m \in 0..m
  BY <1>1
<1>9. AfterRemovals(table, gone) = after[m]
  BY DEF AfterRemovals, after
<1> QED BY <1>4, <1>7, <1>8, <1>9 DEF g, table

\* The lists of devices: sequences of ids that come once each.
LEMMA ListsAre ==
    ASSUME NEW s
    PROVE  s \in Lists <=> s \in Seq(Ids) /\ IsInjective(s)
<1>1. ASSUME s \in Lists
      PROVE  s \in Seq(Ids) /\ IsInjective(s)
  <2>1. PICK S \in SUBSET Ids : s \in SetToSeqs(S)
    BY <1>1 DEF Lists
  <2>2. s \in [1..Cardinality(S) -> S] /\ IsInjective(s)
    BY <2>1 DEF SetToSeqs, IsInjective
  <2>3. Cardinality(S) \in Nat
    <3>1. IsFiniteSet(Ids)
      <4>1. ByName \in Seq(Ids)
        BY TableAssumption
      <4>2. Len(ByName) \in Nat /\ DOMAIN ByName = 1..Len(ByName)
        BY <4>1, LenProperties
      <4>3. IsFiniteSet(1..Len(ByName))
        BY <4>2, PlacesOf DEF Places
      <4>4. ByName \in Surjection(1..Len(ByName), Ids)
        BY <4>1, <4>2, ElementOfSeq, LenProperties DEF Surjection, Ids, ToSet
      <4> QED BY <4>3, <4>4, FS_Surjection
    <3> QED BY <3>1, FS_Subset, FS_CardinalityType
  <2>4. s \in [1..Cardinality(S) -> Ids]
    BY <2>2
  <2> QED BY <2>2, <2>3, <2>4, SeqDef
<1>2. ASSUME s \in Seq(Ids), IsInjective(s)
      PROVE  s \in Lists
  <2> DEFINE n == Len(s)
  <2>1. n \in Nat /\ DOMAIN s = 1..n /\ s \in [1..n -> Ids]
    BY <1>2, LenProperties
  <2>2. s \in [1..n -> ToSet(s)] /\ ToSet(s) \subseteq Ids
    BY <2>1 DEF ToSet
  <2>3. s \in Bijection(1..n, ToSet(s))
    BY <1>2, <2>1, <2>2 DEF Bijection, Injection, Surjection, ToSet
  <2>4. IsFiniteSet(1..n) /\ Cardinality(1..n) = n
    <3>1. 1 \in Int /\ n \in Int
      BY <2>1
    <3>2. IsFiniteSet(1..n) /\ Cardinality(1..n) = IF 1 > n THEN 0 ELSE n - 1 + 1
      BY <3>1, FS_Interval
    <3> HIDE DEF n
    <3> QED BY <2>1, <3>2
  <2>5. Cardinality(ToSet(s)) = n
    BY <2>3, <2>4, FS_Bijection DEF ExistsBijection
  <2>6. s \in SetToSeqs(ToSet(s))
    BY <1>2, <2>1, <2>2, <2>5 DEF SetToSeqs, IsInjective
  <2> QED BY <2>2, <2>6 DEF Lists
<1> QED BY <1>1, <1>2

LEMMA ListHas ==
    ASSUME NEW s \in Lists
    PROVE  /\ s \in Seq(Ids) /\ Distinct(s, DOMAIN s)
           /\ DOMAIN s \in Places
           /\ \A i \in DOMAIN s : s[i] \in Ids
           /\ ToSet(s) = {s[i] : i \in DOMAIN s} /\ ToSet(s) \subseteq Ids
           /\ \A d : Contains(s, d) <=> d \in ToSet(s)
<1>1. s \in Seq(Ids) /\ IsInjective(s)
  BY ListsAre
<1>2. Len(s) \in Nat /\ DOMAIN s = 1..Len(s) /\ \A i \in 1..Len(s) : s[i] \in Ids
  BY <1>1, LenProperties, ElementOfSeq
<1>3. DOMAIN s \in Places
  BY <1>2, PlacesOf
<1> QED BY <1>1, <1>2, <1>3 DEF Distinct, IsInjective, ToSet, Contains

LEMMA PartOfPlaces ==
    ASSUME NEW P \in Places, NEW Q, Q \subseteq P
    PROVE  Q \in Places
<1>1. IsFiniteSet(P) /\ P \subseteq Nat
  BY DEF Places
<1>2. Q \in SUBSET P
  OBVIOUS
<1>3. IsFiniteSet(Q)
  BY <1>1, <1>2, FS_Subset
<1> QED BY <1>1, <1>3 DEF Places

LEMMA KeepIsList ==
    ASSUME NEW s \in Lists, NEW P, P \subseteq DOMAIN s
    PROVE  /\ Keep(s, P) \in Lists
           /\ P \in Places /\ Distinct(s, P)
           /\ ToSet(Keep(s, P)) = {s[i] : i \in P}
<1>1. P \in Places
  BY ListHas, PartOfPlaces
<1>2. Distinct(s, P) /\ \A i \in P : s[i] \in Ids
  BY ListHas DEF Distinct
<1>3. Keep(s, P) \in Seq(Ids)
  BY <1>1, <1>2, KeepType
<1>4. IsInjective(Keep(s, P))
  BY <1>1, <1>2, KeepPlaces DEF Distinct, IsInjective
<1>5. Keep(s, P) \in Lists
  BY <1>3, <1>4, ListsAre
<1> QED BY <1>1, <1>2, <1>5, RowsOfKeep

LEMMA ByNameIsList == ByName \in Lists /\ ToSet(ByName) = Ids
BY TableAssumption, ListsAre DEF Ids

\* What the table shows is a choice from a list, and stays that choice from the
\* same list when devices are removed.
LEMMA DisplayIsChosen ==
    ASSUME NEW s \in Lists, NEW byName \in BOOLEAN
    PROVE  \E base \in Lists : \E P \in SUBSET DOMAIN base :
              /\ Display(s, byName) = Keep(base, P)
              /\ {base[i] : i \in P} = ToSet(s)
              /\ \A out : Display(Keep(s, {i \in DOMAIN s : s[i] \notin out}), byName)
                             = Keep(base, {i \in P : base[i] \notin out})
<1>1. CASE byName
  <2> DEFINE P == {i \in DOMAIN ByName : Contains(s, ByName[i])}
  <2>1. Display(s, byName) = Keep(ByName, P)
    BY <1>1 DEF Display
  <2>2. {ByName[i] : i \in P} = ToSet(s)
    BY ByNameIsList, ListHas
  <2>3. ASSUME NEW out
        PROVE  Display(Keep(s, {i \in DOMAIN s : s[i] \notin out}), byName)
                  = Keep(ByName, {i \in P : ByName[i] \notin out})
    <3> DEFINE Q == {i \in DOMAIN s : s[i] \notin out}
               t == Keep(s, Q)
    <3>1. t \in Lists /\ ToSet(t) = {s[i] : i \in Q}
      BY KeepIsList
    <3>2. ToSet(t) = ToSet(s) \ out
      BY <3>1, ListHas
    <3> HIDE DEF t
    <3>3. \A d : Contains(t, d) <=> Contains(s, d) /\ d \notin out
      BY <3>1, <3>2, ListHas
    <3>4. {i \in DOMAIN ByName : Contains(t, ByName[i])} = {i \in P : ByName[i] \notin out}
      BY <3>3
    <3>5. Display(t, byName) = Keep(ByName, {i \in DOMAIN ByName : Contains(t, ByName[i])})
      BY <1>1 DEF Display
    <3> QED BY <3>4, <3>5 DEF t
  <2> HIDE DEF P
  <2>4. P \in SUBSET DOMAIN ByName
    BY DEF P
  <2> QED BY <2>1, <2>2, <2>3, <2>4, ByNameIsList
<1>2. CASE ~byName
  <2>1. Display(s, byName) = Keep(s, DOMAIN s)
    BY <1>2, ListHas, KeepAll DEF Display
  <2>2. {s[i] : i \in DOMAIN s} = ToSet(s)
    BY ListHas
  <2>3. \A out : Display(Keep(s, {i \in DOMAIN s : s[i] \notin out}), byName)
                    = Keep(s, {i \in DOMAIN s : s[i] \notin out})
    BY <1>2 DEF Display
  <2> QED BY <2>1, <2>2, <2>3
<1> QED BY <1>1, <1>2

-----------------------------------------------------------------------------
(* The table. *)

\* TableIsTrue by what the rows and the dictionary are made of; no start time
\* outlives the attempt it was noted for, in the table or out of it.
TableInv ==
    /\ LockTypeOK /\ TableTypeOK
    /\ rows = Display(list, sorted)
    /\ rowOf = RowsOf(rows)
    /\ \A d \in Ids : started[d] # "earlier"

LEMMA DisplayProps ==
    ASSUME NEW s \in Lists, NEW byName \in BOOLEAN
    PROVE  /\ Display(s, byName) \in Lists
           /\ ToSet(Display(s, byName)) = ToSet(s)
<1>1. PICK base \in Lists : \E P \in SUBSET DOMAIN base :
         Display(s, byName) = Keep(base, P) /\ {base[i] : i \in P} = ToSet(s)
  BY DisplayIsChosen
<1>2. PICK P \in SUBSET DOMAIN base :
         Display(s, byName) = Keep(base, P) /\ {base[i] : i \in P} = ToSet(s)
  BY <1>1
<1>3. Keep(base, P) \in Lists /\ ToSet(Keep(base, P)) = {base[i] : i \in P}
  BY KeepIsList
<1> QED BY <1>2, <1>3

LEMMA DictionaryFinds ==
    ASSUME NEW s
    PROVE  /\ DOMAIN RowsOf(s) = ToSet(s)
           /\ \A d \in ToSet(s) : RowsOf(s)[d] \in DOMAIN s /\ s[RowsOf(s)[d]] = d
<1>1. ASSUME NEW d \in ToSet(s)
      PROVE  RowsOf(s)[d] \in DOMAIN s /\ s[RowsOf(s)[d]] = d
  <2>1. \E row \in DOMAIN s : s[row] = d
    BY DEF ToSet
  <2>2. RowsOf(s)[d] = CHOOSE row \in DOMAIN s : s[row] = d
    BY DEF RowsOf
  <2> QED BY <2>1, <2>2
<1> QED BY <1>1 DEF RowsOf

LEMMA TableInvImplies == TableInv => TableIsTrue
<1> SUFFICES ASSUME TableInv PROVE TableIsTrue
  OBVIOUS
<1>1. list \in Lists /\ sorted \in BOOLEAN
  BY DEF TableInv, TableTypeOK
<1>2. ToSet(rows) = Listed
  BY <1>1, DisplayProps DEF TableInv, Listed
<1>3. DOMAIN rowOf = Listed /\ \A d \in Listed : rowOf[d] \in DOMAIN rows /\ rows[rowOf[d]] = d
  BY <1>2, DictionaryFinds DEF TableInv
<1>4. Listed \subseteq Ids
  BY <1>1, ListHas DEF Listed
<1> QED BY <1>3, <1>4 DEF TableInv, TableIsTrue, TypeOK

LEMMA TableInvInit == Init => TableInv
<1> SUFFICES ASSUME Init PROVE TableInv
  OBVIOUS
<1>1. LockTypeOK
  <2>1. stored \in [form : {"none", "legacy", "salted"}, key : Keys \cup {NoKey}]
    BY DEF Init, LockInit
  <2>2. lastSet \in Keys \cup {NoKey}
    BY <2>1 DEF Init, LockInit
  <2> QED BY <2>1, <2>2 DEF Init, LockInit, LockTypeOK
<1>2. list = <<>> /\ sorted = FALSE /\ rows = <<>> /\ rowOf = <<>> /\ busy = {} /\ active = {}
      /\ started = [d \in Ids |-> "none"]
  BY DEF Init, TableInit
<1>4. DOMAIN <<>> = {}
  OBVIOUS
<1>3. <<>> \in Lists
  <2>1. <<>> \in Seq(Ids) /\ IsInjective(<<>>)
    BY <1>4, EmptySeq DEF IsInjective
  <2> QED BY <2>1, ListsAre
<1>5. TableTypeOK
  <2>1. rows \in Seq(Ids) /\ DOMAIN rowOf \subseteq Ids
    BY <1>2, <1>4
  <2> QED BY <1>2, <1>3, <2>1 DEF TableTypeOK
<1>6. rows = Display(list, sorted)
  BY <1>2 DEF Display
<1>7. RowsOf(<<>>) = <<>>
  <2>1. ToSet(<<>>) = {}
    BY <1>4 DEF ToSet
  <2> QED BY <2>1 DEF RowsOf
<1> QED BY <1>1, <1>2, <1>5, <1>6, <1>7 DEF TableInv

\* rebuild
LEMMA RebuildStep ==
    ASSUME NEW s \in Lists, NEW byName \in BOOLEAN, Rebuild(s, byName)
    PROVE  /\ rows' = Display(s, byName) /\ rowOf' = RowsOf(rows')
           /\ rows' \in Seq(Ids) /\ DOMAIN rowOf' \subseteq Ids
<1>1. rows' = Display(s, byName) /\ rowOf' = RowsOf(rows')
  BY DEF Rebuild
<1>2. Display(s, byName) \in Lists /\ ToSet(Display(s, byName)) = ToSet(s)
  BY DisplayProps
<1>3. Display(s, byName) \in Seq(Ids) /\ ToSet(s) \subseteq Ids
  BY <1>2, ListHas
<1>4. DOMAIN rowOf' = ToSet(s)
  BY <1>1, <1>2, DictionaryFinds
<1> QED BY <1>1, <1>3, <1>4

LEMMA RemoveStep ==
    ASSUME TableInv, NEW out, RemoveDevices(out)
    PROVE  /\ list' \in Lists
           /\ rows' = Display(list', sorted) /\ rowOf' = RowsOf(rows')
           /\ rows' \in Seq(Ids) /\ DOMAIN rowOf' \subseteq Ids
           /\ UNCHANGED <<sorted, busy, active, started>>
<1>1. PICK l \in Lists : l = list
  BY DEF TableInv, TableTypeOK
<1>2. PICK byName \in BOOLEAN : byName = sorted
  BY DEF TableInv, TableTypeOK
<1>3. PICK base \in Lists : \E P \in SUBSET DOMAIN base :
         /\ Display(l, byName) = Keep(base, P)
         /\ {base[i] : i \in P} = ToSet(l)
         /\ \A o : Display(Keep(l, {i \in DOMAIN l : l[i] \notin o}), byName)
                      = Keep(base, {i \in P : base[i] \notin o})
  BY DisplayIsChosen
<1>4. PICK P \in SUBSET DOMAIN base :
         /\ Display(l, byName) = Keep(base, P)
         /\ {base[i] : i \in P} = ToSet(l)
         /\ \A o : Display(Keep(l, {i \in DOMAIN l : l[i] \notin o}), byName)
                      = Keep(base, {i \in P : base[i] \notin o})
  BY <1>3
<1>5. out \subseteq {base[i] : i \in P}
  BY <1>1, <1>4 DEF RemoveDevices, Listed
<1>6. list' = Keep(l, {i \in DOMAIN l : l[i] \notin out})
  BY <1>1 DEF RemoveDevices
<1>7. PICK gone \in SetToSeqs(out) :
         /\ rows' = AfterRemovals([rows |-> rows, rowOf |-> rowOf], gone).rows
         /\ rowOf' = AfterRemovals([rows |-> rows, rowOf |-> rowOf], gone).rowOf
  BY DEF RemoveDevices
<1>8. [rows |-> rows, rowOf |-> rowOf] = TableOf(base, P)
  BY <1>1, <1>2, <1>4 DEF TableInv, TableOf
<1>9. gone \in Seq({base[i] : i \in P}) /\ IsInjective(gone) /\ ToSet(gone) = out
  <2>1. gone \in [1..Cardinality(out) -> out] /\ IsInjective(gone)
    BY <1>7 DEF SetToSeqs, IsInjective
  <2>2. IsFiniteSet(out) /\ Cardinality(out) \in Nat
    <3>1. out \subseteq ToSet(l)
      BY <1>4, <1>5
    <3>2. IsFiniteSet(ToSet(l))
      <4>1. l \in Seq(Ids) /\ DOMAIN l \in Places
        BY ListHas
      <4>2. l \in Surjection(DOMAIN l, ToSet(l))
        BY <4>1, LenProperties DEF Surjection, ToSet
      <4> QED BY <4>1, <4>2, FS_Surjection DEF Places
    <3>3. out \in SUBSET ToSet(l)
      BY <3>1
    <3>4. IsFiniteSet(out)
      BY <3>2, <3>3, FS_Subset
    <3> QED BY <3>4, FS_CardinalityType
  <2>3. gone \in Seq(out) /\ DOMAIN gone = 1..Cardinality(out)
    BY <2>1, <2>2, SeqDef
  <2>4. gone \in Seq({base[i] : i \in P})
    BY <1>5, <2>3, SeqMonotonic
  <2>5. IsFiniteSet(1..Cardinality(out)) /\ Cardinality(1..Cardinality(out)) = Cardinality(out)
    <3> DEFINE n == Cardinality(out)
    <3>1. 1 \in Int /\ n \in Int
      BY <2>2
    <3>2. IsFiniteSet(1..n) /\ Cardinality(1..n) = IF 1 > n THEN 0 ELSE n - 1 + 1
      BY <3>1, FS_Interval
    <3>3. n \in Nat
      BY <2>2
    <3> HIDE DEF n
    <3>4. IsFiniteSet(1..n) /\ Cardinality(1..n) = n
      BY <3>2, <3>3
    <3> QED BY <3>4 DEF n
  <2>6. gone \in Injection(1..Cardinality(out), out)
    BY <2>1 DEF Injection, IsInjective
  <2>7. gone \in Surjection(1..Cardinality(out), out)
    BY <2>2, <2>5, <2>6, FS_Injection
  <2>8. ToSet(gone) = out
    BY <2>1, <2>3, <2>7 DEF Surjection, ToSet
  <2> QED BY <2>1, <2>4, <2>8
<1>10. P \in Places /\ Distinct(base, P)
  BY KeepIsList
<1>11. AfterRemovals(TableOf(base, P), gone) = TableOf(base, {i \in P : base[i] \notin out})
  <2>1. AfterRemovals(TableOf(base, P), gone) = TableOf(base, {i \in P : base[i] \notin ToSet(gone)})
    BY <1>9, <1>10, RemovalsAreRebuilt
  <2> QED BY <1>9, <2>1
<1> DEFINE Q == {i \in P : base[i] \notin out}
<1>12. rows' = Keep(base, Q) /\ rowOf' = RowsOf(Keep(base, Q))
  BY <1>7, <1>8, <1>11 DEF TableOf
<1>13. Keep(base, Q) = Display(Keep(l, {i \in DOMAIN l : l[i] \notin out}), byName)
  BY <1>4
<1>14. Keep(base, Q) \in Lists /\ ToSet(Keep(base, Q)) = {base[i] : i \in Q}
  BY KeepIsList
<1>15. Keep(base, Q) \in Seq(Ids) /\ ToSet(Keep(base, Q)) \subseteq Ids
  BY <1>14, ListHas
<1>16. list' \in Lists
  BY <1>6, KeepIsList
<1>17. DOMAIN rowOf' \subseteq Ids
  BY <1>12, <1>15, DictionaryFinds
<1>18. UNCHANGED <<sorted, busy, active, started>>
  BY DEF RemoveDevices
<1> HIDE DEF Q
<1> QED BY <1>2, <1>6, <1>12, <1>13, <1>15, <1>16, <1>17, <1>18

\* Showing a device, or none, leaves the panels with what they may hold.
LEMMA ShowTyped ==
    ASSUME NEW d \in Devices \cup {NoDevice}, NEW isLocked \in BOOLEAN, ShowDevice(d, isLocked)
    PROVE  /\ panel' \in Devices \cup {NoDevice}
           /\ locked' \in BOOLEAN /\ fieldsOn' \in BOOLEAN /\ firmwareOn' \in BOOLEAN
BY DEF ShowDevice, SetDevice

LEMMA PanelsTyped ==
    ASSUME LockTypeOK, NEW on, RefreshPanels(on)
    PROVE  /\ panel' \in Devices \cup {NoDevice}
           /\ locked' \in BOOLEAN /\ fieldsOn' \in BOOLEAN
BY DEF LockTypeOK, RefreshPanels, SetDevice

LEMMA ModeTyped ==
    ASSUME LockTypeOK, NEW on \in BOOLEAN, SetFactoryMode(on)
    PROVE  /\ panel' \in Devices \cup {NoDevice}
           /\ locked' \in BOOLEAN /\ fieldsOn' \in BOOLEAN /\ firmwareOn' \in BOOLEAN
           /\ factory' \in BOOLEAN /\ deletionOn' \in BOOLEAN /\ undoOn' \in BOOLEAN
           /\ editOn' \in BOOLEAN
BY PanelsTyped DEF SetFactoryMode

LEMMA KeyTyped ==
    ASSUME LockTypeOK
    PROVE  /\ StoreKey => /\ stored' \in [form : {"none", "legacy", "salted"}, key : Keys \cup {NoKey}]
                          /\ lastSet' \in Keys \cup {NoKey}
           /\ \A key \in Keys \cup {NoKey} : UpgradeAfter(key) =>
                 stored' \in [form : {"none", "legacy", "salted"}, key : Keys \cup {NoKey}]
BY DEF LockTypeOK, StoreKey, UpgradeAfter

LEMMA LockNextTyped ==
    ASSUME LockTypeOK, LockNext
    PROVE  LockTypeOK'
<1> USE DEF keyVars, actionVars, panelVars
<1>1. CASE SetLockKey
  BY <1>1, KeyTyped DEF SetLockKey, LockTypeOK
<1>2. CASE LockSettings
  <2>1. CASE KeyIsSet
    BY <1>2, <2>1, ModeTyped DEF LockSettings, LockTypeOK
  <2>2. CASE ~KeyIsSet
    BY <1>2, <2>2, KeyTyped DEF LockSettings, LockTypeOK
  <2> QED BY <2>1, <2>2
<1>3. CASE LockInterface
  <2>1. CASE KeyIsSet
    BY <1>3, <2>1 DEF LockInterface, LockTypeOK, SetAllActions
  <2>2. CASE ~KeyIsSet
    BY <1>3, <2>2, KeyTyped DEF LockInterface, LockTypeOK
  <2> QED BY <2>1, <2>2
<1>4. ASSUME NEW key \in Keys \cup {NoKey}, UnlockSettings(key)
      PROVE  LockTypeOK'
  <2>1. stored' \in [form : {"none", "legacy", "salted"}, key : Keys \cup {NoKey}]
    BY <1>4, KeyTyped DEF UnlockSettings
  <2>2. CASE Verify(key)
    BY <1>4, <2>1, <2>2, ModeTyped DEF UnlockSettings, LockTypeOK
  <2>3. CASE ~Verify(key)
    BY <1>4, <2>1, <2>3 DEF UnlockSettings, LockTypeOK
  <2> QED BY <2>2, <2>3
<1>5. ASSUME NEW key \in Keys \cup {NoKey}, UnlockAttempt(key)
      PROVE  LockTypeOK'
  <2>1. stored' \in [form : {"none", "legacy", "salted"}, key : Keys \cup {NoKey}]
    BY <1>5, KeyTyped DEF UnlockAttempt
  <2>2. CASE Verify(key)
    <3>1. /\ stored' \in [form : {"none", "legacy", "salted"}, key : Keys \cup {NoKey}]
          /\ overlay' \in BOOLEAN /\ undoOn' \in BOOLEAN /\ editOn' \in BOOLEAN
          /\ menusOn' \in BOOLEAN /\ entered' \in Keys \cup {NoKey}
      BY <1>5, <2>1, <2>2 DEF UnlockAttempt, LockTypeOK, SetAllActions
    <3>2. lastSet' = lastSet /\ windows' = windows /\ canUndo' = canUndo /\ factory' = factory
          /\ panel' = panel /\ locked' = locked /\ fieldsOn' = fieldsOn
          /\ firmwareOn' = firmwareOn /\ deletionOn' = deletionOn
      BY <1>5, <2>2 DEF UnlockAttempt
    <3> QED BY <3>1, <3>2 DEF LockTypeOK
  <2>3. CASE ~Verify(key)
    BY <1>5, <2>1, <2>3 DEF UnlockAttempt, LockTypeOK
  <2> QED BY <2>2, <2>3
<1>6. CASE (OpenWindow \/ CloseWindows)
           /\ UNCHANGED <<keyVars, factory, overlay, canUndo, actionVars, panelVars, deletionOn>>
  <2>1. windows' \in BOOLEAN
    BY <1>6 DEF OpenWindow, CloseWindows
  <2>2. UNCHANGED <<stored, lastSet, entered, factory, overlay, canUndo, undoOn, editOn, menusOn,
                    panel, locked, fieldsOn, firmwareOn, deletionOn>>
    BY <1>6
  <2> QED BY <2>1, <2>2 DEF LockTypeOK
<1> QED BY <1>1, <1>2, <1>3, <1>4, <1>5, <1>6 DEF LockNext

LEMMA LocksTyped ==
    ASSUME TableInv, [Next]_vars
    PROVE  LockTypeOK'
<1> USE DEF keyVars, actionVars, panelVars, Deselect, RefreshUndo
<1>0. LockTypeOK /\ busy \subseteq Ids /\ Listed \subseteq Devices
  BY ListHas, SameDevices DEF TableInv, TableTypeOK, Listed
<1>1. CASE LockNext
  BY <1>0, <1>1, LockNextTyped
<1>2. ASSUME NEW d \in Devices \cup {NoDevice}, ShowDevice(d, d \in busy),
             UNCHANGED <<keyVars, factory, overlay, windows>>,
             canUndo' \in BOOLEAN, undoOn' \in BOOLEAN, editOn' \in BOOLEAN,
             menusOn' \in BOOLEAN, deletionOn' \in BOOLEAN
      PROVE  LockTypeOK'
  <2>1. (d \in busy) \in BOOLEAN
    OBVIOUS
  <2>2. /\ panel' \in Devices \cup {NoDevice}
        /\ locked' \in BOOLEAN /\ fieldsOn' \in BOOLEAN /\ firmwareOn' \in BOOLEAN
    BY <1>2, <2>1, ShowTyped
  <2> QED BY <1>0, <1>2, <2>2 DEF LockTypeOK
<1>3. ASSUME ShowDevice(NoDevice, FALSE), UNCHANGED <<keyVars, factory, overlay, windows>>,
             canUndo' \in BOOLEAN, undoOn' \in BOOLEAN, editOn' \in BOOLEAN,
             menusOn' \in BOOLEAN, deletionOn' \in BOOLEAN
      PROVE  LockTypeOK'
  <2>1. /\ panel' \in Devices \cup {NoDevice}
        /\ locked' \in BOOLEAN /\ fieldsOn' \in BOOLEAN /\ firmwareOn' \in BOOLEAN
    BY <1>3, ShowTyped
  <2> QED BY <1>0, <1>3, <2>1 DEF LockTypeOK
<1>4. ASSUME NEW d \in Listed \cup {NoDevice}, SelectRow(d)
      PROVE  LockTypeOK'
  BY <1>0, <1>2, <1>4 DEF SelectRow, LockTypeOK
<1>5. ASSUME NEW d \in Devices, Add(d)
      PROVE  LockTypeOK'
  BY <1>0, <1>3, <1>5 DEF Add, LockTypeOK
<1>6. ASSUME NEW out \in SUBSET Listed, RemoveRows(out)
      PROVE  LockTypeOK'
  <2>1. CASE panel \in out
    <3>1. PICK d \in {NoDevice} \cup (Listed \ out) : ShowDevice(d, d \in busy)
      BY <1>6, <2>1 DEF RemoveRows
    <3> QED BY <1>0, <1>2, <1>6, <3>1 DEF RemoveRows, LockTypeOK
  <2>2. CASE panel \notin out
    BY <1>0, <1>6, <2>2 DEF RemoveRows, LockTypeOK
  <2> QED BY <2>1, <2>2
<1>7. ASSUME NEW devices \in Lists, UndoOrRedo(devices)
      PROVE  LockTypeOK'
  BY <1>0, <1>3, <1>7 DEF UndoOrRedo, LockTypeOK
<1>8. ASSUME NEW devices \in Lists, OpenProject(devices)
      PROVE  LockTypeOK'
  BY <1>0, <1>3, <1>8 DEF OpenProject, LockTypeOK
<1>9. CASE Sort
  BY <1>0, <1>3, <1>9 DEF Sort, LockTypeOK
<1>10. CASE CommitField
  <2>1. /\ panel' \in Devices \cup {NoDevice}
        /\ locked' \in BOOLEAN /\ fieldsOn' \in BOOLEAN
    BY <1>0, <1>10, PanelsTyped DEF CommitField
  <2> QED BY <1>0, <1>10, <2>1 DEF CommitField, LockTypeOK
<1>11. ASSUME NEW d \in Devices, Upload(d)
       PROVE  LockTypeOK'
  BY <1>0, <1>11 DEF Upload, lockVars, LockTypeOK
<1>12. ASSUME NEW d \in Devices, StatusArrives(d)
       PROVE  LockTypeOK'
  <2>1. PICK still \in BOOLEAN : LockPanel(d, still)
    BY <1>12 DEF StatusArrives
  <2>2. /\ panel' \in Devices \cup {NoDevice}
        /\ locked' \in BOOLEAN /\ fieldsOn' \in BOOLEAN
    BY <1>0, <2>1 DEF LockPanel, SetDevice, LockTypeOK
  <2> QED BY <1>0, <1>12, <2>2 DEF StatusArrives, LockTypeOK
<1>13. CASE UNCHANGED lockVars
  BY <1>0, <1>13 DEF lockVars, LockTypeOK
<1>14. CASE UNCHANGED vars
  BY <1>13, <1>14 DEF vars
<1> QED
  BY <1>1, <1>4, <1>5, <1>6, <1>7, <1>8, <1>9, <1>10, <1>11, <1>12, <1>13, <1>14 DEF Next

\* One step of the window keeps the table true.
LEMMA TableStep ==
    ASSUME TableInv, [Next]_vars
    PROVE  TableInv'
<1> DEFINE Times == started \in [Ids -> {"none", "this", "earlier"}]
                    /\ \A d \in Ids : started[d] # "earlier"
           Rest == busy \subseteq Ids /\ active \subseteq Ids /\ Times
           Goal == /\ list' \in Lists /\ sorted' \in BOOLEAN
                   /\ rows' = Display(list', sorted') /\ rowOf' = RowsOf(rows')
                   /\ rows' \in Seq(Ids) /\ DOMAIN rowOf' \subseteq Ids
                   /\ Rest'
<1>0. /\ list \in Lists /\ sorted \in BOOLEAN
      /\ rows = Display(list, sorted) /\ rowOf = RowsOf(rows)
      /\ rows \in Seq(Ids) /\ DOMAIN rowOf \subseteq Ids
      /\ Rest
      /\ Listed \subseteq Ids /\ Devices = Ids /\ DOMAIN rowOf = Listed
  <2>1. ToSet(rows) = Listed
    BY DisplayProps DEF TableInv, TableTypeOK, Listed
  <2> QED BY <2>1, ListHas, SameDevices, DictionaryFinds DEF TableInv, TableTypeOK, Listed
<1>1. LockTypeOK'
  BY LocksTyped
<1>2. ASSUME UNCHANGED tableVars
      PROVE  Goal
  BY <1>0, <1>2 DEF tableVars
<1>3. ASSUME NEW d \in Devices, AddDevice(d)
      PROVE  Goal
  <2>1. list' \in Lists
    <3>1. list \in Seq(Ids) /\ IsInjective(list) /\ d \in Ids /\ \A i \in 1..Len(list) : list[i] # d
      BY <1>0, <1>3, ListsAre, LenProperties DEF AddDevice, Listed, ToSet
    <3>2. Append(list, d) \in Seq(Ids) /\ IsInjective(Append(list, d))
      <4>1. /\ Append(list, d) \in Seq(Ids) /\ Len(Append(list, d)) = Len(list) + 1
            /\ \A i \in 1..Len(list) : Append(list, d)[i] = list[i]
            /\ Append(list, d)[Len(list) + 1] = d
        BY <3>1, AppendProperties
      <4>2. Len(list) \in Nat /\ DOMAIN list = 1..Len(list)
            /\ DOMAIN Append(list, d) = 1..(Len(list) + 1)
        BY <3>1, <4>1, LenProperties
      <4>3. \A i \in 1..(Len(list) + 1) : i \in 1..Len(list) \/ i = Len(list) + 1
        BY <4>2
      <4> QED BY <3>1, <4>1, <4>2, <4>3 DEF IsInjective
    <3>3. Append(list, d) \in Lists
      BY <3>2, ListsAre
    <3> QED BY <1>3, <3>3 DEF AddDevice
  <2>2. PICK l \in Lists : l = list'
    BY <2>1
  <2>3. Rebuild(l, sorted)
    BY <1>3, <2>2 DEF AddDevice
  <2>4. rows' = Display(l, sorted) /\ rowOf' = RowsOf(rows')
        /\ rows' \in Seq(Ids) /\ DOMAIN rowOf' \subseteq Ids
    BY <1>0, <2>3, RebuildStep
  <2>5. UNCHANGED <<sorted, busy, active, started>>
    BY <1>3 DEF AddDevice
  <2> QED BY <1>0, <2>2, <2>4, <2>5
<1>4. ASSUME NEW out, RemoveDevices(out)
      PROVE  Goal
  BY <1>0, <1>4, RemoveStep
<1>5. ASSUME NEW devices \in Lists, ResetDevices(devices)
      PROVE  Goal
  <2>1. rows' = Display(devices, sorted) /\ rowOf' = RowsOf(rows')
        /\ rows' \in Seq(Ids) /\ DOMAIN rowOf' \subseteq Ids
    BY <1>0, <1>5, RebuildStep DEF ResetDevices
  <2>2. list' = devices /\ UNCHANGED <<sorted, busy, active, started>>
    BY <1>5 DEF ResetDevices
  <2> QED BY <1>0, <2>1, <2>2
<1>6. ASSUME SortTable
      PROVE  Goal
  <2>1. PICK b \in BOOLEAN : b = sorted'
    BY <1>0, <1>6 DEF SortTable
  <2>2. Rebuild(list, b)
    BY <1>6, <2>1 DEF SortTable
  <2>3. rows' = Display(list, b) /\ rowOf' = RowsOf(rows')
        /\ rows' \in Seq(Ids) /\ DOMAIN rowOf' \subseteq Ids
    BY <1>0, <2>2, RebuildStep
  <2>4. UNCHANGED <<list, busy, active, started>>
    BY <1>6 DEF SortTable
  <2> QED BY <1>0, <2>1, <2>3, <2>4
<1>7. ASSUME UNCHANGED <<list, sorted, rows, rowOf>>, Rest'
      PROVE  Goal
  BY <1>0, <1>7
<1>8. ASSUME NEW d \in Devices, StartUpload(d)
      PROVE  Goal
  <2>1. Reset(started, d) = [started EXCEPT ![d] = "none"]
    BY <1>0, <1>8 DEF StartUpload, Reset
  <2>2. Aged(Reset(started, d), d) = [started EXCEPT ![d] = "none"]
    BY <1>0, <2>1 DEF Aged
  <2>3. started' = [started EXCEPT ![d] = "none"]
    BY <1>8, <2>1, <2>2 DEF StartUpload
  <2>4. Times'
    BY <1>0, <2>3
  <2> QED BY <1>0, <1>7, <1>8, <2>4 DEF StartUpload
<1>9. ASSUME NEW d \in Devices, StatusActive(d)
      PROVE  Goal
  <2>1. Times'
    BY <1>0, <1>9 DEF StatusActive
  <2> QED BY <1>0, <1>7, <1>9, <2>1 DEF StatusActive
<1>10. ASSUME NEW d \in Devices, NEW still \in BOOLEAN, StatusOver(d, still)
       PROVE  Goal
  <2>1. Times'
    BY <1>0, <1>10 DEF StatusOver
  <2> QED BY <1>0, <1>7, <1>10, <2>1 DEF StatusOver
<1>11. ASSUME NEW d \in Devices, NoLongerBusy(d)
       PROVE  Goal
  BY <1>0, <1>7, <1>11 DEF NoLongerBusy
<1>12. Goal
  <2>1. CASE UNCHANGED vars
    BY <1>2, <2>1 DEF vars
  <2>2. CASE Next
    BY <1>2, <1>3, <1>4, <1>5, <1>6, <1>8, <1>9, <1>10, <1>11, <2>2
    DEF Next, SelectRow, Add, RemoveRows, UndoOrRedo, OpenProject, Sort, CommitField, Upload,
        StatusArrives
  <2> QED BY <2>1, <2>2
<1> QED BY <1>1, <1>12 DEF TableInv, TableTypeOK

\* However devices are added, removed, undone, sorted and flashed: the row the
\* dictionary has for a device is its row, for any number of devices.
THEOREM TableStaysTrue == Spec => []TableIsTrue
BY TableInvInit, TableInvImplies, TableStep, PTL DEF Spec

-----------------------------------------------------------------------------
(* The checks of rows, and what is written and merged. *)

\* The contents the files may have.
Files == [Paths -> Seq(Nat) \cup {Absent}]

\* Where no range overlaps the next one, none overlaps any other: between two
\* that do there is a first one after the earlier of them, and it starts no later.
LEMMA NeighboursSuffice ==
    ASSUME NEW ranges, DOMAIN ranges \subseteq Nat,
           \A k \in DOMAIN ranges : ranges[k].from \in Nat /\ ranges[k].to \in Nat,
           ~Clash(ranges),
           NEW i \in DOMAIN ranges, NEW j \in DOMAIN ranges, Before(ranges, i, j)
    PROVE  ranges[i].to <= ranges[j].from
<1> DEFINE Later == {k \in DOMAIN ranges : Before(ranges, i, k)}
           Starts == {ranges[k].from : k \in Later}
<1>1. Starts \in SUBSET Nat /\ Starts # {}
  OBVIOUS
<1>2. PICK m \in Starts : \A n \in Starts : m <= n
  BY <1>1, LeastNat
<1> DEFINE First == {k \in Later : ranges[k].from = m}
<1>3. First \in SUBSET Nat /\ First # {}
  BY <1>2
<1>4. PICK k \in First : \A l \in First : k <= l
  BY <1>3, LeastNat
<1>5. k \in DOMAIN ranges /\ Before(ranges, i, k) /\ ranges[k].from = m /\ m \in Nat
  BY <1>1, <1>4
<1>6. ASSUME NEW l \in DOMAIN ranges, Before(ranges, i, l), Before(ranges, l, k)
      PROVE  FALSE
  <2>1. m <= ranges[l].from
    BY <1>2, <1>6
  <2>2. ranges[l].from = m /\ l < k
    BY <1>5, <1>6, <2>1 DEF Before
  <2>3. l \in First
    BY <1>6, <2>2
  <2> QED BY <1>4, <1>5, <1>6, <2>2, <2>3
<1>7. ~(ranges[k].from < ranges[i].to)
  BY <1>5, <1>6 DEF Clash
<1>8. m <= ranges[j].from
  BY <1>2
<1> QED BY <1>5, <1>7, <1>8

\* Without a clash no two ranges have an address in common.
LEMMA RangesApart ==
    ASSUME NEW ranges, DOMAIN ranges \subseteq Nat,
           \A k \in DOMAIN ranges : ranges[k].from \in Nat /\ ranges[k].to \in Nat,
           ~Clash(ranges),
           NEW i \in DOMAIN ranges, NEW j \in DOMAIN ranges, i # j,
           NEW a \in ranges[i].from..(ranges[i].to - 1)
    PROVE  a \notin ranges[j].from..(ranges[j].to - 1)
<1>1. Before(ranges, i, j) \/ Before(ranges, j, i)
  BY DEF Before
<1>2. ranges[i].to <= ranges[j].from \/ ranges[j].to <= ranges[i].from
  BY <1>1, NeighboursSuffice
<1> QED BY <1>2

\* A file that is there has a size, and bytes.
LEMMA SizeOf ==
    ASSUME NEW files \in Files, NEW path \in Paths, files[path] # Absent
    PROVE  /\ files[path] \in Seq(Nat) /\ Len(files[path]) \in Nat
           /\ \A k \in 1..Len(files[path]) : files[path][k] \in Nat
<1>1. files[path] \in Seq(Nat)
  BY DEF Files
<1> QED BY <1>1, LenProperties, ElementOfSeq

\* An address that is one is a number.
LEMMA ValueOf ==
    ASSUME NEW text \in Texts, Value[text] # -1
    PROVE  Value[text] \in Nat
BY RowsAssumption

\* What a row is made of.
LEMMA RowFields ==
    ASSUME NEW row \in Row
    PROVE  row.path \in Paths /\ row.address \in Texts /\ row.size \in Nat /\ row.enabled \in BOOLEAN
           /\ row.missing \in BOOLEAN /\ row.id \in 0..MaxRows
BY DEF Row

\* What the merge's check lets through is what esptool insists on.
LEMMA MergeCheckIsSound ==
    ASSUME NEW entries, DOMAIN entries \subseteq Nat, \A i \in DOMAIN entries : entries[i] \in Row,
           NEW files \in Files, MergePasses(entries, files)
    PROVE  Sound(entries, files)
<1> DEFINE ranges == [i \in DOMAIN entries |-> RangeOf(entries[i], Len(files[entries[i].path]))]
<1>1. /\ \A i \in DOMAIN entries : files[entries[i].path] # Absent /\ Value[entries[i].address] # -1
      /\ ~Clash(ranges)
  BY DEF MergePasses
<1>2. ASSUME NEW i \in DOMAIN entries
      PROVE  /\ ranges[i] = RangeOf(entries[i], Len(files[entries[i].path]))
             /\ ranges[i].from \in Nat /\ ranges[i].to \in Nat
  <2>1. Value[entries[i].address] \in Nat /\ Len(files[entries[i].path]) \in Nat
    BY <1>1, SizeOf, ValueOf, RowFields
  <2> QED BY <2>1 DEF RangeOf
<1>3. DOMAIN ranges = DOMAIN entries
  OBVIOUS
<1> HIDE DEF ranges
<1>4. ASSUME NEW i \in DOMAIN entries, NEW j \in DOMAIN entries, i # j,
             NEW a \in ranges[i].from..(ranges[i].to - 1)
      PROVE  a \notin ranges[j].from..(ranges[j].to - 1)
  BY <1>1, <1>2, <1>3, <1>4, RangesApart
<1> QED BY <1>1, <1>2, <1>4 DEF Sound

\* What an upload is let through with, when the rows know the files as they are.
LEMMA UploadCheckIsSound ==
    ASSUME NEW entries, DOMAIN entries \subseteq Nat, \A i \in DOMAIN entries : entries[i] \in Row,
           NEW files \in Files, Accepts(entries),
           \A i \in DOMAIN entries : entries[i] = Refresh(entries[i], files)
    PROVE  Sound(Enabled(entries), files)
<1> DEFINE kept == Enabled(entries)
           sized == {i \in DOMAIN kept : kept[i].size > 0}
           ranges == [i \in sized |-> RangeOf(kept[i], kept[i].size)]
<1>1. /\ \A i \in DOMAIN kept : ~kept[i].missing /\ Value[kept[i].address] # -1
      /\ ~Clash(ranges)
  BY DEF Accepts
<1>2. DOMAIN kept \subseteq DOMAIN entries /\ \A i \in DOMAIN kept : kept[i] = entries[i]
  BY DEF Enabled, Restrict
<1>3. ASSUME NEW i \in DOMAIN kept
      PROVE  /\ files[kept[i].path] # Absent /\ Value[kept[i].address] \in Nat
             /\ kept[i].size = Len(files[kept[i].path]) /\ kept[i].size \in Nat
  <2>1. kept[i] \in Row /\ kept[i] = Refresh(kept[i], files)
    BY <1>2
  <2>2. kept[i].missing = (files[kept[i].path] = Absent)
        /\ kept[i].size = IF files[kept[i].path] = Absent THEN 0 ELSE Len(files[kept[i].path])
    BY <2>1 DEF Refresh, Row
  <2> HIDE DEF kept
  <2> QED BY <1>1, <2>1, <2>2, ValueOf, RowFields
<1>4. ASSUME NEW i \in sized
      PROVE  /\ ranges[i] = RangeOf(kept[i], Len(files[kept[i].path]))
             /\ ranges[i].from \in Nat /\ ranges[i].to \in Nat
  <2>1. i \in DOMAIN kept
    OBVIOUS
  <2> HIDE DEF kept
  <2> QED BY <1>3, <2>1 DEF RangeOf
<1>5. DOMAIN ranges = sized /\ sized \subseteq Nat
  BY <1>2
<1> HIDE DEF ranges
<1>6. ASSUME NEW i \in sized, NEW j \in sized, i # j,
             NEW a \in ranges[i].from..(ranges[i].to - 1)
      PROVE  a \notin ranges[j].from..(ranges[j].to - 1)
  <2> HIDE DEF sized
  <2> QED BY <1>1, <1>4, <1>5, <1>6, RangesApart
<1>7. ASSUME NEW i \in DOMAIN kept, i \notin sized
      PROVE  \A a : a \notin RangeOf(kept[i], Len(files[kept[i].path])).from
                              ..(RangeOf(kept[i], Len(files[kept[i].path])).to - 1)
  <2>1. kept[i].size = 0
    BY <1>3, <1>7
  <2> HIDE DEF kept
  <2> QED BY <1>3, <2>1 DEF RangeOf
<1>8. ASSUME NEW i \in DOMAIN kept, NEW j \in DOMAIN kept, i # j,
             NEW a \in RangeOf(kept[i], Len(files[kept[i].path])).from
                              ..(RangeOf(kept[i], Len(files[kept[i].path])).to - 1)
      PROVE  a \notin RangeOf(kept[j], Len(files[kept[j].path])).from
                              ..(RangeOf(kept[j], Len(files[kept[j].path])).to - 1)
  <2>1. i \in sized
    BY <1>7, <1>8
  <2>2. CASE j \in sized
    <3> HIDE DEF sized, kept
    <3> QED BY <1>4, <1>6, <1>8, <2>1, <2>2
  <2>3. CASE j \notin sized
    <3> HIDE DEF sized, kept
    <3> QED BY <1>7, <2>3
  <2> QED BY <2>2, <2>3
<1> HIDE DEF kept
<1>9. \A i \in DOMAIN kept : files[kept[i].path] # Absent /\ Value[kept[i].address] # -1
  BY <1>1, <1>3
<1>10. Sound(kept, files)
  BY <1>8, <1>9 DEF Sound
<1> QED BY <1>10 DEF kept

\* There are ids for the rows that still have room.
LEMMA NewIdsExist ==
    ASSUME NEW entries \in Seq(Row), NEW n \in Nat, Len(entries) + n <= MaxRows
    PROVE  /\ NewIds(entries, n) \in [1..n -> 1..MaxRows]
           /\ IsInjective(NewIds(entries, n))
           /\ \A i \in 1..n : \A j \in 1..Len(entries) : NewIds(entries, n)[i] # entries[j].id
<1> DEFINE l == Len(entries)
           Free == FreeIds(entries)
           used == {entries[i].id : i \in DOMAIN entries}
           taken1 == (1..MaxRows) \cap used
<1>1. l \in Nat /\ DOMAIN entries = 1..l /\ MaxRows \in Nat
  BY LenProperties, PanelAssumption
<1>2. IsFiniteSet(1..l) /\ Cardinality(1..l) = l
  <2>1. 1 \in Int /\ l \in Int
    BY <1>1
  <2>2. IsFiniteSet(1..l) /\ Cardinality(1..l) = IF 1 > l THEN 0 ELSE l - 1 + 1
    BY <2>1, FS_Interval
  <2> HIDE DEF l
  <2> QED BY <1>1, <2>2
<1>3. IsFiniteSet(1..MaxRows) /\ Cardinality(1..MaxRows) = MaxRows
  <2>1. 1 \in Int /\ MaxRows \in Int
    BY <1>1
  <2>2. IsFiniteSet(1..MaxRows) /\ Cardinality(1..MaxRows) = IF 1 > MaxRows THEN 0 ELSE MaxRows - 1 + 1
    BY <2>1, FS_Interval
  <2> QED BY <1>1, <2>2
<1>4. IsFiniteSet(taken1) /\ Cardinality(taken1) <= l /\ Cardinality(taken1) \in Nat
  <2> DEFINE f == [i \in 1..l |-> entries[i].id]
  <2>1. f \in Surjection(1..l, used)
    BY <1>1 DEF Surjection
  <2>2. IsFiniteSet(used) /\ Cardinality(used) <= Cardinality(1..l)
    BY <1>2, <2>1, FS_Surjection
  <2>3. IsFiniteSet(taken1) /\ Cardinality(taken1) <= Cardinality(used)
    BY <2>2, FS_Intersection
  <2>4. Cardinality(used) \in Nat /\ Cardinality(taken1) \in Nat
    BY <2>2, <2>3, FS_CardinalityType
  <2> HIDE DEF used, taken1, l
  <2> QED BY <1>1, <1>2, <2>2, <2>3, <2>4
<1>5. IsFiniteSet(Free) /\ Cardinality(Free) = MaxRows - Cardinality(taken1)
  BY <1>3, FS_Difference DEF FreeIds
<1>6. Cardinality(Free) \in Nat /\ n <= Cardinality(Free)
  <2>1. l + n <= MaxRows
    OBVIOUS
  <2>2. Cardinality(Free) \in Nat
    BY <1>5, FS_CardinalityType
  <2> HIDE DEF l, Free, taken1
  <2> QED BY <1>1, <1>4, <1>5, <2>1, <2>2
<1>7. \E ids \in Injection(1..n, Free) : TRUE
  <2> HIDE DEF Free
  <2>1. PICK m \in Nat : ExistsBijection(1..m, Free)
    BY <1>5, FS_NatBijection
  <2>2. m = Cardinality(Free)
    BY <2>1, FS_CountingElements
  <2>3. PICK g : g \in Bijection(1..m, Free)
    BY <2>1 DEF ExistsBijection
  <2>4. g \in [1..m -> Free] /\ \A a, b \in 1..m : g[a] = g[b] => a = b
    BY <2>3 DEF Bijection, Injection, IsInjective
  <2>5. \A i \in 1..n : i \in 1..m
    BY <1>6, <2>2
  <2> DEFINE h == [i \in 1..n |-> g[i]]
  <2>6. h \in [1..n -> Free] /\ IsInjective(h)
    BY <2>4, <2>5 DEF IsInjective
  <2> QED BY <2>6 DEF Injection
<1>8. NewIds(entries, n) \in Injection(1..n, Free)
  BY <1>7 DEF NewIds
<1>9. Free \subseteq 1..MaxRows /\ \A id \in Free : \A j \in 1..l : id # entries[j].id
  BY <1>1 DEF FreeIds
<1> HIDE DEF Free
<1> QED BY <1>8, <1>9 DEF Injection

\* Finitely many numbers have a bound.
LEMMA Bounded ==
    ASSUME NEW n \in Nat, NEW P, P \subseteq 1..n, NEW f, \A i \in P : f[i] \in Nat
    PROVE  \E b \in Nat : \A i \in P : f[i] <= b
<1> DEFINE Holds(m) == \E b \in Nat : \A i \in P : i <= m => f[i] <= b
           Bad == {m \in 0..n : ~Holds(m)}
<1>1. SUFFICES ASSUME Bad # {}
               PROVE  FALSE
  <2>1. Bad = {} /\ n \in 0..n
    BY <1>1
  <2>2. Holds(n)
    <3> HIDE DEF Holds
    <3> QED BY <2>1
  <2>3. PICK b \in Nat : \A i \in P : i <= n => f[i] <= b
    BY <2>2
  <2> QED BY <2>3
<1>2. Bad \in SUBSET Nat
  OBVIOUS
<1>3. PICK m \in Bad : \A k \in Bad : m <= k
  BY <1>1, <1>2, LeastNat
<1>4. m \in 0..n /\ ~Holds(m)
  BY <1>3
<1>5. m # 0
  <2>1. Holds(0)
    OBVIOUS
  <2> QED BY <1>4, <2>1
<1>6. Holds(m - 1)
  <2>1. m - 1 \in 0..n /\ ~(m <= m - 1)
    BY <1>4, <1>5
  <2> QED BY <1>3, <2>1
<1>7. PICK b \in Nat : \A i \in P : i <= m - 1 => f[i] <= b
  BY <1>6
<1>8. CASE m \in P
  <2> DEFINE c == IF f[m] <= b THEN b ELSE f[m]
  <2>1. c \in Nat /\ b <= c /\ f[m] <= c
    BY <1>8
  <2>2. ASSUME NEW i \in P, i <= m
        PROVE  f[i] <= c
    <3>1. i = m \/ i <= m - 1
      BY <1>4, <2>2
    <3>2. f[i] \in Nat
      OBVIOUS
    <3> QED BY <1>7, <2>1, <3>1, <3>2
  <2>3. Holds(m)
    BY <2>1, <2>2
  <2> QED BY <1>4, <2>3
<1>9. CASE m \notin P
  <2>1. \A i \in P : i <= m => i <= m - 1
    BY <1>4, <1>9
  <2>2. Holds(m)
    BY <1>7, <2>1
  <2> QED BY <1>4, <2>2
<1> QED BY <1>8, <1>9

\* ... and so does a set of numbers with a bound have its greatest.
LEMMA MaxOfBounded ==
    ASSUME NEW S \in SUBSET Nat, S # {}, NEW b \in Nat, \A x \in S : x <= b
    PROVE  Max(S) \in S /\ \A x \in S : x <= Max(S)
<1> DEFINE Bounds == {c \in Nat : \A x \in S : x <= c}
<1>1. Bounds \in SUBSET Nat /\ Bounds # {}
  OBVIOUS
<1>2. PICK c \in Bounds : \A d \in Bounds : c <= d
  BY <1>1, LeastNat
<1>3. c \in Nat /\ \A x \in S : x <= c
  BY <1>2
<1>4. c \in S
  <2> SUFFICES ASSUME c \notin S
               PROVE  FALSE
    OBVIOUS
  <2>1. \A x \in S : x <= c - 1
    BY <1>3
  <2>2. PICK x \in S : x <= c - 1
    BY <2>1
  <2>3. c - 1 \in Nat
    BY <1>3, <2>2
  <2>4. c - 1 \in Bounds
    BY <2>1, <2>3
  <2> QED BY <1>2, <1>3, <2>4
<1>5. \E x \in S : \A y \in S : x >= y
  BY <1>3, <1>4
<1> QED BY <1>5 DEF Max

\* w is the k-th byte of the file of a row, at its place.
IsByte(w, row, files, k) ==
    /\ files[row.path] # Absent
    /\ k \in 1..Len(files[row.path])
    /\ w = <<Value[row.address] + k - 1, files[row.path][k]>>

\* What is written are the bytes of the files, each at its place.
LEMMA WrittenBytes ==
    ASSUME NEW entries, NEW files, NEW w
    PROVE  w \in Written(entries, files) <=> \E i \in DOMAIN entries : \E k : IsByte(w, entries[i], files, k)
<1> DEFINE here(i) == {<<Value[entries[i].address] + k - 1, files[entries[i].path][k]>> :
                          k \in 1..Len(files[entries[i].path])}
           there == {j \in DOMAIN entries : files[entries[j].path] # Absent}
<1>1. w \in Written(entries, files) <=> \E i \in there : w \in here(i)
  BY DEF Written
<1>2. \A i \in DOMAIN entries : i \in there /\ w \in here(i) <=> \E k : IsByte(w, entries[i], files, k)
  BY DEF IsByte
<1>3. there \subseteq DOMAIN entries
  OBVIOUS
<1> HIDE DEF here, there
<1> QED BY <1>1, <1>2, <1>3

\* A byte that is written, taken apart.
LEMMA ByteTyped ==
    ASSUME NEW entries, \A i \in DOMAIN entries : entries[i] \in Row /\ Value[entries[i].address] # -1,
           NEW files \in Files, NEW w, NEW i \in DOMAIN entries, NEW k, IsByte(w, entries[i], files, k)
    PROVE  /\ Value[entries[i].address] \in Nat /\ Len(files[entries[i].path]) \in Nat
           /\ w = <<w[1], w[2]>> /\ w[1] \in Nat /\ w[2] \in Nat
           /\ k \in 1..Len(files[entries[i].path]) /\ w[1] = Value[entries[i].address] + k - 1
<1>1. /\ files[entries[i].path] # Absent
      /\ k \in 1..Len(files[entries[i].path])
      /\ w = <<Value[entries[i].address] + k - 1, files[entries[i].path][k]>>
  BY DEF IsByte
<1>2. Value[entries[i].address] \in Nat /\ files[entries[i].path][k] \in Nat
      /\ Len(files[entries[i].path]) \in Nat
  BY <1>1, SizeOf, ValueOf, RowFields
<1>3. Value[entries[i].address] + k - 1 \in Nat
  BY <1>1, <1>2
<1> QED BY <1>1, <1>2, <1>3

\* No byte of the flash is written twice by a sound list.
LEMMA OneByteEach ==
    ASSUME NEW entries, \A i \in DOMAIN entries : entries[i] \in Row,
           NEW files \in Files, Sound(entries, files),
           NEW w \in Written(entries, files), NEW x \in Written(entries, files), w[1] = x[1]
    PROVE  w = x
<1>1. \A i \in DOMAIN entries : entries[i] \in Row /\ Value[entries[i].address] # -1
  BY DEF Sound
<1>2. PICK i \in DOMAIN entries : \E k : IsByte(w, entries[i], files, k)
  BY WrittenBytes
<1>3. PICK k : IsByte(w, entries[i], files, k)
  BY <1>2
<1>4. PICK j \in DOMAIN entries : \E l : IsByte(x, entries[j], files, l)
  BY WrittenBytes
<1>5. PICK l : IsByte(x, entries[j], files, l)
  BY <1>4
<1> DEFINE vi == Value[entries[i].address]
           vj == Value[entries[j].address]
           li == Len(files[entries[i].path])
           lj == Len(files[entries[j].path])
<1>6. /\ vi \in Nat /\ li \in Nat /\ k \in 1..li /\ w[1] = vi + k - 1
      /\ vj \in Nat /\ lj \in Nat /\ l \in 1..lj /\ x[1] = vj + l - 1
  BY <1>1, <1>3, <1>5, ByteTyped
<1>7. vi + k - 1 = vj + l - 1
  BY <1>6
<1>8. i = j
  <2> SUFFICES ASSUME i # j
               PROVE  FALSE
    OBVIOUS
  <2>1. /\ RangeOf(entries[i], li).from = vi /\ RangeOf(entries[i], li).to = vi + li
        /\ RangeOf(entries[j], lj).from = vj /\ RangeOf(entries[j], lj).to = vj + lj
    BY DEF RangeOf
  <2>2. \A a \in RangeOf(entries[i], li).from..(RangeOf(entries[i], li).to - 1) :
           a \notin RangeOf(entries[j], lj).from..(RangeOf(entries[j], lj).to - 1)
    BY DEF Sound
  <2> HIDE DEF vi, vj, li, lj
  <2>3. vi + k - 1 \in vi..(vi + li - 1) /\ vi + k - 1 \in vj..(vj + lj - 1)
    BY <1>6, <1>7
  <2>4. vi + k - 1 \in RangeOf(entries[i], li).from..(RangeOf(entries[i], li).to - 1)
    BY <1>6, <2>1, <2>3
  <2>5. vi + k - 1 \in RangeOf(entries[j], lj).from..(RangeOf(entries[j], lj).to - 1)
    BY <1>6, <2>1, <2>3
  <2> QED BY <2>2, <2>4, <2>5
<1>9. k = l
  <2>1. vi = vj
    BY <1>8
  <2> HIDE DEF vi, vj, li, lj
  <2> QED BY <1>6, <1>7, <2>1
<1> QED BY <1>3, <1>5, <1>8, <1>9 DEF IsByte

\* A merged image is a file, and of a sound list it has every byte that is
\* written, in its place.
LEMMA MergedHasBytes ==
    ASSUME NEW entries, DOMAIN entries \subseteq 1..MaxRows,
           \A i \in DOMAIN entries : entries[i] \in Row /\ Value[entries[i].address] # -1,
           NEW files \in Files
    PROVE  /\ Merged(entries, files) \in Seq(Nat)
           /\ Sound(entries, files) =>
                 \A w \in Written(entries, files) :
                    /\ w = <<w[1], w[2]>> /\ w[1] \in Nat
                    /\ w[1] + 1 \in 1..Len(Merged(entries, files))
                    /\ Merged(entries, files)[w[1] + 1] = w[2]
<1> DEFINE bytes == Written(entries, files)
           ends == {0} \cup {b[1] + 1 : b \in bytes}
           ended(i) == Value[entries[i].address] + Len(files[entries[i].path])
           f == [i \in DOMAIN entries |-> IF files[entries[i].path] = Absent THEN 0 ELSE ended(i)]
           last == Max(ends)
           whole == Merged(entries, files)
<1>1. MaxRows \in Nat /\ Pad \in Nat
  BY PanelAssumption
<1>2. ASSUME NEW w \in bytes
      PROVE  /\ w = <<w[1], w[2]>> /\ w[1] \in Nat /\ w[2] \in Nat
             /\ \E i \in DOMAIN entries : w[1] + 1 <= f[i]
  <2>1. PICK i \in DOMAIN entries : \E k : IsByte(w, entries[i], files, k)
    BY WrittenBytes
  <2>2. PICK k : IsByte(w, entries[i], files, k)
    BY <2>1
  <2>3. /\ Value[entries[i].address] \in Nat /\ Len(files[entries[i].path]) \in Nat
        /\ w = <<w[1], w[2]>> /\ w[1] \in Nat /\ w[2] \in Nat
        /\ k \in 1..Len(files[entries[i].path]) /\ w[1] = Value[entries[i].address] + k - 1
    <3>1. \A r \in DOMAIN entries : entries[r] \in Row /\ Value[entries[r].address] # -1
      OBVIOUS
    <3>2. files \in Files /\ i \in DOMAIN entries
      OBVIOUS
    <3> QED BY ONLY <2>2, <3>1, <3>2, ByteTyped
  <2>4. files[entries[i].path] # Absent
    BY <2>2 DEF IsByte
  <2>5. w[1] + 1 <= ended(i)
    BY <2>3
  <2> QED BY <2>3, <2>4, <2>5
<1>3. \A i \in DOMAIN entries : f[i] \in Nat
  <2>1. ASSUME NEW i \in DOMAIN entries, files[entries[i].path] # Absent
        PROVE  ended(i) \in Nat
    BY <2>1, SizeOf, ValueOf, RowFields
  <2> HIDE DEF ended
  <2> QED BY <2>1
<1> HIDE DEF f
<1>4. PICK b \in Nat : \A i \in DOMAIN entries : f[i] <= b
  BY <1>1, <1>3, Bounded
<1>5. ends \in SUBSET Nat /\ ends # {} /\ \A x \in ends : x <= b
  <2>1. \A w \in bytes : w[1] + 1 \in Nat /\ w[1] + 1 <= b
    BY <1>2, <1>3, <1>4
  <2> HIDE DEF bytes
  <2> QED BY <1>4, <2>1
<1>6. last \in Nat /\ \A x \in ends : x <= last
  <2> HIDE DEF ends
  <2> QED BY <1>5, MaxOfBounded
<1>7. whole = [k \in 1..last |-> IF \E w \in bytes : w[1] = k - 1
                                  THEN (CHOOSE w \in bytes : w[1] = k - 1)[2]
                                  ELSE Pad]
  BY DEF Merged
<1>8. \A w \in bytes : w[1] + 1 \in ends
  OBVIOUS
<1> HIDE DEF last, ends, whole, bytes
<1>9. whole \in [1..last -> Nat]
  <2>1. ASSUME NEW k \in 1..last, \E w \in bytes : w[1] = k - 1
        PROVE  (CHOOSE w \in bytes : w[1] = k - 1)[2] \in Nat
    BY <1>2, <2>1
  <2> QED BY <1>1, <1>7, <2>1
<1>10. whole \in Seq(Nat)
  BY <1>6, <1>9, SeqDef
<1>11. Len(whole) = last
  BY <1>6, <1>9, <1>10, LenProperties
<1>12. ASSUME Sound(entries, files), NEW w \in bytes
       PROVE  w[1] + 1 \in 1..last /\ whole[w[1] + 1] = w[2]
  <2>1. w[1] \in Nat /\ w[1] + 1 \in 1..last /\ w[1] + 1 - 1 = w[1]
    BY <1>2, <1>6, <1>8
  <2> DEFINE c == CHOOSE x \in bytes : x[1] = w[1] + 1 - 1
  <2>2. c \in bytes /\ c[1] = w[1]
    BY <2>1
  <2>3. whole[w[1] + 1] = c[2]
    BY <1>7, <2>1
  <2>4. \A i \in DOMAIN entries : entries[i] \in Row
    OBVIOUS
  <2> HIDE DEF c
  <2>5. c = w
    BY <1>12, <2>2, <2>4, OneByteEach DEF bytes
  <2> QED BY <2>1, <2>3, <2>5
<1> QED BY <1>2, <1>10, <1>11, <1>12 DEF bytes, whole

\* The rows of the device: as many as there is room for, and no id twice.
AreRows(entries) ==
    /\ entries \in Seq(Row)
    /\ \A i, j \in 1..Len(entries) : entries[i].id = entries[j].id => i = j
    /\ Len(entries) <= MaxRows

\* Rows are shown by their number, their types and their ids.
LEMMA RowsBy ==
    ASSUME NEW entries, NEW n \in Nat, n <= MaxRows, entries = [k \in 1..n |-> entries[k]],
           \A k \in 1..n : entries[k] \in Row,
           \A i, j \in 1..n : entries[i].id = entries[j].id => i = j
    PROVE  AreRows(entries) /\ Len(entries) = n
<1>1. entries \in [1..n -> Row]
  OBVIOUS
<1>2. entries \in Seq(Row)
  BY <1>1, SeqDef
<1>3. Len(entries) = n
  BY <1>1, <1>2, LenProperties
<1> QED BY <1>2, <1>3 DEF AreRows

\* ... and rows show them.
LEMMA RowsAre ==
    ASSUME NEW entries, AreRows(entries)
    PROVE  /\ Len(entries) \in Nat /\ DOMAIN entries = 1..Len(entries)
           /\ \A k \in 1..Len(entries) : entries[k] \in Row /\ entries[k].id \in 0..MaxRows
           /\ MaxRows \in Nat
<1>1. entries \in Seq(Row)
  BY DEF AreRows
<1>2. \A k \in 1..Len(entries) : entries[k] \in Row
  BY <1>1, ElementOfSeq
<1> QED BY <1>1, <1>2, LenProperties, RowFields, PanelAssumption

\* refresh() changes the size and the missing flag only.
LEMMA RefreshTyped ==
    ASSUME NEW row \in Row, NEW files \in Files
    PROVE  /\ Refresh(row, files) \in Row
           /\ Refresh(row, files).id = row.id /\ Refresh(row, files).path = row.path
           /\ Refresh(row, files).address = row.address
           /\ Refresh(row, files).enabled = row.enabled
<1>1. row.path \in Paths
  BY DEF Row
<1>2. (IF files[row.path] = Absent THEN 0 ELSE Len(files[row.path])) \in Nat
  BY <1>1, SizeOf
<1> QED BY <1>2 DEF Refresh, Row

\* A new row is what it was made of.
LEMMA NewRowTyped ==
    ASSUME NEW id \in 0..MaxRows, NEW path \in Paths, NEW text \in Texts, NEW files \in Files
    PROVE  /\ NewRow(id, path, text, files) \in Row
           /\ NewRow(id, path, text, files).id = id /\ NewRow(id, path, text, files).path = path
           /\ NewRow(id, path, text, files).address = text
           /\ NewRow(id, path, text, files).enabled
<1> DEFINE row == [id |-> id, path |-> path, address |-> text, enabled |-> TRUE,
                   size |-> 0, missing |-> FALSE]
<1>1. row \in Row
  BY DEF Row
<1>2. NewRow(id, path, text, files) = Refresh(row, files)
  BY DEF NewRow
<1>3. row.id = id /\ row.path = path /\ row.address = text /\ row.enabled = TRUE
  OBVIOUS
<1> HIDE DEF row
<1> QED BY <1>1, <1>2, <1>3, RefreshTyped

\* Rows added at the end, under ids of their own, are rows.
LEMMA AddedRows ==
    ASSUME AreRows(firmware), disk \in Files, NEW paths \in Seq(Paths),
           NEW address \in [Paths -> Texts], Room(Len(paths))
    PROVE  AreRows(Added(firmware, paths, address))
<1> DEFINE n == Len(firmware)
           m == Len(paths)
           ids == NewIds(firmware, m)
           more == [i \in 1..m |-> NewRow(ids[i], paths[i], address[paths[i]], disk)]
           new == firmware \o more
<1>1. /\ n \in Nat /\ m \in Nat /\ n + m <= MaxRows /\ MaxRows \in Nat
      /\ firmware \in Seq(Row)
      /\ \A k \in 1..n : firmware[k] \in Row
      /\ \A i, j \in 1..n : firmware[i].id = firmware[j].id => i = j
  BY RowsAre, LenProperties DEF AreRows, Room
<1>2. /\ ids \in [1..m -> 1..MaxRows]
      /\ \A i, j \in 1..m : ids[i] = ids[j] => i = j
      /\ \A i \in 1..m : \A j \in 1..n : ids[i] # firmware[j].id
  BY <1>1, NewIdsExist DEF IsInjective
<1> HIDE DEF ids
<1>3. \A i \in 1..m : paths[i] \in Paths /\ address[paths[i]] \in Texts /\ ids[i] \in 0..MaxRows
  BY <1>1, <1>2, ElementOfSeq
<1>4. \A i \in 1..m : more[i] \in Row /\ more[i].id = ids[i]
  BY <1>3, NewRowTyped
<1>5. more \in Seq(Row) /\ Len(more) = m
  <2>1. more \in [1..m -> Row]
    BY <1>4
  <2> HIDE DEF more
  <2> QED BY <1>1, <2>1, SeqDef, LenProperties
<1> HIDE DEF more, n, m
<1>6. /\ new \in Seq(Row) /\ Len(new) = n + m
      /\ \A k \in 1..(n + m) : new[k] = IF k <= n THEN firmware[k] ELSE more[k - n]
  BY <1>1, <1>5, ConcatProperties DEF n
<1> HIDE DEF new
<1>7. \A k \in 1..(n + m) : k \in 1..n \/ (~(k <= n) /\ k - n \in 1..m)
  BY <1>1
<1>8. ASSUME NEW i \in 1..(n + m), NEW j \in 1..(n + m), new[i].id = new[j].id
      PROVE  i = j
  <2>1. CASE i \in 1..n /\ j \in 1..n
    BY <1>1, <1>6, <1>8, <2>1
  <2>2. CASE ~(i <= n) /\ i - n \in 1..m /\ j \in 1..n
    <3>1. new[i].id = ids[i - n] /\ new[j].id = firmware[j].id
      BY <1>1, <1>4, <1>6, <2>2
    <3> QED BY <1>2, <1>8, <2>2, <3>1
  <2>3. CASE i \in 1..n /\ ~(j <= n) /\ j - n \in 1..m
    <3>1. new[j].id = ids[j - n] /\ new[i].id = firmware[i].id
      BY <1>1, <1>4, <1>6, <2>3
    <3> QED BY <1>2, <1>8, <2>3, <3>1
  <2>4. CASE ~(i <= n) /\ i - n \in 1..m /\ ~(j <= n) /\ j - n \in 1..m
    <3>1. new[i].id = ids[i - n] /\ new[j].id = ids[j - n]
      BY <1>4, <1>6, <2>4
    <3>2. i - n = j - n
      BY <1>2, <1>8, <2>4, <3>1
    <3> QED BY <1>1, <3>2
  <2> QED BY <1>7, <2>1, <2>2, <2>3, <2>4
<1>9. AreRows(new)
  BY <1>1, <1>6, <1>8 DEF AreRows
<1> QED BY <1>9 DEF Added, new, more, m, ids

\* Rows without one of them are rows.
LEMMA RemovedRows ==
    ASSUME NEW entries, AreRows(entries), NEW i \in 1..Len(entries)
    PROVE  AreRows(RemoveAt(entries, i))
<1> DEFINE n == Len(entries)
           new == RemoveAt(entries, i)
           from(k) == IF k < i THEN k ELSE k + 1
<1>1. n \in Nat /\ n <= MaxRows /\ MaxRows \in Nat /\ entries \in Seq(Row)
      /\ \A j, k \in 1..n : entries[j].id = entries[k].id => j = k
  BY RowsAre DEF AreRows
<1>2. /\ new \in Seq(Row) /\ Len(new) = n - 1
      /\ \A k \in 1..(n - 1) : new[k] = entries[from(k)]
  BY <1>1, RemoveAtProps
<1> HIDE DEF n, new
<1>3. \A k \in 1..(n - 1) : from(k) \in 1..n
  BY <1>1
<1>4. \A j, k \in 1..(n - 1) : from(j) = from(k) => j = k
  <2>1. i \in Nat
    BY <1>1 DEF n
  <2> QED BY <1>1, <2>1
<1> HIDE DEF from
<1>5. ASSUME NEW j \in 1..(n - 1), NEW k \in 1..(n - 1), new[j].id = new[k].id
      PROVE  j = k
  <2>1. from(j) \in 1..n /\ from(k) \in 1..n
    BY <1>3
  <2>2. entries[from(j)].id = entries[from(k)].id
    BY <1>2, <1>5
  <2>3. from(j) = from(k)
    BY <1>1, <2>1, <2>2
  <2> QED BY <1>4, <2>3
<1>6. n - 1 <= MaxRows
  BY <1>1
<1> QED BY <1>2, <1>5, <1>6 DEF AreRows, new

\* What the community modules' InsertAt puts where.
LEMMA InsertAtProps ==
    ASSUME NEW T, NEW s \in Seq(T), NEW i \in 1..Len(s), NEW e \in T
    PROVE  /\ InsertAt(s, i + 1, e) \in Seq(T)
           /\ Len(InsertAt(s, i + 1, e)) = Len(s) + 1
           /\ \A k \in 1..(Len(s) + 1) :
                 InsertAt(s, i + 1, e)[k] =
                    IF k <= i THEN s[k] ELSE IF k = i + 1 THEN e ELSE s[k - 1]
<1> DEFINE n == Len(s)
           a == SubSeq(s, 1, i)
           b == SubSeq(s, i + 1, n)
           mid == <<e>>
<1>1. n \in Nat /\ \A k \in 1..n : s[k] \in T
  BY LenProperties, ElementOfSeq
<1>2. i \in Int /\ 1 <= i /\ i <= n /\ (i + 1) - 1 = i
  BY <1>1
<1>3. InsertAt(s, i + 1, e) = (a \o mid) \o b
  <2>1. InsertAt(s, i + 1, e) = SubSeq(s, 1, (i + 1) - 1) \o <<e>> \o SubSeq(s, i + 1, Len(s))
    BY Zenon DEF InsertAt
  <2>2. SubSeq(s, 1, (i + 1) - 1) = a
    BY <1>2
  <2> HIDE DEF a
  <2> QED BY <2>1, <2>2, Zenon
<1> HIDE DEF n
<1>4. /\ a \in Seq(T) /\ Len(a) = i
      /\ \A k \in 1..i : a[k] = s[k]
  <2>1. 1 \in Int /\ i \in Int /\ \A k \in 1..i : s[k] \in T
    BY <1>1, <1>2
  <2>2. /\ a \in Seq(T)
        /\ Len(a) = IF 1 <= i THEN i - 1 + 1 ELSE 0
        /\ \A k \in 1..(i - 1 + 1) : a[k] = s[1 + k - 1]
    BY <2>1, SubSeqProperties
  <2> HIDE DEF a
  <2> QED BY <1>2, <2>2
<1>5. /\ b \in Seq(T) /\ Len(b) = n - i
      /\ \A k \in 1..(n - i) : b[k] = s[i + k]
  <2>1. i + 1 \in Int /\ n \in Int /\ \A k \in (i + 1)..n : s[k] \in T
    BY <1>1, <1>2
  <2>2. /\ b \in Seq(T)
        /\ Len(b) = IF i + 1 <= n THEN n - (i + 1) + 1 ELSE 0
        /\ \A k \in 1..(n - (i + 1) + 1) : b[k] = s[i + 1 + k - 1]
    BY <2>1, SubSeqProperties
  <2> HIDE DEF b
  <2> QED BY <1>1, <1>2, <2>2
<1>6. mid \in Seq(T) /\ Len(mid) = 1 /\ mid[1] = e
  OBVIOUS
<1> HIDE DEF a, b, mid
<1> DEFINE c == a \o mid
<1>7. /\ c \in Seq(T) /\ Len(c) = i + 1
      /\ \A k \in 1..(i + 1) : c[k] = IF k <= i THEN a[k] ELSE mid[k - i]
  <2>1. /\ c \in Seq(T) /\ Len(c) = Len(a) + Len(mid)
        /\ \A k \in 1..(Len(a) + Len(mid)) : c[k] = IF k <= Len(a) THEN a[k] ELSE mid[k - Len(a)]
    BY <1>4, <1>6, ConcatProperties
  <2> HIDE DEF c
  <2> QED BY <1>4, <1>6, <2>1
<1> HIDE DEF c
<1>8. /\ c \o b \in Seq(T) /\ Len(c \o b) = n + 1
      /\ \A k \in 1..(n + 1) : (c \o b)[k] = IF k <= i + 1 THEN c[k] ELSE b[k - (i + 1)]
  <2>1. /\ c \o b \in Seq(T) /\ Len(c \o b) = Len(c) + Len(b)
        /\ \A k \in 1..(Len(c) + Len(b)) : (c \o b)[k] = IF k <= Len(c) THEN c[k] ELSE b[k - Len(c)]
    BY <1>5, <1>7, ConcatProperties
  <2>2. Len(c) + Len(b) = n + 1 /\ Len(c) = i + 1
    BY <1>1, <1>2, <1>5, <1>7
  <2> QED BY <2>1, <2>2
<1>9. ASSUME NEW k \in 1..(n + 1)
      PROVE  (c \o b)[k] = IF k <= i THEN s[k] ELSE IF k = i + 1 THEN e ELSE s[k - 1]
  <2>1. CASE k <= i
    BY <1>1, <1>2, <1>4, <1>7, <1>8, <2>1
  <2>2. CASE k = i + 1
    <3>1. k <= i + 1 /\ k \in 1..(i + 1) /\ ~(k <= i) /\ k - i = 1
      BY <1>2, <2>2
    <3>2. c[k] = mid[k - i]
      BY <1>7, <3>1
    <3>3. (c \o b)[k] = c[k]
      BY <1>8, <3>1
    <3> QED BY <1>6, <2>2, <3>1, <3>2, <3>3
  <2>3. CASE ~(k <= i + 1)
    <3>1. k - (i + 1) \in 1..(n - i) /\ i + (k - (i + 1)) = k - 1 /\ ~(k <= i) /\ k # i + 1
      BY <1>1, <1>2, <2>3
    <3>2. (c \o b)[k] = b[k - (i + 1)]
      BY <1>8, <2>3
    <3>3. b[k - (i + 1)] = s[i + (k - (i + 1))]
      BY <1>5, <3>1
    <3> QED BY <3>1, <3>2, <3>3
  <2>4. k <= i \/ k = i + 1 \/ ~(k <= i + 1)
    BY <1>1, <1>2
  <2> QED BY <2>1, <2>2, <2>3, <2>4
<1>10. InsertAt(s, i + 1, e) = c \o b
  BY <1>3 DEF c
<1>11. Len(s) = n
  BY DEF n
<1>12. InsertAt(s, i + 1, e) \in Seq(T) /\ Len(InsertAt(s, i + 1, e)) = Len(s) + 1
  BY <1>8, <1>10, <1>11
<1>13. \A k \in 1..(Len(s) + 1) :
          InsertAt(s, i + 1, e)[k] = IF k <= i THEN s[k] ELSE IF k = i + 1 THEN e ELSE s[k - 1]
  <2> SUFFICES ASSUME NEW k \in 1..(n + 1)
               PROVE  (c \o b)[k] = IF k <= i THEN s[k] ELSE IF k = i + 1 THEN e ELSE s[k - 1]
    BY <1>10, <1>11
  <2> QED BY <1>9
<1> QED BY <1>12, <1>13

\* The id of one more row is none of theirs.
LEMMA NewIdIs ==
    ASSUME NEW entries, AreRows(entries), Len(entries) + 1 <= MaxRows
    PROVE  /\ NewIds(entries, 1)[1] \in 1..MaxRows
           /\ \A j \in 1..Len(entries) : NewIds(entries, 1)[1] # entries[j].id
<1>1. /\ NewIds(entries, 1) \in [1..1 -> 1..MaxRows]
      /\ \A i \in 1..1 : \A j \in 1..Len(entries) : NewIds(entries, 1)[i] # entries[j].id
  BY NewIdsExist DEF AreRows
<1> QED BY <1>1

-----------------------------------------------------------------------------
(* The steps of the Firmware panel and of its dialog. *)

\* What the merge's parts may be.
MergeTyped ==
    /\ builds \in 0..MaxBuilds /\ edits \in 0..MaxEdits
    /\ dialog \in {"closed", "open", "accepted", "rejected"}
    /\ asking \in BOOLEAN /\ waiting \in BOOLEAN /\ hasWorker \in BOOLEAN
    /\ merged \in Seq(Row)
    /\ DOMAIN sources \subseteq 1..MaxRows /\ \A i \in DOMAIN sources : sources[i] \in Row
    /\ worker \in {"none", "checking", "starting", "reading", "waiting", "ended"}
    /\ cancel \in BOOLEAN
    /\ report \in {"none", "success", "failure"}
    /\ tool \in {"none", "running", "writing", "silent", "exited"}
    /\ code \in {0, 1}
    /\ image \in Seq(Nat)

\* While the dialog is there, there is room for the row it may add.
RowsInv ==
    /\ disk \in Files
    /\ AreRows(firmware)
    /\ dialog # "closed" => Len(firmware) + 1 <= MaxRows
    /\ MergeTyped

Underway == {"checking", "starting", "reading", "waiting"}

\* The entry of a merge: the whole output at 0x0.
IsMergedEntry(entry) == entry.path = Output /\ entry.address = Zero /\ entry.enabled

\* The dialog, its worker and what the worker has reported go together: a
\* result that waits to be delivered, or has been accepted, is of the only
\* worker there is, and that one has ended.
DialogInv ==
    /\ dialog = "accepted" => merged # <<>> /\ ~hasWorker
    /\ asking => dialog \in {"open", "accepted"}
    /\ waiting => dialog = "open" /\ ~asking
    /\ dialog = "open" /\ ~hasWorker => worker \notin Underway /\ report = "none"
    /\ worker \in Underway => report = "none"
    /\ merged # <<>> => /\ dialog \in {"accepted", "rejected"}
                        /\ worker \notin Underway /\ report = "none"
                        /\ merged[1] \in Row /\ IsMergedEntry(merged[1])

\* The worker starts its tool once.  An exit code 0 comes after the image has
\* been written, and a success only with it.
ToolInv ==
    /\ worker \in {"checking", "starting"} => tool = "none"
    /\ tool = "silent" => code = 0
    /\ code = 0 => /\ tool \in {"silent", "exited"}
                   /\ worker \notin {"checking", "starting"}
                   /\ builds = 0 => disk[Output] = image
    /\ report = "success" \/ merged # <<>> => tool = "exited" /\ code = 0

\* The rows do not change while one of their merges can still be added.
SourcesInv ==
    dialog # "closed" /\ (worker \in Underway \/ report # "none" \/ merged # <<>>) =>
        /\ DOMAIN sources \subseteq DOMAIN firmware
        /\ \A i \in DOMAIN sources : sources[i] = firmware[i]

FirmwareInv == RowsInv /\ DialogInv /\ ToolInv /\ SourcesInv

\* The type invariant is part of it.
LEMMA RowsInvTypes == RowsInv => FirmwareTypeOK
<1> SUFFICES ASSUME RowsInv
             PROVE  FirmwareTypeOK
  OBVIOUS
<1>1. \A p \in Paths : disk[p] # Absent => disk[p] \in Seq(Nat)
  BY SizeOf DEF RowsInv
<1>2. firmware \in Seq(Row)
      /\ \A i, j \in 1..Len(firmware) : firmware[i].id = firmware[j].id => i = j
  BY DEF RowsInv, AreRows
<1> QED BY <1>1, <1>2 DEF RowsInv, MergeTyped, FirmwareTypeOK

\* The entry a merge adds is a row.
LEMMA MergedEntryTyped ==
    ASSUME disk \in Files
    PROVE  MergedEntry \in Row /\ IsMergedEntry(MergedEntry)
<1>1. 0 \in 0..MaxRows /\ Output \in Paths /\ Zero \in Texts
  BY PanelAssumption, RowsAssumption
<1> QED BY <1>1, NewRowTyped DEF MergedEntry, IsMergedEntry

\* It holds of a project that has just been opened.
LEMMA FirmwareInvInit == FirmwareInit => FirmwareInv
<1> SUFFICES ASSUME FirmwareInit
             PROVE  FirmwareInv
  OBVIOUS
<1>1. disk \in Files
  BY PanelAssumption DEF FirmwareInit, Files
<1>2. AreRows(firmware)
  <2>1. PICK loaded \in Loaded :
           firmware = [i \in 1..Len(loaded) |-> NewRow(i, loaded[i][1], loaded[i][2], disk)]
    BY DEF FirmwareInit
  <2> DEFINE n == Len(loaded)
  <2>2. loaded \in Seq(Paths \X Texts) /\ n <= MaxRows /\ n \in Nat /\ MaxRows \in Nat
    BY PanelAssumption, LenProperties
  <2>3. \A i \in 1..n : loaded[i] \in Paths \X Texts
    BY <2>2, ElementOfSeq
  <2>4. \A i \in 1..n : loaded[i][1] \in Paths /\ loaded[i][2] \in Texts /\ i \in 0..MaxRows
    BY <2>2, <2>3
  <2> HIDE DEF n
  <2>5. \A i \in 1..n : firmware[i] = NewRow(i, loaded[i][1], loaded[i][2], disk)
    BY <2>1 DEF n
  <2>6. \A i \in 1..n : firmware[i] \in Row /\ firmware[i].id = i
    BY <1>1, <2>4, <2>5, NewRowTyped
  <2>7. firmware = [i \in 1..n |-> firmware[i]]
    BY <2>1 DEF n
  <2> QED BY <2>2, <2>6, <2>7, RowsBy
<1>3. MergeTyped
  <2>1. /\ <<>> \in Seq(Row) /\ <<>> \in Seq(Nat) /\ DOMAIN <<>> = {}
    OBVIOUS
  <2>2. 0 \in 0..MaxBuilds /\ 0 \in 0..MaxEdits
    BY PanelAssumption
  <2>3. DOMAIN sources \subseteq 1..MaxRows /\ \A i \in DOMAIN sources : sources[i] \in Row
    BY <2>1 DEF FirmwareInit
  <2> QED BY <2>1, <2>2, <2>3 DEF FirmwareInit, MergeTyped
<1> QED BY <1>1, <1>2, <1>3 DEF FirmwareInit, FirmwareInv, RowsInv, DialogInv, ToolInv, SourcesInv, Underway

\* A row after one of its fields has been changed.
LEMMA RowChanged ==
    ASSUME NEW row \in Row
    PROVE  /\ \A id \in 0..MaxRows :
                 /\ [row EXCEPT !.id = id] \in Row /\ [row EXCEPT !.id = id].id = id
                 /\ [row EXCEPT !.id = id].path = row.path
                 /\ [row EXCEPT !.id = id].address = row.address
                 /\ [row EXCEPT !.id = id].enabled = row.enabled
           /\ \A on \in BOOLEAN :
                 /\ [row EXCEPT !.enabled = on] \in Row /\ [row EXCEPT !.enabled = on].id = row.id
                 /\ [row EXCEPT !.enabled = on].path = row.path
                 /\ [row EXCEPT !.enabled = on].address = row.address
                 /\ [row EXCEPT !.enabled = on].enabled = on
           /\ \A text \in Texts :
                 /\ [row EXCEPT !.address = text] \in Row
                 /\ [row EXCEPT !.address = text].id = row.id
BY DEF Row

\* A change of rows in place that leaves their ids where they are.
LEMMA SameIds ==
    ASSUME AreRows(firmware), NEW new, DOMAIN new = DOMAIN firmware, new = [k \in DOMAIN new |-> new[k]],
           \A k \in DOMAIN new : new[k] \in Row /\ new[k].id = firmware[k].id
    PROVE  AreRows(new)
<1>1. /\ Len(firmware) \in Nat /\ DOMAIN firmware = 1..Len(firmware)
      /\ Len(firmware) <= MaxRows
      /\ \A i, j \in 1..Len(firmware) : firmware[i].id = firmware[j].id => i = j
  BY RowsAre DEF AreRows
<1> QED BY <1>1, RowsBy

\* Every operation of the panel leaves rows, no two under one id.
LEMMA PanelStepRows ==
    ASSUME RowsInv, PanelStep
    PROVE  AreRows(firmware')
<1> DEFINE n == Len(firmware)
<1>1. /\ n \in Nat /\ n <= MaxRows /\ MaxRows \in Nat /\ DOMAIN firmware = 1..n
      /\ firmware \in Seq(Row) /\ firmware = [k \in 1..n |-> firmware[k]]
      /\ \A k \in 1..n : firmware[k] \in Row
      /\ \A i, j \in 1..n : firmware[i].id = firmware[j].id => i = j
      /\ AreRows(firmware) /\ disk \in Files
  <2>1. AreRows(firmware) /\ disk \in Files /\ firmware \in Seq(Row)
    BY DEF RowsInv, AreRows
  <2>2. firmware = [k \in 1..Len(firmware) |-> firmware[k]]
    BY <2>1, LenProperties
  <2> QED BY <2>1, <2>2, RowsAre DEF AreRows
<1>2. ASSUME NEW path \in Paths, AddBin(path)
      PROVE  AreRows(firmware')
  <2>1. <<path>> \in Seq(Paths) /\ Len(<<path>>) = 1
        /\ [p \in Paths |-> AddAddress] \in [Paths -> Texts]
    BY PanelAssumption
  <2> QED BY <1>1, <1>2, <2>1, AddedRows DEF AddBin, Edit
<1>3. CASE ImportFolder
  <2>1. PICK scan \in Scans : Room(Len(scan)) /\ Edit(Added(firmware, scan, KnownAddress))
    BY <1>3 DEF ImportFolder
  <2> DEFINE S == {p \in Paths : disk[p] # Absent}
  <2>2. IsFiniteSet(S) /\ Cardinality(S) \in Nat
    <3>1. S \in SUBSET Paths
      OBVIOUS
    <3> QED BY <3>1, PanelAssumption, FS_Subset, FS_CardinalityType
  <2>3. scan \in [1..Cardinality(S) -> S]
    BY <2>1 DEF Scans, SetToSeqs
  <2>4. scan \in Seq(Paths)
    <3> HIDE DEF S
    <3>1. scan \in Seq(S)
      BY <2>2, <2>3, SeqDef
    <3>2. S \subseteq Paths
      BY DEF S
    <3> QED BY <2>2, <2>3, <3>2, SeqDef
  <2>5. KnownAddress \in [Paths -> Texts]
    BY PanelAssumption
  <2> HIDE DEF S
  <2> QED BY <1>1, <2>1, <2>4, <2>5, AddedRows DEF Edit
<1>4. ASSUME NEW i \in 1..n, RemoveRow(i)
      PROVE  AreRows(firmware')
  BY <1>1, <1>4, RemovedRows DEF RemoveRow, Edit
<1>5. ASSUME NEW i \in 1..n, Duplicate(i)
      PROVE  AreRows(firmware')
  <2> DEFINE id1 == NewIds(firmware, 1)[1]
             copy == [firmware[i] EXCEPT !.id = id1]
             new == InsertAt(firmware, i + 1, copy)
  <2>1. n + 1 <= MaxRows /\ firmware' = new
    BY <1>5 DEF Duplicate, Room, Edit
  <2>2. id1 \in 1..MaxRows /\ \A j \in 1..n : id1 # firmware[j].id
    BY <1>1, <2>1, NewIdIs
  <2>3. copy \in Row /\ copy.id = id1
    <3>1. id1 \in 0..MaxRows /\ firmware[i] \in Row
      BY <1>1, <2>2
    <3> HIDE DEF id1
    <3> QED BY <3>1, RowChanged
  <2> HIDE DEF copy, id1
  <2>4. /\ new \in Seq(Row) /\ Len(new) = n + 1
        /\ \A k \in 1..(n + 1) :
              new[k] = IF k <= i THEN firmware[k] ELSE IF k = i + 1 THEN copy ELSE firmware[k - 1]
    <3>1. firmware \in Seq(Row) /\ i \in 1..Len(firmware) /\ copy \in Row
      BY <1>1, <2>3
    <3>2. /\ new \in Seq(Row) /\ Len(new) = Len(firmware) + 1
          /\ \A k \in 1..(Len(firmware) + 1) :
                new[k] = IF k <= i THEN firmware[k]
                         ELSE IF k = i + 1 THEN copy ELSE firmware[k - 1]
      BY <3>1, InsertAtProps
    <3> HIDE DEF new
    <3> QED BY <3>2
  <2> HIDE DEF new, n
  <2>5. ASSUME NEW j \in 1..(n + 1), NEW k \in 1..(n + 1), j < k, new[j].id = new[k].id
        PROVE  FALSE
    <3>0. i \in Int /\ 1 <= i /\ i <= n /\ n \in Nat /\ j \in Int /\ k \in Int
      BY <1>1
    <3>1. CASE j = i + 1
      <4>1. k - 1 \in 1..n /\ ~(k <= i) /\ k # i + 1 /\ ~(j <= i)
        BY <2>5, <3>0, <3>1
      <4>2. new[j] = copy /\ new[k] = firmware[k - 1]
        BY <2>4, <3>1, <4>1
      <4> QED BY <2>2, <2>3, <2>5, <4>1, <4>2
    <3>2. CASE k = i + 1
      <4>1. j \in 1..n /\ ~(k <= i) /\ j <= i
        BY <2>5, <3>0, <3>2
      <4>2. new[k] = copy /\ new[j] = firmware[j]
        BY <2>4, <3>2, <4>1
      <4> QED BY <2>2, <2>3, <2>5, <4>1, <4>2
    <3>3. CASE j # i + 1 /\ k # i + 1
      <4> DEFINE a == IF j <= i THEN j ELSE j - 1
                 b == IF k <= i THEN k ELSE k - 1
      <4>1. a \in 1..n /\ b \in 1..n /\ a # b
        BY <2>5, <3>0, <3>3
      <4>2. new[j] = firmware[a] /\ new[k] = firmware[b]
        BY <2>4, <3>3
      <4> HIDE DEF a, b
      <4> QED BY <1>1, <2>5, <4>1, <4>2
    <3> QED BY <3>1, <3>2, <3>3
  <2>6. \A j, k \in 1..(n + 1) : j < k \/ k < j \/ j = k
    BY <1>1
  <2>7. \A j, k \in 1..(n + 1) : new[j].id = new[k].id => j = k
    BY <2>5, <2>6
  <2> QED BY <2>1, <2>4, <2>7 DEF AreRows
<1>6. ASSUME NEW i \in 1..n, MoveDown(i)
      PROVE  AreRows(firmware')
  <2> DEFINE new == [firmware EXCEPT ![i] = firmware[i + 1], ![i + 1] = firmware[i]]
             from(k) == IF k = i THEN i + 1 ELSE IF k = i + 1 THEN i ELSE k
  <2>1. firmware' = new /\ i < n
    BY <1>6 DEF MoveDown, Edit
  <2>2. i + 1 \in 1..n /\ i \in Int
    BY <1>1, <2>1
  <2> HIDE DEF n
  <2>3. DOMAIN new = 1..n /\ new = [k \in 1..n |-> new[k]]
    BY <1>1
  <2>4. \A k \in 1..n : new[k] = firmware[from(k)]
    BY <1>1, <2>2
  <2>5. \A k \in 1..n : from(k) \in 1..n
    BY <2>2
  <2>6. \A j, k \in 1..n : from(j) = from(k) => j = k
    BY <2>2
  <2> HIDE DEF new, from
  <2>7. \A k \in 1..n : new[k] \in Row
    BY <1>1, <2>4, <2>5
  <2>8. ASSUME NEW j \in 1..n, NEW k \in 1..n, new[j].id = new[k].id
        PROVE  j = k
    <3>1. firmware[from(j)].id = firmware[from(k)].id
      BY <2>4, <2>8
    <3> QED BY <1>1, <2>5, <2>6, <3>1
  <2> QED BY <1>1, <2>1, <2>3, <2>7, <2>8, RowsBy
<1>7. ASSUME NEW i \in 1..n, SetEnabled(i)
      PROVE  AreRows(firmware')
  <2> DEFINE new == [firmware EXCEPT ![i].enabled = ~@]
  <2>1. firmware' = new
    BY <1>7 DEF SetEnabled, Edit
  <2>2. \A k \in 1..n : new[k] = IF k = i THEN [firmware[k] EXCEPT !.enabled = ~firmware[k].enabled]
                                       ELSE firmware[k]
    BY <1>1
  <2>3. DOMAIN new = DOMAIN firmware /\ new = [k \in DOMAIN new |-> new[k]]
    BY <1>1
  <2> HIDE DEF new, n
  <2>4. ASSUME NEW k \in 1..n
        PROVE  new[k] \in Row /\ new[k].id = firmware[k].id
    <3>1. PICK row \in Row : row = firmware[k]
      BY <1>1
    <3>2. CASE k = i
      <4>1. PICK on \in BOOLEAN : on = ~row.enabled
        BY RowFields
      <4>2. new[k] = [row EXCEPT !.enabled = on]
        BY <2>2, <3>1, <3>2, <4>1
      <4> QED BY <3>1, <4>2, RowChanged
    <3>3. CASE k # i
      BY <2>2, <3>1, <3>3
    <3> QED BY <3>2, <3>3
  <2> QED BY <1>1, <2>1, <2>3, <2>4, SameIds
<1>8. ASSUME NEW i \in 1..n, NEW text \in Texts, SetAddress(i, text)
      PROVE  AreRows(firmware')
  <2> DEFINE new == [firmware EXCEPT ![i].address = text]
  <2>1. firmware' = new
    BY <1>8 DEF SetAddress, Edit
  <2>2. \A k \in 1..n : new[k] = IF k = i THEN [firmware[k] EXCEPT !.address = text] ELSE firmware[k]
    BY <1>1
  <2>3. DOMAIN new = DOMAIN firmware /\ new = [k \in DOMAIN new |-> new[k]]
    BY <1>1
  <2> HIDE DEF new, n
  <2>4. ASSUME NEW k \in 1..n
        PROVE  new[k] \in Row /\ new[k].id = firmware[k].id
    <3>1. PICK row \in Row : row = firmware[k]
      BY <1>1
    <3>2. CASE k = i
      <4>1. new[k] = [row EXCEPT !.address = text]
        BY <2>2, <3>1, <3>2
      <4> QED BY <3>1, <4>1, RowChanged
    <3>3. CASE k # i
      BY <2>2, <3>1, <3>3
    <3> QED BY <3>2, <3>3
  <2> QED BY <1>1, <2>1, <2>3, <2>4, SameIds
<1>9. CASE Reload
  <2> DEFINE new == [k \in 1..n |-> Refresh(firmware[k], disk)]
  <2>1. firmware' = new
    BY <1>9 DEF Reload, Edit
  <2>2. \A k \in 1..n : new[k] \in Row /\ new[k].id = firmware[k].id
    BY <1>1, RefreshTyped
  <2>3. DOMAIN new = DOMAIN firmware /\ new = [k \in DOMAIN new |-> new[k]]
    BY <1>1
  <2> HIDE DEF new, n
  <2> QED BY <1>1, <2>1, <2>2, <2>3, SameIds
<1> QED BY <1>2, <1>3, <1>4, <1>5, <1>6, <1>7, <1>8, <1>9 DEF PanelStep

\* The rows with the merged entry at their end, under an id of its own.
WithEntry(entry) == Append(firmware, [entry EXCEPT !.id = NewIds(firmware, 1)[1]])

\* They are rows, the old ones at their places.
LEMMA WithEntryIs ==
    ASSUME AreRows(firmware), Len(firmware) + 1 <= MaxRows, NEW entry \in Row
    PROVE  /\ AreRows(WithEntry(entry)) /\ Len(WithEntry(entry)) = Len(firmware) + 1
           /\ \A k \in 1..Len(firmware) : WithEntry(entry)[k] = firmware[k]
           /\ WithEntry(entry)[Len(firmware) + 1].path = entry.path
           /\ WithEntry(entry)[Len(firmware) + 1].address = entry.address
           /\ WithEntry(entry)[Len(firmware) + 1].enabled = entry.enabled
           /\ \A k \in 1..Len(firmware) : WithEntry(entry)[Len(firmware) + 1].id # firmware[k].id
<1> DEFINE id1 == NewIds(firmware, 1)[1]
           added == [entry EXCEPT !.id = id1]
           n == Len(firmware)
           new == WithEntry(entry)
<1>1. /\ n \in Nat /\ n + 1 <= MaxRows /\ MaxRows \in Nat /\ firmware \in Seq(Row)
      /\ \A k \in 1..n : firmware[k] \in Row
      /\ \A i, j \in 1..n : firmware[i].id = firmware[j].id => i = j
  BY RowsAre DEF AreRows
<1>2. id1 \in 1..MaxRows /\ \A j \in 1..n : id1 # firmware[j].id
  BY NewIdIs
<1>3. id1 \in 0..MaxRows
  BY <1>1, <1>2
<1> HIDE DEF id1
<1>4. /\ added \in Row /\ added.id = id1 /\ added.path = entry.path
      /\ added.address = entry.address /\ added.enabled = entry.enabled
  BY <1>3, RowChanged
<1> HIDE DEF added
<1>5. new = Append(firmware, added)
  BY DEF WithEntry, added, id1
<1>6. /\ new \in Seq(Row) /\ Len(new) = n + 1
      /\ \A k \in 1..n : new[k] = firmware[k]
      /\ new[n + 1] = added
  BY <1>1, <1>4, <1>5, AppendProperties
<1> HIDE DEF new, n
<1>7. \A k \in 1..(n + 1) : k \in 1..n \/ k = n + 1
  BY <1>1
<1>8. ASSUME NEW i \in 1..(n + 1), NEW j \in 1..(n + 1), new[i].id = new[j].id
      PROVE  i = j
  <2>1. CASE i \in 1..n /\ j \in 1..n
    BY <1>1, <1>6, <1>8, <2>1
  <2>2. CASE i = n + 1 /\ j \in 1..n
    BY <1>2, <1>4, <1>6, <1>8, <2>2
  <2>3. CASE i \in 1..n /\ j = n + 1
    BY <1>2, <1>4, <1>6, <1>8, <2>3
  <2> QED BY <1>7, <2>1, <2>2, <2>3
<1>9. AreRows(new)
  BY <1>1, <1>6, <1>8 DEF AreRows
<1> QED BY <1>2, <1>4, <1>6, <1>9 DEF new, n

\* Rows that are taken out of rows.
LEMMA KeptRows ==
    ASSUME NEW entries, AreRows(entries), NEW P, P \subseteq DOMAIN entries
    PROVE  AreRows(Keep(entries, P)) /\ P \in Places
<1> DEFINE n == Len(entries)
           new == Keep(entries, P)
<1>1. /\ n \in Nat /\ DOMAIN entries = 1..n /\ n <= MaxRows /\ MaxRows \in Nat
      /\ \A k \in 1..n : entries[k] \in Row
      /\ \A i, j \in 1..n : entries[i].id = entries[j].id => i = j
  BY RowsAre DEF AreRows
<1>2. P \in Places /\ Cardinality(P) \in Nat /\ Cardinality(P) <= n
  BY <1>1, PlacesOf
<1>3. \A i \in P : entries[i] \in Row
  BY <1>1
<1>4. new \in Seq(Row) /\ Len(new) = Cardinality(P)
  BY <1>2, <1>3, KeepType
<1>5. \A k \in 1..Cardinality(P) : \E i \in P : Upto(P, i) = k /\ new[k] = entries[i]
  BY <1>2, KeepPlaces
<1> HIDE DEF new, n
<1>6. ASSUME NEW k \in 1..Len(new), NEW l \in 1..Len(new), new[k].id = new[l].id
      PROVE  k = l
  <2>1. PICK i \in P : Upto(P, i) = k /\ new[k] = entries[i]
    BY <1>4, <1>5
  <2>2. PICK j \in P : Upto(P, j) = l /\ new[l] = entries[j]
    BY <1>4, <1>5
  <2>3. i = j
    BY <1>1, <1>6, <2>1, <2>2
  <2> QED BY <2>1, <2>2, <2>3
<1>7. Len(new) <= MaxRows
  BY <1>1, <1>2, <1>4
<1> QED BY <1>2, <1>4, <1>6, <1>7 DEF AreRows, new

\* What the dialog's last question leaves of the rows, in the same order as in
\* AfterMerge.
Deselected(entries) ==
    [i \in 1..Len(entries) |-> [entries[i] EXCEPT !.enabled = @ /\ entries[i].id \notin SourceIds]]

\* What the user may choose to be done with the sources.
LEMMA MergeChoices ==
    ASSUME NEW entry, AfterMerge(entry)
    PROVE  \/ firmware' = firmware
           \/ firmware' = WithEntry(entry)
           \/ firmware' = WithoutSources(WithEntry(entry))
           \/ firmware' = Deselected(WithEntry(entry))
BY DEF AfterMerge, WithEntry, Deselected

\* Rows of which the sources are deselected.
LEMMA DeselectedIs ==
    ASSUME NEW entries, AreRows(entries)
    PROVE  /\ AreRows(Deselected(entries)) /\ Len(Deselected(entries)) = Len(entries)
           /\ \A i \in 1..Len(entries) :
                 /\ Deselected(entries)[i].path = entries[i].path
                 /\ Deselected(entries)[i].address = entries[i].address
                 /\ entries[i].id \notin SourceIds =>
                       Deselected(entries)[i].enabled = entries[i].enabled
<1> DEFINE n == Len(entries)
           new == Deselected(entries)
<1>1. /\ n \in Nat /\ n <= MaxRows
      /\ \A k \in 1..n : entries[k] \in Row
      /\ \A i, j \in 1..n : entries[i].id = entries[j].id => i = j
  BY RowsAre DEF AreRows
<1>2. new = [i \in 1..n |-> new[i]]
      /\ \A i \in 1..n : new[i] = [entries[i] EXCEPT !.enabled = @ /\ entries[i].id \notin SourceIds]
  BY DEF Deselected
<1> HIDE DEF new, n
<1>3. ASSUME NEW i \in 1..n
      PROVE  /\ new[i] \in Row /\ new[i].id = entries[i].id
             /\ new[i].path = entries[i].path /\ new[i].address = entries[i].address
             /\ entries[i].id \notin SourceIds => new[i].enabled = entries[i].enabled
  <2>1. PICK row \in Row : row = entries[i]
    BY <1>1
  <2>2. PICK on \in BOOLEAN : on = (row.enabled /\ row.id \notin SourceIds)
    OBVIOUS
  <2>3. new[i] = [row EXCEPT !.enabled = on]
    BY <1>2, <2>1, <2>2
  <2>4. row.id \notin SourceIds => on = row.enabled
    BY <2>2, RowFields
  <2> QED BY <2>1, <2>3, <2>4, RowChanged
<1>4. AreRows(new) /\ Len(new) = n
  BY <1>1, <1>2, <1>3, RowsBy
<1> QED BY <1>3, <1>4 DEF new, n

\* Whatever is chosen, there are rows afterwards.
LEMMA AfterMergeRows ==
    ASSUME AreRows(firmware), Len(firmware) + 1 <= MaxRows, NEW entry \in Row, AfterMerge(entry)
    PROVE  AreRows(firmware')
<1> DEFINE new == WithEntry(entry)
           P == {i \in DOMAIN new : new[i].id \notin SourceIds}
<1>1. AreRows(new)
  BY WithEntryIs
<1>2. AreRows(Keep(new, P))
  <2>1. P \subseteq DOMAIN new
    OBVIOUS
  <2> HIDE DEF P, new
  <2> QED BY <1>1, <2>1, KeptRows
<1>3. WithoutSources(new) = Keep(new, P)
  BY DEF WithoutSources
<1>4. AreRows(Deselected(new))
  BY <1>1, DeselectedIs
<1> QED BY <1>1, <1>2, <1>3, <1>4, MergeChoices

\* A byte is written when an enabled row has it.
LEMMA EnabledBytes ==
    ASSUME NEW entries, NEW files, NEW w
    PROVE  w \in Written(Enabled(entries), files)
              <=> \E i \in DOMAIN entries : entries[i].enabled /\ \E k : IsByte(w, entries[i], files, k)
<1> DEFINE on == {i \in DOMAIN entries : entries[i].enabled}
<1>1. DOMAIN Enabled(entries) = on /\ \A i \in on : Enabled(entries)[i] = entries[i]
  BY DEF Enabled, Restrict
<1>2. w \in Written(Enabled(entries), files)
         <=> \E i \in on : \E k : IsByte(w, Enabled(entries)[i], files, k)
  <2> HIDE DEF on
  <2> QED BY <1>1, WrittenBytes
<1> QED BY <1>1, <1>2

\* The merged entry has every byte of the sources, so the rows still have what
\* they had before, whatever is done with the sources.
LEMMA BytesAreKept ==
    ASSUME AreRows(firmware), Len(firmware) + 1 <= MaxRows, disk \in Files,
           DOMAIN sources \subseteq DOMAIN firmware, \A i \in DOMAIN sources : sources[i] = firmware[i],
           Sound(sources, disk), disk[Output] = Merged(sources, disk),
           NEW entry \in Row, IsMergedEntry(entry), AfterMerge(entry)
    PROVE  Written(Enabled(firmware), disk) \subseteq Written(Enabled(firmware'), disk)
<1> DEFINE n == Len(firmware)
           new == WithEntry(entry)
<1>1. /\ n \in Nat /\ n <= MaxRows /\ MaxRows \in Nat /\ DOMAIN firmware = 1..n
      /\ \A k \in 1..n : firmware[k] \in Row
      /\ \A i, j \in 1..n : firmware[i].id = firmware[j].id => i = j
  BY RowsAre DEF AreRows
<1>2. /\ AreRows(new) /\ Len(new) = n + 1 /\ DOMAIN new = 1..(n + 1)
      /\ \A k \in 1..n : new[k] = firmware[k]
      /\ new[n + 1].path = Output /\ new[n + 1].address = Zero /\ new[n + 1].enabled
      /\ \A k \in 1..n : new[n + 1].id # firmware[k].id
  BY WithEntryIs, RowsAre DEF IsMergedEntry
<1>3. SourceIds = {firmware[i].id : i \in DOMAIN sources}
  BY DEF SourceIds
<1> HIDE DEF new
<1>4. new[n + 1].id \notin SourceIds
  BY <1>1, <1>2, <1>3
<1> SUFFICES ASSUME NEW w \in Written(Enabled(firmware), disk)
             PROVE  w \in Written(Enabled(firmware'), disk)
  OBVIOUS
<1>5. PICK i \in 1..n : firmware[i].enabled /\ \E k : IsByte(w, firmware[i], disk, k)
  BY <1>1, EnabledBytes
<1>6. PICK k : IsByte(w, firmware[i], disk, k)
  BY <1>5

\* A byte of a source is one of the output, too.
<1>7. ASSUME firmware[i].id \in SourceIds
      PROVE  \E l : IsByte(w, new[n + 1], disk, l)
  <2>1. i \in DOMAIN sources /\ sources[i] = firmware[i]
    BY <1>1, <1>3, <1>7
  <2>2. w \in Written(sources, disk)
    BY <1>6, <2>1, WrittenBytes
  <2>3. /\ DOMAIN sources \subseteq 1..MaxRows
        /\ \A j \in DOMAIN sources : sources[j] \in Row /\ Value[sources[j].address] # -1
    BY <1>1 DEF Sound
  <2>4. /\ Merged(sources, disk) \in Seq(Nat)
        /\ w = <<w[1], w[2]>> /\ w[1] \in Nat
        /\ w[1] + 1 \in 1..Len(Merged(sources, disk))
        /\ Merged(sources, disk)[w[1] + 1] = w[2]
    BY <2>2, <2>3, MergedHasBytes
  <2>5. disk[Output] # Absent
    BY <2>4, RowsAssumption
  <2>6. Value[Zero] + (w[1] + 1) - 1 = w[1]
    BY <2>4, RowsAssumption
  <2>7. IsByte(w, new[n + 1], disk, w[1] + 1)
    <3>1. w = <<Value[Zero] + (w[1] + 1) - 1, disk[Output][w[1] + 1]>>
      BY <2>4, <2>6
    <3> QED BY <1>2, <2>4, <2>5, <3>1 DEF IsByte
  <2> QED BY <2>7
<1>8. CASE firmware' = firmware
  BY <1>8
<1>9. CASE firmware' = new
  <2>1. i \in DOMAIN new /\ new[i] = firmware[i]
    BY <1>1, <1>2
  <2> QED BY <1>5, <1>9, <2>1, EnabledBytes
<1>10. PICK p \in 1..(n + 1) : /\ new[p].enabled /\ new[p].id \notin SourceIds
                               /\ \E l : IsByte(w, new[p], disk, l)
  <2>1. CASE firmware[i].id \in SourceIds
    <3>1. n + 1 \in 1..(n + 1)
      BY <1>1
    <3> QED BY <1>2, <1>4, <1>7, <2>1, <3>1
  <2>2. CASE firmware[i].id \notin SourceIds
    <3>1. i \in 1..(n + 1) /\ new[i] = firmware[i]
      BY <1>1, <1>2
    <3> QED BY <1>5, <2>2, <3>1
  <2> QED BY <2>1, <2>2
<1>11. CASE firmware' = WithoutSources(new)
  <2> DEFINE P == {j \in DOMAIN new : new[j].id \notin SourceIds}
  <2>1. firmware' = Keep(new, P)
    BY <1>11 DEF WithoutSources
  <2>2. p \in P /\ P \subseteq DOMAIN new
    BY <1>2, <1>10
  <2> HIDE DEF P
  <2>3. P \in Places
    BY <1>2, <2>2, KeptRows
  <2>4. /\ Upto(P, p) \in DOMAIN Keep(new, P)
        /\ Keep(new, P)[Upto(P, p)] = new[p]
    BY <2>2, <2>3, KeepPlaces
  <2>5. \E q \in DOMAIN Keep(new, P) :
           Keep(new, P)[q].enabled /\ \E l : IsByte(w, Keep(new, P)[q], disk, l)
    BY <1>10, <2>4
  <2>6. w \in Written(Enabled(Keep(new, P)), disk)
    BY <2>5, EnabledBytes
  <2> QED BY <2>1, <2>6
<1>12. CASE firmware' = Deselected(new)
  <2> DEFINE kept == Deselected(new)
  <2>1. /\ DOMAIN kept = 1..(n + 1)
        /\ kept[p].path = new[p].path /\ kept[p].address = new[p].address
        /\ kept[p].enabled = new[p].enabled
    <3>1. AreRows(kept) /\ Len(kept) = n + 1
      BY <1>2, DeselectedIs
    <3>2. DOMAIN kept = 1..(n + 1)
      <4> HIDE DEF kept
      <4> QED BY <3>1, RowsAre
    <3>3. p \in 1..Len(new)
      BY <1>2
    <3>4. /\ kept[p].path = new[p].path /\ kept[p].address = new[p].address
          /\ kept[p].enabled = new[p].enabled
      BY <1>2, <1>10, <3>3, DeselectedIs
    <3> QED BY <3>2, <3>4
  <2> HIDE DEF kept
  <2>2. PICK l : IsByte(w, new[p], disk, l)
    BY <1>10
  <2>3. IsByte(w, kept[p], disk, l)
    BY <2>1, <2>2 DEF IsByte
  <2>4. w \in Written(Enabled(kept), disk)
    BY <1>10, <2>1, <2>3, EnabledBytes
  <2> QED BY <1>12, <2>4 DEF kept
<1> QED BY <1>8, <1>9, <1>11, <1>12, MergeChoices DEF new

\* An operation of the panel changes the rows only.
LEMMA PanelStepOnlyEdits ==
    ASSUME PanelStep
    PROVE  /\ dialog = "closed" /\ edits < MaxEdits /\ edits' = edits + 1
           /\ UNCHANGED <<disk, builds, dialog, asking, waiting, hasWorker, merged, sources, worker,
                          cancel, report, tool, code, image>>
<1> USE DEF Edit, diskVars, dialogVars, workerVars, toolVars
<1>1. CASE \E p \in Paths : AddBin(p)
  BY <1>1 DEF AddBin
<1>2. CASE ImportFolder
  BY <1>2 DEF ImportFolder
<1>3. CASE \E i \in 1..Len(firmware) : RemoveRow(i) \/ MoveDown(i) \/ SetEnabled(i)
  BY <1>3 DEF RemoveRow, MoveDown, SetEnabled
<1>4. CASE \E i \in 1..Len(firmware) : Duplicate(i)
  BY <1>4 DEF Duplicate
<1>5. CASE \E i \in 1..Len(firmware) : \E text \in Texts : SetAddress(i, text)
  BY <1>5 DEF SetAddress
<1>6. CASE Reload
  BY <1>6 DEF Reload
<1> QED BY <1>1, <1>2, <1>3, <1>4, <1>5, <1>6 DEF PanelStep

\* The dialog is gone once its entry has been dealt with.
LEMMA ApplyRows ==
    ASSUME RowsInv, dialog # "closed", NEW entry \in Row, Apply(entry)
    PROVE  AreRows(firmware') /\ dialog' = "closed" /\ merged' = <<>>
BY AfterMergeRows DEF Apply, RowsInv

\* The sources of a merge are rows of the panel.
LEMMA StartMergeSources ==
    ASSUME RowsInv, NEW included \in SUBSET DOMAIN firmware, StartMerge(included)
    PROVE  /\ DOMAIN sources' \subseteq DOMAIN firmware
           /\ \A i \in DOMAIN sources' : sources'[i] = firmware[i] /\ sources'[i] \in Row
           /\ DOMAIN firmware \subseteq 1..MaxRows
<1>1. DOMAIN firmware = 1..Len(firmware) /\ Len(firmware) <= MaxRows /\ MaxRows \in Nat
      /\ Len(firmware) \in Nat /\ \A i \in 1..Len(firmware) : firmware[i] \in Row
  BY RowsAre DEF RowsInv, AreRows
<1>2. sources' = [i \in included |-> firmware[i]]
  BY DEF StartMerge, Restrict
<1>3. DOMAIN sources' = included /\ \A i \in included : sources'[i] = firmware[i]
  BY <1>2
<1> QED BY <1>1, <1>3

\* esptool fills its image with bytes.
LEMMA ToolReadsImage ==
    ASSUME RowsInv, ToolReads
    PROVE  disk' \in Files /\ image' \in Seq(Nat)
<1>1. disk \in Files /\ Output \in Paths
  BY PanelAssumption DEF RowsInv
<1>2. disk' \in Files
  BY <1>1 DEF ToolReads, Files
<1>3. DOMAIN sources \subseteq 1..MaxRows
      /\ \A i \in DOMAIN sources : sources[i] \in Row /\ Value[sources[i].address] # -1
  BY DEF RowsInv, MergeTyped, ToolReads, Sound
<1>4. PICK after : after = disk'
  OBVIOUS
<1>5. Merged(sources, disk) \in Seq(Nat) /\ Merged(sources, after) \in Seq(Nat)
  BY <1>1, <1>2, <1>3, <1>4, MergedHasBytes
<1>6. image' = Merged(sources, disk) \/ image' = Merged(sources, after)
  BY <1>4 DEF ToolReads
<1> QED BY <1>2, <1>5, <1>6

\* Every step keeps the rows and the types.
LEMMA RowsStep ==
    ASSUME FirmwareInv, FirmwareNext
    PROVE  RowsInv'
<1> USE DEF diskVars, rowVars, dialogVars, workerVars, toolVars
<1>0. RowsInv /\ DialogInv
  BY DEF FirmwareInv
<1>1. CASE PanelStep
  <2>1. AreRows(firmware')
    BY <1>0, <1>1, PanelStepRows
  <2>2. edits' \in 0..MaxEdits
    BY <1>0, <1>1, PanelStepOnlyEdits, PanelAssumption DEF RowsInv, MergeTyped
  <2> QED BY <1>0, <1>1, <2>1, <2>2, PanelStepOnlyEdits DEF RowsInv, MergeTyped
<1>2. ASSUME UNCHANGED <<disk, firmware, builds, edits, merged, sources, image>>,
             dialog' \in {"closed", "open", "accepted", "rejected"},
             dialog = "closed" => dialog' = "closed" \/ Len(firmware) + 1 <= MaxRows,
             asking' \in BOOLEAN, waiting' \in BOOLEAN, hasWorker' \in BOOLEAN,
             worker' \in {"none", "checking", "starting", "reading", "waiting", "ended"},
             cancel' \in BOOLEAN, report' \in {"none", "success", "failure"},
             tool' \in {"none", "running", "writing", "silent", "exited"}, code' \in {0, 1}
      PROVE  RowsInv'
  BY <1>0, <1>2 DEF RowsInv, MergeTyped
<1>3. CASE OpenDialog
  BY <1>0, <1>2, <1>3 DEF OpenDialog, Room, RowsInv, MergeTyped
<1>4. ASSUME NEW included \in SUBSET DOMAIN firmware, StartMerge(included)
      PROVE  RowsInv'
  <2>1. /\ DOMAIN sources' \subseteq 1..MaxRows
        /\ \A i \in DOMAIN sources' : sources'[i] \in Row
    BY <1>0, <1>4, StartMergeSources
  <2>2. edits' \in 0..MaxEdits
    BY <1>0, <1>4, PanelAssumption DEF StartMerge, RowsInv, MergeTyped
  <2>3. image' \in Seq(Nat)
    BY <1>4 DEF StartMerge
  <2>4. /\ worker' = "checking" /\ cancel' = FALSE /\ report' = "none" /\ tool' = "none"
        /\ code' = 1 /\ hasWorker' = TRUE
        /\ UNCHANGED <<disk, builds, firmware, dialog, asking, waiting, merged>>
    BY <1>4 DEF StartMerge
  <2> QED BY <1>0, <2>1, <2>2, <2>3, <2>4 DEF RowsInv, MergeTyped
<1>5. CASE CancelMerge \/ AnswerYes
  <2>1. tool' \in {"none", "running", "writing", "silent", "exited"} /\ code' \in {0, 1}
        /\ UNCHANGED image
    BY <1>0, <1>5 DEF CancelMerge, AnswerYes, Terminate, RowsInv, MergeTyped
  <2>2. /\ UNCHANGED <<disk, firmware, builds, edits, merged, sources, dialog, hasWorker, worker,
                       report>>
        /\ asking' \in BOOLEAN /\ waiting' \in BOOLEAN /\ cancel' \in BOOLEAN
    BY <1>0, <1>5 DEF CancelMerge, AnswerYes, RowsInv, MergeTyped
  <2> QED BY <1>0, <2>1, <2>2 DEF RowsInv, MergeTyped
<1>6. CASE CloseIdle \/ AskToClose \/ WaitReturns
  <2>1. /\ UNCHANGED <<disk, firmware, builds, edits, merged, sources, hasWorker, worker, cancel,
                       report, tool, code, image>>
        /\ asking' \in BOOLEAN /\ waiting' \in BOOLEAN
        /\ dialog # "closed" /\ dialog' \in {"open", "rejected"}
    BY <1>0, <1>6 DEF CloseIdle, AskToClose, WaitReturns, RowsInv, MergeTyped, DialogInv
  <2> QED BY <1>0, <2>1 DEF RowsInv, MergeTyped
<1>7. ASSUME AreRows(firmware'), dialog' = "closed", merged' \in Seq(Row),
             UNCHANGED <<disk, builds, edits, sources, worker, cancel, tool, code, image>>,
             asking' \in BOOLEAN, waiting' \in BOOLEAN, hasWorker' \in BOOLEAN,
             report' \in {"none", "success", "failure"}
      PROVE  RowsInv'
  BY <1>0, <1>7 DEF RowsInv, MergeTyped
<1>8. <<>> \in Seq(Row)
  OBVIOUS
<1>9. CASE AnswerNo
  <2>1. CASE dialog = "accepted"
    <3>1. merged[1] \in Row /\ Apply(merged[1])
      BY <1>0, <1>9, <2>1 DEF AnswerNo, DialogInv
    <3>2. AreRows(firmware') /\ dialog' = "closed" /\ merged' = <<>>
      BY <1>0, <2>1, <3>1, ApplyRows
    <3> QED BY <1>0, <1>7, <1>8, <1>9, <3>2 DEF AnswerNo, RowsInv, MergeTyped
  <2>2. CASE dialog # "accepted"
    <3>1. /\ UNCHANGED <<disk, firmware, builds, edits, merged, sources, dialog, waiting, hasWorker,
                         worker, cancel, report, tool, code, image>>
          /\ asking' \in BOOLEAN
      BY <1>9, <2>2 DEF AnswerNo
    <3> QED BY <1>0, <3>1 DEF RowsInv, MergeTyped
  <2> QED BY <2>1, <2>2
<1>10. CASE ExecReturns
  <2>1. CASE merged # <<>>
    <3>1. merged[1] \in Row /\ Apply(merged[1]) /\ dialog # "closed"
      BY <1>0, <1>10, <2>1 DEF ExecReturns, DialogInv
    <3>2. AreRows(firmware') /\ dialog' = "closed" /\ merged' = <<>>
      BY <1>0, <3>1, ApplyRows
    <3> QED BY <1>0, <1>7, <1>8, <1>10, <3>2 DEF ExecReturns, RowsInv, MergeTyped
  <2>2. CASE merged = <<>>
    <3>1. firmware' = firmware /\ merged' = merged /\ dialog' = "closed"
      BY <1>10, <2>2 DEF ExecReturns
    <3> QED BY <1>0, <1>2, <1>10, <3>1 DEF ExecReturns, RowsInv, MergeTyped
  <2> QED BY <2>1, <2>2
<1>11. CASE Deliver
  <2>1. MergedEntry \in Row
    BY <1>0, MergedEntryTyped DEF RowsInv
  <2>2. CASE UNCHANGED <<firmware, dialog, merged>>
    BY <1>0, <1>2, <1>11, <2>2 DEF Deliver, RowsInv, MergeTyped
  <2>3. CASE dialog = "open" /\ Apply(MergedEntry)
    <3>1. AreRows(firmware') /\ dialog' = "closed" /\ merged' = <<>>
      BY <1>0, <2>1, <2>3, ApplyRows
    <3> QED BY <1>0, <1>7, <1>8, <1>11, <3>1 DEF Deliver, RowsInv, MergeTyped
  <2>4. CASE /\ merged' = <<MergedEntry>> /\ dialog' \in {"accepted", "rejected"}
             /\ dialog # "closed" /\ firmware' = firmware
    <3>1. merged' \in Seq(Row)
      BY <2>1, <2>4
    <3> QED BY <1>0, <1>11, <2>4, <3>1 DEF Deliver, RowsInv, MergeTyped
  <2> QED BY <1>0, <1>11, <2>2, <2>3, <2>4 DEF Deliver, DialogInv
<1>12. CASE WorkerStep
  BY <1>0, <1>2, <1>12 DEF WorkerStep, CheckCancel, StartTool, StopOnCancel, TimeOut, OutputClosed,
     WaitTool, WaitExpires, End, Verdict, Terminate, RowsInv, MergeTyped
<1>13. CASE ToolReads
  BY <1>0, <1>13, ToolReadsImage DEF ToolReads, RowsInv, MergeTyped
<1>14. CASE ToolWrites
  <2>1. disk' \in Files
    BY <1>0, <1>14, PanelAssumption DEF ToolWrites, Files, RowsInv, MergeTyped
  <2> QED BY <1>0, <1>14, <2>1 DEF ToolWrites, RowsInv, MergeTyped
<1>15. CASE ToolFails \/ ToolExits
  BY <1>0, <1>2, <1>15 DEF ToolFails, ToolExits, RowsInv, MergeTyped
<1>16. ASSUME NEW p \in Paths, NEW c \in Builds \cup {Absent}, Build(p, c)
       PROVE  RowsInv'
  <2>1. disk' \in Files
    BY <1>0, <1>16, PanelAssumption DEF Build, Files, RowsInv
  <2>2. builds' \in 0..MaxBuilds
    BY <1>0, <1>16, PanelAssumption DEF Build, RowsInv, MergeTyped
  <2> QED BY <1>0, <1>16, <2>1, <2>2 DEF Build, RowsInv, MergeTyped
<1> QED BY <1>1, <1>3, <1>4, <1>5, <1>6, <1>9, <1>10, <1>11, <1>12, <1>13, <1>14, <1>15, <1>16
        DEF FirmwareNext, DialogStep, ToolStep

\* A panel that changes, or a dialog that closes, ends what could still be added.
LEMMA DialogStepKeeps ==
    ASSUME FirmwareInv, FirmwareNext
    PROVE  DialogInv' /\ SourcesInv'
<1> USE DEF diskVars, rowVars, dialogVars, workerVars, toolVars, Underway
<1> DEFINE Goal == DialogInv' /\ SourcesInv'
<1>0. /\ RowsInv /\ DialogInv /\ ToolInv /\ SourcesInv
      /\ report \in {"none", "success", "failure"}
  BY DEF FirmwareInv, RowsInv, MergeTyped
<1>1. CASE PanelStep
  BY <1>0, <1>1, PanelStepOnlyEdits DEF DialogInv, SourcesInv
<1>2. CASE OpenDialog
  BY <1>0, <1>2 DEF OpenDialog, DialogInv, SourcesInv
<1>3. ASSUME NEW included \in SUBSET DOMAIN firmware, StartMerge(included)
      PROVE  Goal
  <2>1. /\ DOMAIN sources' \subseteq DOMAIN firmware
        /\ \A i \in DOMAIN sources' : sources'[i] = firmware[i]
    BY <1>0, <1>3, StartMergeSources
  <2>2. /\ dialog = "open" /\ ~asking /\ hasWorker' = TRUE /\ worker' = "checking"
        /\ report' = "none" /\ UNCHANGED <<firmware, dialog, asking, waiting, merged>>
    BY <1>3 DEF StartMerge
  <2>3. merged = <<>>
    BY <1>0, <2>2 DEF DialogInv
  <2> QED BY <1>0, <2>1, <2>2, <2>3 DEF DialogInv, SourcesInv
<1>4. CASE CancelMerge
  BY <1>0, <1>4 DEF CancelMerge, DialogInv, SourcesInv
<1>5. CASE CloseIdle
  BY <1>0, <1>5 DEF CloseIdle, DialogInv, SourcesInv
<1>6. CASE AskToClose
  BY <1>0, <1>6 DEF AskToClose, DialogInv, SourcesInv
<1>7. CASE AnswerYes
  <2>1. dialog = "open" /\ merged = <<>>
    BY <1>0, <1>7 DEF AnswerYes, DialogInv
  <2> QED BY <1>0, <1>7, <2>1 DEF AnswerYes, DialogInv, SourcesInv
<1>8. CASE AnswerNo
  <2>1. CASE dialog = "accepted"
    BY <1>0, <1>8, <2>1 DEF AnswerNo, Apply, DialogInv, SourcesInv
  <2>2. CASE dialog # "accepted"
    BY <1>0, <1>8, <2>2 DEF AnswerNo, DialogInv, SourcesInv
  <2> QED BY <2>1, <2>2
<1>9. CASE WaitReturns
  BY <1>0, <1>9 DEF WaitReturns, DialogInv, SourcesInv
<1>10. CASE ExecReturns
  <2>1. dialog' = "closed" /\ merged' = <<>> /\ ~asking' /\ ~waiting'
    BY <1>0, <1>10 DEF ExecReturns, Apply, DialogInv
  <2>2. UNCHANGED <<worker, report>>
    BY <1>10 DEF ExecReturns
  <2> QED BY <1>0, <2>1, <2>2 DEF DialogInv, SourcesInv
<1>11. CASE Deliver
  <2>1. /\ report # "none" /\ ~waiting /\ report' = "none" /\ hasWorker' = FALSE
        /\ UNCHANGED <<disk, edits, asking, waiting, sources, worker>>
    BY <1>11 DEF Deliver
  <2>2. merged = <<>> /\ worker \notin Underway
    BY <1>0, <2>1 DEF DialogInv
  <2>3. CASE UNCHANGED <<firmware, dialog, merged>>
    BY <1>0, <2>1, <2>2, <2>3 DEF DialogInv, SourcesInv
  <2>4. CASE dialog = "open" /\ ~asking /\ Apply(MergedEntry)
    BY <1>0, <2>1, <2>2, <2>4 DEF Apply, DialogInv, SourcesInv
  <2>5. CASE /\ dialog = "rejected" \/ asking
             /\ merged' = <<MergedEntry>> /\ UNCHANGED firmware
             /\ dialog' = IF asking THEN "accepted" ELSE "rejected"
    <3>1. MergedEntry \in Row /\ IsMergedEntry(MergedEntry)
      BY <1>0, MergedEntryTyped DEF RowsInv
    <3>2. merged' # <<>> /\ merged'[1] = MergedEntry
      BY <2>5
    <3>3. dialog' \in {"accepted", "rejected"} /\ (asking' => dialog' = "accepted") /\ ~waiting'
      BY <2>1, <2>5
    <3>4. merged'[1] \in Row /\ IsMergedEntry(merged'[1])
      BY <3>1, <3>2
    <3>5. DialogInv'
      BY <2>1, <2>2, <3>2, <3>3, <3>4 DEF DialogInv, IsMergedEntry
    <3>6. dialog # "closed"
      BY <1>0, <2>5 DEF DialogInv
    <3>7. SourcesInv'
      BY <1>0, <2>1, <2>5, <3>6 DEF SourcesInv
    <3> QED BY <3>5, <3>7
  <2> QED BY <1>11, <2>3, <2>4, <2>5 DEF Deliver

\* What the worker does: it ends, or goes on, while nothing of it was added.
<1>12. ASSUME UNCHANGED <<firmware, dialogVars, sources>>, worker \in Underway,
              worker' \in Underway => report' = "none"
       PROVE  Goal
  <2>1. merged = <<>>
    BY <1>0, <1>12 DEF DialogInv
  <2>2. dialog = "open" => hasWorker
    BY <1>0, <1>12 DEF DialogInv
  <2> QED BY <1>0, <1>12, <2>1, <2>2 DEF DialogInv, SourcesInv
<1>13. CASE WorkerStep
  <2>1. report = "none" \/ worker \notin Underway
    BY <1>0 DEF DialogInv
  <2>2. /\ UNCHANGED <<firmware, dialogVars, sources>> /\ worker \in Underway
        /\ worker' \in Underway => report' = "none"
    BY <1>13, <2>1 DEF WorkerStep, CheckCancel, StartTool, StopOnCancel, TimeOut, OutputClosed,
       WaitTool, WaitExpires, End
  <2> QED BY <1>12, <2>2
<1>14. CASE ToolStep \/ \E p \in Paths, c \in Builds \cup {Absent} : Build(p, c)
  <2>1. UNCHANGED <<firmware, dialogVars, sources, worker, report>>
    BY <1>14 DEF ToolStep, ToolReads, ToolWrites, ToolFails, ToolExits, Build
  <2> QED BY <1>0, <2>1 DEF DialogInv, SourcesInv
<1> QED BY <1>1, <1>2, <1>3, <1>4, <1>5, <1>6, <1>7, <1>8, <1>9, <1>10, <1>11, <1>13, <1>14
        DEF FirmwareNext, DialogStep

\* Nothing but an image written to its end gets the exit code 0.
LEMMA ToolStepKeeps ==
    ASSUME FirmwareInv, FirmwareNext
    PROVE  ToolInv'
<1> USE DEF diskVars, rowVars, dialogVars, workerVars, toolVars, Underway
<1>0. /\ RowsInv /\ DialogInv /\ ToolInv
      /\ report \in {"none", "success", "failure"} /\ builds \in 0..MaxBuilds /\ code \in {0, 1}
      /\ worker \in {"none", "checking", "starting", "reading", "waiting", "ended"}
      /\ tool \in {"none", "running", "writing", "silent", "exited"}
  BY DEF FirmwareInv, RowsInv, MergeTyped

\* Nothing that has to do with the tool.
<1>1. ASSUME UNCHANGED <<disk, builds, worker, tool, code, image>>,
             report' = "success" \/ merged' # <<>> => report = "success" \/ merged # <<>>
      PROVE  ToolInv'
  BY <1>0, <1>1 DEF ToolInv
<1>2. CASE PanelStep
  BY <1>1, <1>2, PanelStepOnlyEdits
<1>3. CASE OpenDialog \/ CloseIdle \/ AskToClose \/ WaitReturns
  BY <1>1, <1>3 DEF OpenDialog, CloseIdle, AskToClose, WaitReturns
<1>4. ASSUME NEW included \in SUBSET DOMAIN firmware, StartMerge(included)
      PROVE  ToolInv'
  <2>1. merged' = <<>>
    BY <1>0, <1>4 DEF StartMerge, DialogInv
  <2> QED BY <1>4, <2>1 DEF StartMerge, ToolInv

\* A tool that is stopped has not exited with 0.
<1>5. ASSUME Terminate, UNCHANGED <<disk, builds, merged>>,
             worker' = worker \/ worker' = "ended", report' = "success" => report = "success"
      PROVE  ToolInv'
  BY <1>0, <1>5 DEF Terminate, ToolInv
<1>6. CASE CancelMerge \/ AnswerYes
  BY <1>5, <1>6 DEF CancelMerge, AnswerYes
<1>7. CASE AnswerNo
  BY <1>0, <1>1, <1>7 DEF AnswerNo, Apply, DialogInv
<1>8. CASE ExecReturns
  BY <1>1, <1>8 DEF ExecReturns, Apply
<1>9. CASE Deliver
  <2>1. merged' # <<>> => report = "success" \/ merged # <<>>
    BY <1>9 DEF Deliver, Apply
  <2> QED BY <1>1, <1>9, <2>1 DEF Deliver
<1>10. CASE CheckCancel
  BY <1>0, <1>10 DEF CheckCancel, End, DialogInv, ToolInv
<1>11. CASE StartTool
  BY <1>0, <1>11 DEF StartTool, End, DialogInv, ToolInv
<1>12. CASE StopOnCancel \/ TimeOut
  BY <1>5, <1>12 DEF StopOnCancel, TimeOut, End
<1>13. CASE OutputClosed
  BY <1>0, <1>13 DEF OutputClosed, DialogInv, ToolInv
<1>14. CASE WaitTool
  <2>1. report' = "success" => code = 0
    BY <1>14 DEF WaitTool, End, Verdict
  <2>2. tool = "exited" /\ worker' = "ended" /\ merged = <<>>
        /\ UNCHANGED <<disk, builds, merged, tool, code, image>>
    BY <1>0, <1>14 DEF WaitTool, End, DialogInv
  <2> QED BY <1>0, <2>1, <2>2 DEF ToolInv
<1>15. CASE WaitExpires
  BY <1>0, <1>15 DEF WaitExpires, End, DialogInv, ToolInv
<1>16. CASE ToolReads
  BY <1>0, <1>16 DEF ToolReads, ToolInv
<1>17. CASE ToolWrites
  <2>1. disk'[Output] = image
    BY <1>0, <1>17, PanelAssumption DEF ToolWrites, RowsInv, Files
  <2>2. report # "success" /\ merged = <<>> /\ code = 1
    BY <1>0, <1>17 DEF ToolWrites, ToolInv
  <2> QED BY <1>0, <1>17, <2>1, <2>2 DEF ToolWrites, ToolInv
<1>18. CASE ToolFails \/ ToolExits
  BY <1>0, <1>18 DEF ToolFails, ToolExits, ToolInv
<1>19. ASSUME NEW p \in Paths, NEW c \in Builds \cup {Absent}, Build(p, c)
       PROVE  ToolInv'
  <2>1. builds' # 0
    BY <1>0, <1>19, PanelAssumption DEF Build
  <2> QED BY <1>0, <1>19, <2>1 DEF Build, ToolInv
<1> QED BY <1>2, <1>3, <1>4, <1>6, <1>7, <1>8, <1>9, <1>10, <1>11, <1>12, <1>13, <1>14, <1>15,
           <1>16, <1>17, <1>18, <1>19 DEF FirmwareNext, DialogStep, WorkerStep, ToolStep

\* Without a build, what a merge was let through with stays sound until esptool
\* reads it.
ReadyInv ==
    builds = 0 /\ (worker \in {"checking", "starting"} \/ tool = "running") => Sound(sources, disk)

\* Every step keeps that.
LEMMA ReadyStep ==
    ASSUME FirmwareInv, ReadyInv, FirmwareNext
    PROVE  ReadyInv'
<1> USE DEF diskVars, rowVars, dialogVars, workerVars, toolVars
<1>0. RowsInv /\ ToolInv /\ builds \in 0..MaxBuilds
  BY DEF FirmwareInv, RowsInv, MergeTyped

\* Nothing that makes a tool or a worker ready.
<1>1. ASSUME UNCHANGED <<disk, builds, sources>>,
             worker' \in {"checking", "starting"} => worker \in {"checking", "starting"},
             tool' = "running" => tool = "running" \/ worker = "starting"
      PROVE  ReadyInv'
  BY <1>1 DEF ReadyInv, Sound
<1>2. CASE PanelStep
  BY <1>1, <1>2, PanelStepOnlyEdits
<1>3. CASE OpenDialog \/ CancelMerge \/ CloseIdle \/ AskToClose \/ AnswerYes \/ AnswerNo
           \/ WaitReturns \/ ExecReturns \/ Deliver
  BY <1>1, <1>3 DEF OpenDialog, CancelMerge, CloseIdle, AskToClose, AnswerYes, AnswerNo,
     WaitReturns, ExecReturns, Deliver, Terminate
<1>4. ASSUME NEW included \in SUBSET DOMAIN firmware, StartMerge(included)
      PROVE  ReadyInv'
  <2>1. /\ DOMAIN sources' \subseteq DOMAIN firmware /\ DOMAIN firmware \subseteq 1..MaxRows
        /\ \A i \in DOMAIN sources' : sources'[i] \in Row
    BY <1>0, <1>4, StartMergeSources
  <2>2. MergePasses(sources', disk) /\ disk' = disk /\ disk \in Files
    BY <1>0, <1>4 DEF StartMerge, RowsInv
  <2>3. DOMAIN sources' \subseteq Nat
    BY <2>1, PanelAssumption
  <2>4. Sound(sources', disk)
    <3> HIDE DEF Sound
    <3> QED BY <2>1, <2>2, <2>3, MergeCheckIsSound
  <2> QED BY <2>2, <2>4 DEF ReadyInv, Sound
<1>5. CASE WorkerStep
  BY <1>1, <1>5 DEF WorkerStep, CheckCancel, StartTool, StopOnCancel, TimeOut, OutputClosed,
     WaitTool, WaitExpires, End, Terminate
<1>6. CASE ToolReads \/ ToolWrites
  <2>1. worker' \notin {"checking", "starting"} /\ tool' # "running"
    BY <1>0, <1>6 DEF ToolReads, ToolWrites, ToolInv
  <2> QED BY <2>1 DEF ReadyInv
<1>7. CASE ToolFails \/ ToolExits
  BY <1>1, <1>7 DEF ToolFails, ToolExits
<1>8. ASSUME NEW p \in Paths, NEW c \in Builds \cup {Absent}, Build(p, c)
      PROVE  ReadyInv'
  <2>1. builds' # 0
    BY <1>0, <1>8, PanelAssumption DEF Build
  <2> QED BY <2>1 DEF ReadyInv
<1> QED BY <1>2, <1>3, <1>4, <1>5, <1>6, <1>7, <1>8 DEF FirmwareNext, DialogStep, ToolStep

\* Every step keeps the whole invariant.
LEMMA FirmwareStep ==
    FirmwareInv /\ ReadyInv /\ [FirmwareNext]_firmwareVars => FirmwareInv' /\ ReadyInv'
<1> SUFFICES ASSUME FirmwareInv, ReadyInv, [FirmwareNext]_firmwareVars
             PROVE  FirmwareInv' /\ ReadyInv'
  OBVIOUS
<1>1. CASE FirmwareNext
  BY <1>1, RowsStep, DialogStepKeeps, ToolStepKeeps, ReadyStep DEF FirmwareInv
<1>2. CASE UNCHANGED firmwareVars
  <2>1. UNCHANGED <<disk, builds, firmware, edits, dialog, asking, waiting, hasWorker, merged,
                    sources, worker, cancel, report, tool, code, image>>
    BY <1>2 DEF firmwareVars, diskVars, rowVars, dialogVars, workerVars, toolVars
  <2>2. RowsInv'
    BY <2>1 DEF FirmwareInv, RowsInv, MergeTyped, AreRows, Files
  <2>3. DialogInv' /\ ToolInv' /\ SourcesInv'
    BY <2>1 DEF FirmwareInv, DialogInv, ToolInv, SourcesInv, IsMergedEntry, Underway
  <2>4. ReadyInv'
    BY <2>1 DEF ReadyInv, Sound
  <2> QED BY <2>2, <2>3, <2>4 DEF FirmwareInv
<1> QED BY <1>1, <1>2

\* So it holds of the panel, its dialog and their steps.
LEMMA FirmwareInvHolds == FirmwareSpec => [](FirmwareInv /\ ReadyInv)
<1>1. FirmwareInit => ReadyInv
  BY DEF FirmwareInit, ReadyInv
<1> QED BY <1>1, FirmwareInvInit, FirmwareStep, PTL DEF FirmwareSpec

\* The property of the rows is a consequence of their types.
LEMMA SoundWhenAccepted == RowsInv => AcceptedIsSound
<1> SUFFICES ASSUME RowsInv
             PROVE  AcceptedIsSound
  OBVIOUS
<1>1. FirmwareTypeOK
  BY RowsInvTypes
<1>2. /\ DOMAIN firmware = 1..Len(firmware) /\ Len(firmware) \in Nat /\ disk \in Files
      /\ \A i \in DOMAIN firmware : firmware[i] \in Row
  BY RowsAre DEF RowsInv
<1>3. DOMAIN firmware \subseteq Nat
  BY <1>2
<1>4. ASSUME Accepts(firmware), \A i \in DOMAIN firmware : firmware[i] = Refresh(firmware[i], disk)
      PROVE  Sound(Enabled(firmware), disk)
  BY ONLY <1>2, <1>3, <1>4, UploadCheckIsSound
<1> QED BY <1>1, <1>2, <1>4 DEF AcceptedIsSound

\* Only a merge that has succeeded, and whose rows are still there, is added.
LEMMA AddedByMerge ==
    ASSUME FirmwareInv, [FirmwareNext]_firmwareVars, MergeAdded
    PROVE  /\ report = "success" \/ merged # <<>>
           /\ UNCHANGED <<disk, builds, tool, code, image, sources>>
           /\ \E entry \in Row : IsMergedEntry(entry) /\ AfterMerge(entry)
<1> USE DEF diskVars, rowVars, dialogVars, workerVars, toolVars
<1>0. RowsInv /\ DialogInv /\ dialog # "closed" /\ dialog' = "closed" /\ firmware' # firmware
      /\ disk \in Files
  BY DEF FirmwareInv, RowsInv, MergeAdded
<1>1. FirmwareNext
  BY <1>0 DEF firmwareVars
<1>2. AnswerNo \/ ExecReturns \/ Deliver
  <2>1. ~PanelStep
    BY <1>0, PanelStepOnlyEdits
  <2>2. ~(OpenDialog \/ CancelMerge \/ CloseIdle \/ AskToClose \/ AnswerYes \/ WaitReturns)
    BY <1>0 DEF OpenDialog, CancelMerge, CloseIdle, AskToClose, AnswerYes, WaitReturns
  <2>3. ~\E included \in SUBSET DOMAIN firmware : StartMerge(included)
    BY <1>0 DEF StartMerge
  <2>4. ~(WorkerStep \/ ToolStep \/ \E p \in Paths, c \in Builds \cup {Absent} : Build(p, c))
    BY <1>0 DEF WorkerStep, CheckCancel, StartTool, StopOnCancel, TimeOut, OutputClosed,
       WaitTool, WaitExpires, ToolStep, ToolReads, ToolWrites, ToolFails, ToolExits, Build
  <2> QED BY <1>1, <2>1, <2>2, <2>3, <2>4 DEF FirmwareNext, DialogStep
<1>3. CASE AnswerNo \/ ExecReturns
  <2>1. merged # <<>> /\ AfterMerge(merged[1])
    BY <1>0, <1>3 DEF AnswerNo, ExecReturns, Apply, DialogInv
  <2>2. merged[1] \in Row /\ IsMergedEntry(merged[1])
    BY <1>0, <2>1 DEF DialogInv
  <2>3. UNCHANGED <<disk, builds, tool, code, image, sources>>
    BY <1>3 DEF AnswerNo, ExecReturns
  <2> QED BY <2>1, <2>2, <2>3
<1>4. CASE Deliver
  <2>1. report = "success" /\ AfterMerge(MergedEntry)
    BY <1>0, <1>4 DEF Deliver, Apply
  <2>2. MergedEntry \in Row /\ IsMergedEntry(MergedEntry)
    BY <1>0, MergedEntryTyped
  <2>3. UNCHANGED <<disk, builds, tool, code, image, sources>>
    BY <1>4 DEF Deliver
  <2> QED BY <2>1, <2>2, <2>3
<1> QED BY <1>2, <1>3, <1>4

\* ... and then the invariant says what its image is, and that nothing is lost.
LEMMA AddedFaithfully ==
    ASSUME FirmwareInv, [FirmwareNext]_firmwareVars, MergeAdded
    PROVE  /\ tool = "exited" /\ code = 0
           /\ builds = 0 => disk[Output] = image
           /\ Sound(sources, disk) /\ disk[Output] = Merged(sources, disk) =>
                 Written(Enabled(firmware), disk) \subseteq Written(Enabled(firmware'), disk)
<1>1. /\ report = "success" \/ merged # <<>>
      /\ \E entry \in Row : IsMergedEntry(entry) /\ AfterMerge(entry)
  BY AddedByMerge
<1>2. tool = "exited" /\ code = 0 /\ (builds = 0 => disk[Output] = image)
  BY <1>1 DEF FirmwareInv, ToolInv
<1>3. dialog # "closed" /\ (report # "none" \/ merged # <<>>)
  BY <1>1 DEF MergeAdded
<1>4. /\ DOMAIN sources \subseteq DOMAIN firmware
      /\ \A i \in DOMAIN sources : sources[i] = firmware[i]
  BY <1>3 DEF FirmwareInv, SourcesInv
<1>5. AreRows(firmware) /\ Len(firmware) + 1 <= MaxRows /\ disk \in Files
  BY <1>3 DEF FirmwareInv, RowsInv
<1>6. PICK entry \in Row : IsMergedEntry(entry) /\ AfterMerge(entry)
  BY <1>1
<1>7. ASSUME Sound(sources, disk), disk[Output] = Merged(sources, disk)
      PROVE  Written(Enabled(firmware), disk) \subseteq Written(Enabled(firmware'), disk)
  BY ONLY <1>4, <1>5, <1>6, <1>7, BytesAreKept
<1> QED BY <1>2, <1>7

\* Nothing an upload is let through with overlaps if the rows know their files,
\* and esptool refuses no merge the dialog has let through unless a build came
\* in between: comparing neighbours in the order of their starts is enough, for
\* any files, address texts and number of rows.
THEOREM ChecksStaySound == FirmwareSpec => []ChecksAreSound
<1>1. FirmwareInv /\ ReadyInv => ChecksAreSound
  <2>1. FirmwareInv => AcceptedIsSound
    BY SoundWhenAccepted DEF FirmwareInv
  <2> QED BY <2>1 DEF ReadyInv, MergeIsReady, ChecksAreSound
<1> QED BY <1>1, FirmwareInvHolds, PTL

\* However closing, cancelling and the worker's result meet: what a merge adds
\* is a whole image, and whatever is done with its sources no byte is lost.
THEOREM MergesAreFaithful == FirmwareSpec => MergeIsFaithful
<1>1. FirmwareInv /\ [FirmwareNext]_firmwareVars =>
         [MergeAdded => /\ tool = "exited" /\ code = 0
                        /\ builds = 0 => disk[Output] = image]_firmwareVars
  BY AddedFaithfully
<1>2. FirmwareInv /\ [FirmwareNext]_firmwareVars =>
         [MergeAdded /\ Sound(sources, disk) /\ disk[Output] = Merged(sources, disk) =>
             Written(Enabled(firmware), disk) \subseteq Written(Enabled(firmware'), disk)]_firmwareVars
  BY AddedFaithfully
<1>3. FirmwareSpec => AddedIsComplete
  BY <1>1, FirmwareInvHolds, PTL DEF FirmwareSpec, AddedIsComplete
<1>4. FirmwareSpec => MergeKeepsImage
  BY <1>2, FirmwareInvHolds, PTL DEF FirmwareSpec, MergeKeepsImage
<1> QED BY <1>3, <1>4 DEF MergeIsFaithful
=============================================================================
