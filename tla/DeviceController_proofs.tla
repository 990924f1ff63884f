---------------------- MODULE DeviceController_proofs ----------------------
(***************************************************************************)
(* Proofs about DeviceController, for any ids, settings and depth of the   *)
(* history: the history is one line of the user's own edits, which the     *)
(* abstract EditTimeline describes, and devices being flashed are spared.  *)
(***************************************************************************)
EXTENDS DeviceController, SequenceTheorems, TLAPS

\* The panels have a device to compare the next edit with.
BaselineKept == selected # NoDevice => baseline \in Device

HistoryInv == HistoryIsTrue /\ BaselineKept

-----------------------------------------------------------------------------
(* Device lists, and the sequences of the history. *)

LEMMA Lists ==
    ASSUME NEW list \in DeviceList
    PROVE  /\ DOMAIN list \in SUBSET Ids /\ list \in [DOMAIN list -> Device]
           /\ \A d \in DOMAIN list : list[d].config \in Configs /\ list[d].status \in {"Idle", "Active"}
           /\ ConfigsOf(list) \in UNION {[S -> Configs] : S \in SUBSET Ids}
<1>1. PICK S \in SUBSET Ids : list \in [S -> Device]
  BY DEF DeviceList
<1>2. DOMAIN list = S
  BY <1>1
<1>3. \A d \in S : list[d].config \in Configs /\ list[d].status \in {"Idle", "Active"}
  BY <1>1 DEF Device
<1>4. ConfigsOf(list) \in [S -> Configs]
  BY <1>2, <1>3 DEF ConfigsOf
<1> QED BY <1>1, <1>2, <1>3, <1>4

LEMMA IsList ==
    ASSUME NEW S \in SUBSET Ids, NEW list \in [S -> Device]
    PROVE  list \in DeviceList
BY DEF DeviceList

\* The persisted fields are all that ConfigsOf sees.
LEMMA SameConfigs ==
    ASSUME NEW a \in DeviceList, NEW b \in DeviceList, DOMAIN a = DOMAIN b,
           \A d \in DOMAIN a : a[d].config = b[d].config
    PROVE  ConfigsOf(a) = ConfigsOf(b)
BY DEF ConfigsOf

LEMMA TrimProps ==
    ASSUME NEW S, NEW s \in Seq(S), NEW n \in Nat \ {0}
    PROVE  /\ Trim(s, n) \in Seq(S)
           /\ Len(Trim(s, n)) \in Nat /\ Len(Trim(s, n)) <= Len(s) /\ Len(Trim(s, n)) <= n
           /\ s # <<>> => Len(Trim(s, n)) # 0
           /\ \A i \in 1..Len(Trim(s, n)) :
                 /\ Len(s) - Len(Trim(s, n)) + i \in 1..Len(s)
                 /\ Trim(s, n)[i] = s[Len(s) - Len(Trim(s, n)) + i]
<1>1. Len(s) \in Nat /\ (s # <<>> => Len(s) # 0)
  BY LenProperties, EmptySeq
<1>2. CASE Len(s) > n
  <2> DEFINE m == Len(s) - n + 1
  <2>1. Trim(s, n) = SubSeq(s, m, Len(s))
    BY <1>2 DEF Trim
  <2>2. m \in Int /\ Len(s) \in Int /\ m <= Len(s) /\ Len(s) - m + 1 = n /\ m \in 1..Len(s)
    BY <1>1, <1>2
  <2>3. \A i \in m..Len(s) : s[i] \in S
    <3>1. \A i \in m..Len(s) : i \in 1..Len(s)
      BY <1>1, <2>2
    <3> QED BY <3>1, ElementOfSeq
  <2>4. /\ SubSeq(s, m, Len(s)) \in Seq(S) /\ Len(SubSeq(s, m, Len(s))) = n
        /\ \A i \in 1..n : SubSeq(s, m, Len(s))[i] = s[m + i - 1]
    BY <2>2, <2>3, SubSeqProperties
  <2>5. \A i \in 1..n : m + i - 1 = Len(s) - n + i /\ Len(s) - n + i \in 1..Len(s)
    BY <1>1, <1>2
  <2>6. \A i \in 1..n : /\ Len(s) - n + i \in 1..Len(s)
                        /\ SubSeq(s, m, Len(s))[i] = s[Len(s) - n + i]
    BY ONLY <2>4, <2>5
  <2>7. Len(Trim(s, n)) = n
    BY <2>1, <2>4
  <2>8. n <= Len(s) /\ n <= n /\ n # 0 /\ n \in Nat
    BY <1>1, <1>2
  <2> HIDE DEF m
  <2> QED BY <2>1, <2>4, <2>6, <2>7, <2>8
<1>3. CASE ~(Len(s) > n)
  <2>1. Trim(s, n) = s
    BY <1>3 DEF Trim
  <2> QED BY <1>1, <1>3, <2>1
<1> QED BY <1>2, <1>3

LEMMA FrontProps ==
    ASSUME NEW S, NEW s \in Seq(S), s # <<>>
    PROVE  /\ Len(s) \in Nat \ {0} /\ Last(s) = s[Len(s)] /\ Last(s) \in S
           /\ Front(s) \in Seq(S) /\ Len(Front(s)) = Len(s) - 1
           /\ \A i \in 1..(Len(s) - 1) : Front(s)[i] = s[i]
<1>1. Len(s) \in Nat \ {0}
  BY EmptySeq
<1>2. Last(s) = s[Len(s)] /\ Last(s) \in S
  BY <1>1, ElementOfSeq DEF Last
<1>3. Front(s) = SubSeq(s, 1, Len(s) - 1)
  BY DEF Front
<1>4. \A i \in 1..(Len(s) - 1) : s[i] \in S /\ 1 + i - 1 = i
  BY <1>1, ElementOfSeq
<1>5. ASSUME NEW n \in Nat, n = Len(s) - 1
      PROVE  /\ SubSeq(s, 1, n) \in Seq(S) /\ Len(SubSeq(s, 1, n)) = n
             /\ \A i \in 1..n : SubSeq(s, 1, n)[i] = s[i]
  <2>1. /\ 1 \in Int /\ n \in Int /\ n - 1 + 1 = n /\ (~(1 <= n) => n = 0)
        /\ \A i \in 1..n : s[i] \in S /\ 1 + i - 1 = i
    BY <1>4, <1>5
  <2>2. /\ SubSeq(s, 1, n) \in Seq(S)
        /\ Len(SubSeq(s, 1, n)) = IF 1 <= n THEN n - 1 + 1 ELSE 0
        /\ \A i \in 1..(n - 1 + 1) : SubSeq(s, 1, n)[i] = s[1 + i - 1]
    BY ONLY <2>1, SubSeqProperties
  <2> QED BY ONLY <2>1, <2>2
<1>6. Len(s) - 1 \in Nat
  BY <1>1
<1> QED BY <1>1, <1>2, <1>3, <1>5, <1>6

-----------------------------------------------------------------------------
(* One line of edits, as a fact about two stacks and a device list. *)

Linked(u, r, list) ==
    /\ \A i \in 1..(Len(u) - 1) : ConfigsOf(u[i].after) = ConfigsOf(u[i + 1].before)
    /\ u # <<>> => ConfigsOf(Last(u).after) = ConfigsOf(list)
    /\ \A i \in 1..(Len(r) - 1) : ConfigsOf(r[i + 1].after) = ConfigsOf(r[i].before)
    /\ r # <<>> => ConfigsOf(Last(r).before) = ConfigsOf(list)

LEMMA AppendProps ==
    ASSUME NEW S, NEW s \in Seq(S), NEW e \in S
    PROVE  /\ Append(s, e) \in Seq(S) /\ Append(s, e) # <<>>
           /\ Len(s) \in Nat /\ Len(Append(s, e)) = Len(s) + 1
           /\ Last(Append(s, e)) = e /\ Append(s, e)[Len(s) + 1] = e
           /\ \A i \in 1..Len(s) : Append(s, e)[i] = s[i]
<1>1. /\ Append(s, e) \in Seq(S) /\ Len(s) \in Nat /\ Len(Append(s, e)) = Len(s) + 1
      /\ Append(s, e)[Len(s) + 1] = e
      /\ \A i \in 1..Len(s) : Append(s, e)[i] = s[i]
  BY AppendProperties, LenProperties
<1>2. Len(<<>>) = 0
  BY EmptySeq
<1> QED BY <1>1, <1>2 DEF Last

LEMMA LinkedTrim ==
    ASSUME NEW u \in Seq(Entry), NEW r, NEW list, NEW n \in Nat \ {0}, Linked(u, r, list)
    PROVE  Linked(Trim(u, n), r, list)
<1> DEFINE t == Trim(u, n)
           k == Len(u) - Len(t)
<1>1. /\ t \in Seq(Entry) /\ Len(t) \in Nat /\ Len(u) \in Nat /\ Len(t) <= Len(u)
      /\ \A i \in 1..Len(t) : k + i \in 1..Len(u) /\ t[i] = u[k + i]
  BY TrimProps, LenProperties
<1> HIDE DEF t
<1>2. k \in Nat /\ k + Len(t) = Len(u)
  BY ONLY <1>1
<1> HIDE DEF k
<1>3. ASSUME NEW i \in 1..(Len(t) - 1)
      PROVE  ConfigsOf(t[i].after) = ConfigsOf(t[i + 1].before)
  <2>1. i \in 1..Len(t) /\ i + 1 \in 1..Len(t) /\ k + i \in 1..(Len(u) - 1) /\ k + (i + 1) = (k + i) + 1
    BY ONLY <1>1, <1>2, <1>3
  <2>2. t[i] = u[k + i] /\ t[i + 1] = u[(k + i) + 1]
    BY ONLY <1>1, <2>1
  <2> QED BY <2>1, <2>2 DEF Linked
<1>4. ASSUME t # <<>> PROVE ConfigsOf(Last(t).after) = ConfigsOf(list)
  <2>1. Len(t) \in 1..Len(t)
    BY <1>1, <1>4, EmptySeq
  <2>2. t[Len(t)] = u[Len(u)]
    BY ONLY <1>1, <1>2, <2>1
  <2>3. u # <<>>
    BY <1>1, <2>1, EmptySeq
  <2> QED BY <2>2, <2>3 DEF Linked, Last
<1> QED BY <1>3, <1>4 DEF Linked, t

LEMMA LinkedAppend ==
    ASSUME NEW u \in Seq(Entry), NEW r, NEW list, NEW e \in Entry, Linked(u, r, list),
           ConfigsOf(e.before) = ConfigsOf(list)
    PROVE  /\ Linked(Append(u, e), <<>>, e.after)
           /\ r # <<>> /\ r \in Seq(Entry) /\ Last(r) = e =>
                 Linked(Append(u, e), Front(r), e.after)
<1> DEFINE a == Append(u, e)
<1>1. /\ a # <<>> /\ Len(u) \in Nat /\ Len(a) = Len(u) + 1 /\ Last(a) = e
      /\ a[Len(u) + 1] = e /\ \A i \in 1..Len(u) : a[i] = u[i]
  BY AppendProps
<1> HIDE DEF a
<1>2. ASSUME NEW i \in 1..(Len(a) - 1)
      PROVE  ConfigsOf(a[i].after) = ConfigsOf(a[i + 1].before)
  <2>1. i \in 1..Len(u)
    BY ONLY <1>1, <1>2
  <2>2. CASE i = Len(u)
    <3>1. a[i] = Last(u) /\ a[i + 1] = e /\ u # <<>>
      BY <1>1, <2>1, <2>2, EmptySeq DEF Last
    <3> QED BY <3>1 DEF Linked
  <2>3. CASE i # Len(u)
    <3>1. i \in 1..(Len(u) - 1) /\ i + 1 \in 1..Len(u)
      BY ONLY <1>1, <2>1, <2>3
    <3> QED BY <1>1, <2>1, <3>1 DEF Linked
  <2> QED BY <2>2, <2>3
<1>3. Linked(a, <<>>, e.after)
  <2>1. Len(<<>>) = 0 /\ 1..(0 - 1) = {}
    BY EmptySeq
  <2> QED BY <1>1, <1>2, <2>1 DEF Linked
<1>4. ASSUME r # <<>>, r \in Seq(Entry), Last(r) = e
      PROVE  Linked(a, Front(r), e.after)
  <2>1. /\ Len(r) \in Nat \ {0} /\ Last(r) = r[Len(r)] /\ Len(Front(r)) = Len(r) - 1
        /\ Front(r) \in Seq(Entry) /\ \A i \in 1..(Len(r) - 1) : Front(r)[i] = r[i]
    BY <1>4, FrontProps
  <2>2. ASSUME NEW i \in 1..(Len(Front(r)) - 1)
        PROVE  ConfigsOf(Front(r)[i + 1].after) = ConfigsOf(Front(r)[i].before)
    <3>1. i \in 1..(Len(r) - 1) /\ i + 1 \in 1..(Len(r) - 1)
      BY ONLY <2>1, <2>2
    <3> QED BY <2>1, <3>1 DEF Linked
  <2>3. ASSUME Front(r) # <<>>
        PROVE  ConfigsOf(Last(Front(r)).before) = ConfigsOf(e.after)
    <3>1. Len(Front(r)) # 0
      BY <2>1, <2>3, EmptySeq
    <3>2. Len(r) - 1 \in 1..(Len(r) - 1) /\ (Len(r) - 1) + 1 = Len(r)
      BY ONLY <2>1, <3>1
    <3>3. Last(Front(r)) = r[Len(r) - 1]
      BY <2>1, <3>2 DEF Last
    <3>4. ConfigsOf(r[Len(r)].after) = ConfigsOf(r[Len(r) - 1].before)
      BY <3>2 DEF Linked
    <3> QED BY <1>4, <2>1, <3>3, <3>4
  <2> QED BY <1>1, <1>2, <2>2, <2>3 DEF Linked
<1> QED BY <1>3, <1>4 DEF a

LEMMA LinkedUndo ==
    ASSUME NEW u \in Seq(Entry), NEW r \in Seq(Entry), NEW list, u # <<>>, Linked(u, r, list)
    PROVE  Linked(Front(u), Append(r, Last(u)), Last(u).before)
<1> DEFINE f == Front(u)
           e == Last(u)
           a == Append(r, e)
<1>1. /\ Len(u) \in Nat \ {0} /\ e = u[Len(u)] /\ e \in Entry
      /\ f \in Seq(Entry) /\ Len(f) = Len(u) - 1
      /\ \A i \in 1..(Len(u) - 1) : f[i] = u[i]
  BY FrontProps
<1>2. /\ a # <<>> /\ Len(r) \in Nat /\ Len(a) = Len(r) + 1 /\ Last(a) = e
      /\ a[Len(r) + 1] = e /\ \A i \in 1..Len(r) : a[i] = r[i]
  BY <1>1, AppendProps
<1>3. ConfigsOf(e.after) = ConfigsOf(list)
  BY DEF Linked
<1> HIDE DEF f, e, a
<1>4. ASSUME NEW i \in 1..(Len(f) - 1)
      PROVE  ConfigsOf(f[i].after) = ConfigsOf(f[i + 1].before)
  <2>1. i \in 1..(Len(u) - 1) /\ i + 1 \in 1..(Len(u) - 1)
    BY ONLY <1>1, <1>4
  <2> QED BY <1>1, <2>1 DEF Linked
<1>5. ASSUME f # <<>> PROVE ConfigsOf(Last(f).after) = ConfigsOf(e.before)
  <2>1. Len(f) # 0
    BY <1>1, <1>5, EmptySeq
  <2>2. Len(u) - 1 \in 1..(Len(u) - 1) /\ (Len(u) - 1) + 1 = Len(u)
    BY ONLY <1>1, <2>1
  <2>3. Last(f) = u[Len(u) - 1]
    BY <1>1, <2>2 DEF Last
  <2>4. ConfigsOf(u[Len(u) - 1].after) = ConfigsOf(u[Len(u)].before)
    BY <2>2 DEF Linked
  <2> QED BY <1>1, <2>3, <2>4
<1>6. ASSUME NEW i \in 1..(Len(a) - 1)
      PROVE  ConfigsOf(a[i + 1].after) = ConfigsOf(a[i].before)
  <2>1. i \in 1..Len(r)
    BY ONLY <1>2, <1>6
  <2>2. CASE i = Len(r)
    <3>1. a[i] = Last(r) /\ a[i + 1] = e /\ r # <<>>
      BY <1>2, <2>1, <2>2, EmptySeq DEF Last
    <3> QED BY <1>3, <3>1 DEF Linked
  <2>3. CASE i # Len(r)
    <3>1. i \in 1..(Len(r) - 1) /\ i + 1 \in 1..Len(r)
      BY ONLY <1>2, <2>1, <2>3
    <3> QED BY <1>2, <2>1, <3>1 DEF Linked
  <2> QED BY <2>2, <2>3
<1>7. Linked(f, a, e.before)
  BY <1>2, <1>4, <1>5, <1>6 DEF Linked
<1> QED BY <1>7 DEF f, e, a

-----------------------------------------------------------------------------
(* The invariant. *)

LEMMA TimelineIs == OneTimeline <=> (~profiled => Linked(undo, redo, devices))
BY DEF OneTimeline, Linked

\* A push of one entry, whose before is what the history ends with.
LEMMA PushStep ==
    ASSUME TypeOK, NEW before \in DeviceList, NEW after \in DeviceList, Push(before, after)
    PROVE  /\ undo' \in Seq(Entry) /\ redo' \in Seq(Entry) /\ Len(undo') + Len(redo') <= MaxDepth
           /\ Linked(undo, redo, devices) /\ ConfigsOf(before) = ConfigsOf(devices) =>
                 Linked(undo', redo', after)
<1> DEFINE e == [before |-> before, after |-> after]
<1>1. e \in Entry /\ undo \in Seq(Entry) /\ redo \in Seq(Entry) /\ depth \in Nat \ {0}
      /\ depth <= MaxDepth /\ MaxDepth \in Nat
  BY DeviceAssumption DEF TypeOK, Entry
<1>2. undo' = Trim(Append(undo, e), depth) /\ redo' = <<>>
  BY DEF Push
<1>3. e.before = before /\ e.after = after
  OBVIOUS
<1> HIDE DEF e
<1>4. Append(undo, e) \in Seq(Entry)
  BY <1>1, AppendProps
<1>5. undo' \in Seq(Entry) /\ Len(undo') \in Nat /\ Len(undo') <= depth
  BY <1>1, <1>2, <1>4, TrimProps
<1>6. redo' \in Seq(Entry) /\ Len(redo') = 0
  BY <1>2, EmptySeq
<1>7. Len(undo') + Len(redo') <= MaxDepth
  BY ONLY <1>1, <1>5, <1>6
<1>8. ASSUME Linked(undo, redo, devices), ConfigsOf(before) = ConfigsOf(devices)
      PROVE  Linked(undo', redo', after)
  <2>1. Linked(Append(undo, e), <<>>, after)
    BY <1>1, <1>3, <1>8, LinkedAppend
  <2> QED BY <1>1, <1>2, <1>4, <2>1, LinkedTrim
<1> QED BY <1>5, <1>6, <1>7, <1>8

LEMMA HistoryStarts == Init => HistoryInv
<1> SUFFICES ASSUME Init PROVE HistoryInv
  OBVIOUS
<1>1. << >> \in [{} -> Device]
  OBVIOUS
<1>2. devices \in DeviceList
  BY <1>1, IsList DEF Init
<1>3. undo \in Seq(Entry) /\ redo \in Seq(Entry) /\ Len(undo) = 0 /\ Len(redo) = 0
  BY EmptySeq DEF Init
<1>4. MaxDepth \in 1..MaxDepth /\ 0 + 0 <= MaxDepth
  BY DeviceAssumption
<1>5. TypeOK /\ HistoryBounded
  BY <1>2, <1>3, <1>4 DEF Init, TypeOK, HistoryBounded
<1>6. OneTimeline
  <2>1. 1..(0 - 1) = {}
    OBVIOUS
  <2> QED BY <1>3, <2>1 DEF Init, OneTimeline
<1> QED BY <1>5, <1>6 DEF Init, HistoryInv, HistoryIsTrue, BaselineFresh, BaselineKept

\* A list that differs in the statuses only, or not at all.
LEMMA LinkedSame ==
    ASSUME NEW u, NEW r, NEW a, NEW b, ConfigsOf(a) = ConfigsOf(b), Linked(u, r, a)
    PROVE  Linked(u, r, b)
BY DEF Linked

LEMMA LinkedEmpty == ASSUME NEW list PROVE Linked(<<>>, <<>>, list)
<1>1. Len(<<>>) = 0 /\ 1..(0 - 1) = {}
  BY EmptySeq
<1> QED BY <1>1 DEF Linked

\* What a step leaves to be shown, when it changes the list and the stacks.
LEMMA HistoryBy ==
    ASSUME devices' \in DeviceList, undo' \in Seq(Entry), redo' \in Seq(Entry),
           Len(undo') + Len(redo') <= MaxDepth, depth' \in 1..MaxDepth,
           selected' \in DOMAIN devices' \cup {NoDevice}, baseline' \in Device \cup {NoDevice},
           busy' \in SUBSET Ids, profiled' \in BOOLEAN,
           ~profiled' => Linked(undo', redo', devices'),
           selected' # NoDevice => baseline' \in Device,
           selected' # NoDevice /\ ~profiled' => baseline'.config = devices'[selected'].config
    PROVE  HistoryInv'
<1>1. TypeOK'
  BY DEF TypeOK
<1>2. OneTimeline'
  BY DEF OneTimeline, Linked
<1> QED
  BY <1>1, <1>2 DEF HistoryInv, HistoryIsTrue, HistoryBounded, BaselineFresh, BaselineKept

LEMMA HistoryStep ==
    ASSUME HistoryInv, [Next]_vars
    PROVE  HistoryInv'
<1>1. /\ TypeOK /\ Len(undo) + Len(redo) <= MaxDepth
      /\ ~profiled => Linked(undo, redo, devices)
      /\ selected # NoDevice => baseline \in Device
      /\ selected # NoDevice /\ ~profiled => baseline.config = devices[selected].config
  BY TimelineIs DEF HistoryInv, HistoryIsTrue, HistoryBounded, BaselineFresh, BaselineKept
<1>2. /\ devices \in DeviceList /\ undo \in Seq(Entry) /\ redo \in Seq(Entry)
      /\ depth \in 1..MaxDepth /\ selected \in DOMAIN devices \cup {NoDevice}
      /\ baseline \in Device \cup {NoDevice} /\ busy \in SUBSET Ids /\ profiled \in BOOLEAN
      /\ Present = DOMAIN devices
  BY <1>1 DEF TypeOK, Present
<1>3. /\ DOMAIN devices \in SUBSET Ids /\ devices \in [DOMAIN devices -> Device]
      /\ NoDevice \notin DOMAIN devices
  BY <1>2, Lists, DeviceAssumption
<1>4. /\ Len(undo) \in Nat /\ Len(redo) \in Nat /\ MaxDepth \in Nat \ {0}
      /\ (undo # <<>> => Len(undo) # 0) /\ (redo # <<>> => Len(redo) # 0)
  BY <1>2, EmptySeq, LenProperties, DeviceAssumption
\* An operation that pushes the list and drops the selection.
<1>5. ASSUME devices' \in DeviceList, Push(devices, devices'),
             UNCHANGED <<depth, busy, profiled>>,
             selected' \in DOMAIN devices' \cup {NoDevice},
             baseline' \in Device \cup {NoDevice},
             selected' # NoDevice => baseline' \in Device /\ baseline' = devices'[selected']
      PROVE  HistoryInv'
  <2>1. /\ undo' \in Seq(Entry) /\ redo' \in Seq(Entry) /\ Len(undo') + Len(redo') <= MaxDepth
        /\ ~profiled => Linked(undo', redo', devices')
    BY <1>1, <1>2, <1>5, PushStep
  <2>2. depth' \in 1..MaxDepth /\ busy' \in SUBSET Ids /\ profiled' \in BOOLEAN
        /\ profiled' = profiled
    BY <1>2, <1>5
  <2> QED BY <1>5, <2>1, <2>2, HistoryBy
<1>6. ASSUME NEW S \in (SUBSET Unused) \ {{}}, NEW new \in [S -> Configs], AddDevices(new)
      PROVE  HistoryInv'
  <2>1. S \subseteq Ids /\ DOMAIN new = S
    BY <1>6 DEF Unused
  <2>2. devices' \in [DOMAIN devices \cup S -> Device]
    BY <1>2, <1>3, <1>6, <2>1 DEF AddDevices, Device
  <2>3. devices' \in DeviceList
    BY <1>3, <2>1, <2>2, IsList
  <2> QED BY <1>5, <1>6, <2>3 DEF AddDevices, Deselect
<1>7. ASSUME NEW out \in SUBSET Present, RemoveDevices(out)
      PROVE  HistoryInv'
  <2>1. devices' = [d \in DOMAIN devices \ out |-> devices[d]]
    BY <1>2, <1>7 DEF RemoveDevices, Restrict
  <2>2. devices' \in [DOMAIN devices \ out -> Device] /\ DOMAIN devices' = DOMAIN devices \ out
    BY <1>3, <2>1
  <2>3. devices' \in DeviceList
    BY <1>3, <2>2, IsList
  <2>4. CASE Deselect
    BY <1>5, <1>7, <2>3, <2>4 DEF RemoveDevices, Deselect
  <2>5. CASE \E d \in Present \ out : selected' = d /\ baseline' = devices[d]
    <3>1. PICK d \in DOMAIN devices \ out : selected' = d /\ baseline' = devices[d]
      BY <1>2, <2>5
    <3>2. baseline' \in Device /\ baseline' = devices'[selected'] /\ selected' \in DOMAIN devices'
      BY <1>3, <2>1, <2>2, <3>1
    <3> QED BY <1>5, <1>7, <2>3, <3>2 DEF RemoveDevices
  <2> QED BY <1>7, <2>4, <2>5 DEF RemoveDevices
<1>8. ASSUME NEW targets \in SUBSET Present, NEW value \in Configs, BatchEdit(targets, value)
      PROVE  HistoryInv'
  <2>1. devices' \in [DOMAIN devices -> Device]
    BY <1>2, <1>3, <1>8 DEF BatchEdit, Device
  <2>2. devices' \in DeviceList
    BY <1>3, <2>1, IsList
  <2> QED BY <1>5, <1>8, <2>2 DEF BatchEdit, Deselect
<1>9. CASE UndoEdit
  <2> DEFINE e == Last(undo)
  <2>1. /\ Len(undo) # 0 /\ e \in Entry /\ Front(undo) \in Seq(Entry)
        /\ Len(Front(undo)) = Len(undo) - 1
    BY <1>2, <1>4, <1>9, FrontProps DEF UndoEdit
  <2>2. Append(redo, e) \in Seq(Entry) /\ Len(Append(redo, e)) = Len(redo) + 1
    BY <1>2, <2>1, AppendProps
  <2>3. ~profiled => Linked(Front(undo), Append(redo, e), e.before)
    BY <1>1, <1>2, <1>9, LinkedUndo DEF UndoEdit
  <2>4. devices' = e.before /\ redo' = Append(redo, e) /\ undo' = Front(undo)
        /\ selected' = NoDevice /\ baseline' = NoDevice
        /\ depth' = depth /\ busy' = busy /\ profiled' = profiled
    BY <1>9 DEF UndoEdit, Deselect
  <2>5. e.before \in DeviceList
    BY <2>1 DEF Entry
  <2> HIDE DEF e
  <2>6. Len(undo') + Len(redo') <= MaxDepth
    BY <1>1, <1>4, <2>1, <2>2, <2>4
  <2> QED BY <1>2, <2>1, <2>2, <2>3, <2>4, <2>5, <2>6, HistoryBy
<1>10. CASE RedoEdit
  <2> DEFINE e == Last(redo)
  <2>1. /\ Len(redo) # 0 /\ e \in Entry /\ Front(redo) \in Seq(Entry)
        /\ Len(Front(redo)) = Len(redo) - 1 /\ redo # <<>>
    BY <1>2, <1>4, <1>10, FrontProps DEF RedoEdit
  <2>2. Append(undo, e) \in Seq(Entry) /\ Len(Append(undo, e)) = Len(undo) + 1
    BY <1>2, <2>1, AppendProps
  <2>3. ~profiled => Linked(Append(undo, e), Front(redo), e.after)
    <3>1. ~profiled => ConfigsOf(e.before) = ConfigsOf(devices)
      BY <1>1, <2>1 DEF Linked
    <3> QED BY <1>1, <1>2, <2>1, <3>1, LinkedAppend
  <2>4. devices' = e.after /\ undo' = Append(undo, e) /\ redo' = Front(redo)
        /\ selected' = NoDevice /\ baseline' = NoDevice
        /\ depth' = depth /\ busy' = busy /\ profiled' = profiled
    BY <1>10 DEF RedoEdit, RedoSnapshot, Deselect
  <2>5. e.after \in DeviceList
    BY <2>1 DEF Entry
  <2> HIDE DEF e
  <2>6. Len(undo') + Len(redo') <= MaxDepth
    BY <1>1, <1>4, <2>1, <2>2, <2>4
  <2> QED BY <1>2, <2>1, <2>2, <2>3, <2>4, <2>5, <2>6, HistoryBy
<1>11. ASSUME NEW n \in 1..MaxDepth, SetDepth(n)
       PROVE  HistoryInv'
  <2>1. n \in Nat \ {0}
    BY <1>4
  <2>2. Trim(undo, n) \in Seq(Entry) /\ Len(Trim(undo, n)) \in Nat
        /\ Len(Trim(undo, n)) <= Len(undo)
    BY <1>2, <2>1, TrimProps
  <2>3. ~profiled => Linked(Trim(undo, n), redo, devices)
    BY <1>1, <1>2, <2>1, LinkedTrim
  <2>4. /\ depth' = n /\ undo' = Trim(undo, n) /\ devices' = devices /\ redo' = redo
        /\ selected' = selected /\ baseline' = baseline /\ busy' = busy /\ profiled' = profiled
    BY <1>11 DEF SetDepth
  <2>5. Len(undo') + Len(redo') <= MaxDepth
    BY <1>1, <1>4, <2>2, <2>4
  <2> QED BY <1>1, <1>2, <2>2, <2>3, <2>4, <2>5, HistoryBy
<1>12. ASSUME NEW list \in LoadedLists, SetProject(list)
       PROVE  HistoryInv'
  <2>1. list \in DeviceList
    BY IsList DEF LoadedLists, Device, DeviceList
  <2>2. /\ devices' = list /\ undo' = <<>> /\ redo' = <<>> /\ selected' = NoDevice
        /\ baseline' = NoDevice /\ profiled' = FALSE /\ depth' = depth /\ busy' = busy
    BY <1>12 DEF SetProject, Deselect
  <2>3. undo' \in Seq(Entry) /\ redo' \in Seq(Entry) /\ Len(undo') + Len(redo') <= MaxDepth
    BY <1>4, <2>2, EmptySeq
  <2>4. Linked(undo', redo', devices')
    BY <2>2, LinkedEmpty
  <2> QED BY <1>2, <2>1, <2>2, <2>3, <2>4, HistoryBy
\* A step that leaves the history alone and the settings of the list too.
<1>13. ASSUME devices' \in DeviceList, ~profiled' => ConfigsOf(devices') = ConfigsOf(devices),
              UNCHANGED <<undo, redo, depth>>, profiled => profiled', profiled' \in BOOLEAN,
              busy' \in SUBSET Ids,
              selected' \in DOMAIN devices' \cup {NoDevice}, baseline' \in Device \cup {NoDevice},
              selected' # NoDevice => baseline' \in Device,
              selected' # NoDevice /\ ~profiled' => baseline'.config = devices'[selected'].config
       PROVE  HistoryInv'
  <2>1. ~profiled' => Linked(undo', redo', devices')
    BY <1>1, <1>13, LinkedSame
  <2> QED BY <1>1, <1>2, <1>13, <2>1, HistoryBy
<1>14. ASSUME NEW d \in Present \cup {NoDevice}, Select(d)
       PROVE  HistoryInv'
  BY <1>2, <1>3, <1>13, <1>14 DEF Select
<1>15. ASSUME NEW value \in Configs, PanelEdit(value)
       PROVE  HistoryInv'
  <2>1. /\ selected # NoDevice /\ selected \in DOMAIN devices /\ baseline \in Device
        /\ devices' = [devices EXCEPT ![selected].config = value]
        /\ baseline' = devices'[selected] /\ selected' = selected
        /\ depth' = depth /\ busy' = busy /\ profiled' = profiled
    BY <1>1, <1>2, <1>15 DEF PanelEdit, NextBaseline
  <2>2. /\ devices' \in [DOMAIN devices -> Device] /\ DOMAIN devices' = DOMAIN devices
        /\ devices'[selected].config = value
        /\ \A d \in DOMAIN devices \ {selected} : devices'[d] = devices[d]
    BY <1>3, <2>1 DEF Device
  <2>3. devices' \in DeviceList /\ baseline' \in Device
    BY <1>3, <2>1, <2>2, IsList
  <2>4. CASE value = baseline.config
    <3>1. UNCHANGED <<undo, redo>>
      BY <1>15, <2>4 DEF PanelEdit
    <3>2. ~profiled => ConfigsOf(devices') = ConfigsOf(devices)
      BY <1>1, <1>2, <2>1, <2>2, <2>3, <2>4, SameConfigs
    <3> QED BY <1>2, <1>13, <2>1, <2>2, <2>3, <3>1, <3>2
  <2>5. CASE value # baseline.config
    <3> DEFINE before == [devices' EXCEPT ![selected] = baseline]
    <3>1. Push(before, devices')
      BY <1>15, <2>5 DEF PanelEdit
    <3>2. before \in [DOMAIN devices -> Device] /\ before[selected] = baseline
          /\ DOMAIN before = DOMAIN devices
          /\ \A d \in DOMAIN devices \ {selected} : before[d] = devices[d]
      BY <2>1, <2>2
    <3> HIDE DEF before
    <3>3. before \in DeviceList
      BY <1>3, <3>2, IsList
    <3>4. ~profiled => ConfigsOf(before) = ConfigsOf(devices)
      BY <1>1, <1>2, <2>1, <3>2, <3>3, SameConfigs
    <3>5. /\ undo' \in Seq(Entry) /\ redo' \in Seq(Entry) /\ Len(undo') + Len(redo') <= MaxDepth
          /\ ~profiled => Linked(undo', redo', devices')
      BY <1>1, <2>3, <3>1, <3>3, <3>4, PushStep
    <3> QED BY <1>2, <2>1, <2>2, <2>3, <3>5, HistoryBy
  <2> QED BY <2>4, <2>5
<1>16. ASSUME NEW value \in Configs, ApplyProfile(value)
       PROVE  HistoryInv'
  <2>1. /\ selected \in DOMAIN devices
        /\ devices' = [devices EXCEPT ![selected].config = value]
        /\ profiled' = TRUE /\ UNCHANGED <<undo, redo, depth, selected, baseline, busy>>
    BY <1>2, <1>16 DEF ApplyProfile
  <2>2. devices' \in [DOMAIN devices -> Device] /\ DOMAIN devices' = DOMAIN devices
    BY <1>3, <2>1 DEF Device
  <2>3. devices' \in DeviceList
    BY <1>3, <2>2, IsList
  <2> QED BY <1>1, <1>2, <1>13, <2>1, <2>2, <2>3
\* A flash begins or ends: only the status of a device changes.
<1>17. ASSUME NEW d \in DOMAIN devices, NEW status \in {"Idle", "Active"},
              devices' = [devices EXCEPT ![d].status = status], busy' \in SUBSET Ids,
              UNCHANGED <<undo, redo, depth, selected, baseline, profiled>>
       PROVE  HistoryInv'
  <2>1. /\ devices' \in [DOMAIN devices -> Device] /\ DOMAIN devices' = DOMAIN devices
        /\ \A x \in DOMAIN devices : devices'[x].config = devices[x].config
    BY <1>3, <1>17 DEF Device
  <2>2. devices' \in DeviceList
    BY <1>3, <2>1, IsList
  <2>3. ConfigsOf(devices') = ConfigsOf(devices)
    BY <1>2, <2>1, <2>2, SameConfigs
  <2> QED BY <1>1, <1>2, <1>13, <1>17, <2>1, <2>2, <2>3
<1>18. ASSUME NEW d \in Present, StartFlash(d)
       PROVE  HistoryInv'
  BY <1>2, <1>3, <1>17, <1>18 DEF StartFlash
<1>19. ASSUME NEW d \in busy, EndFlash(d)
       PROVE  HistoryInv'
  <2>1. CASE d \in Present
    BY <1>2, <1>3, <1>17, <1>19, <2>1 DEF EndFlash
  <2>2. CASE d \notin Present
    BY <1>1, <1>2, <1>13, <1>19, <2>2 DEF EndFlash
  <2> QED BY <2>1, <2>2
<1>20. CASE UNCHANGED vars
  BY <1>1, <1>2, <1>13, <1>20 DEF vars
<1> QED
  BY <1>6, <1>7, <1>8, <1>9, <1>10, <1>11, <1>12, <1>14, <1>15, <1>16, <1>18, <1>19, <1>20 DEF Next

LEMMA HistoryAlways == Spec => []HistoryInv
BY HistoryStarts, HistoryStep, PTL DEF Spec

\* The history is the user's own edits, whatever is added, removed, edited,
\* undone and redone, and however the depth changes: each entry starts where
\* the one before it ended, the next edit will be compared with what the panels
\* show, and undo and redo stay within the depth (until a profile is applied).
THEOREM HistoryStaysTrue == Spec => []HistoryIsTrue
<1>1. HistoryInv => HistoryIsTrue
  BY DEF HistoryInv
<1> QED BY <1>1, HistoryAlways, PTL

\* No operation but undo, redo and another project removes a device that is
\* being flashed, or changes its settings behind the panel that shows it.
THEOREM BusyAreSpared == Spec => BusySpared
<1>1. ASSUME HistoryInv, [Next]_vars,
             ~(UndoEdit \/ RedoEdit \/ (\E list \in LoadedLists : SetProject(list)))
      PROVE  \A d \in busy \cap Present :
                /\ d \in Present'
                /\ devices'[d].config # devices[d].config => d = selected
  <2>1. devices \in DeviceList /\ Present = DOMAIN devices /\ Present' = DOMAIN devices'
        /\ selected \in DOMAIN devices \cup {NoDevice}
    BY <1>1 DEF HistoryInv, HistoryIsTrue, HistoryBounded, TypeOK, Present
  <2>2. devices \in [DOMAIN devices -> Device]
    BY <2>1, Lists
  <2> SUFFICES ASSUME NEW d \in busy \cap DOMAIN devices
               PROVE  /\ d \in DOMAIN devices'
                      /\ devices'[d].config # devices[d].config => d = selected
    BY <2>1
  <2>3. ASSUME devices' = devices
        PROVE  /\ d \in DOMAIN devices'
               /\ devices'[d].config # devices[d].config => d = selected
    BY <2>3
  <2>4. ASSUME NEW S, NEW new \in [S -> Configs], AddDevices(new)
        PROVE  /\ d \in DOMAIN devices'
               /\ devices'[d].config # devices[d].config => d = selected
    BY <2>1, <2>4 DEF AddDevices
  <2>5. ASSUME NEW out, RemoveDevices(out)
        PROVE  /\ d \in DOMAIN devices'
               /\ devices'[d].config # devices[d].config => d = selected
    BY <2>1, <2>5 DEF RemoveDevices, Restrict
  <2>6. ASSUME NEW targets, NEW value, BatchEdit(targets, value)
        PROVE  /\ d \in DOMAIN devices'
               /\ devices'[d].config # devices[d].config => d = selected
    BY <2>1, <2>6 DEF BatchEdit, Editable
  <2>7. ASSUME NEW value, PanelEdit(value) \/ ApplyProfile(value)
        PROVE  /\ d \in DOMAIN devices'
               /\ devices'[d].config # devices[d].config => d = selected
    BY <2>1, <2>2, <2>7 DEF PanelEdit, ApplyProfile
  <2>8. ASSUME NEW x, StartFlash(x) \/ EndFlash(x)
        PROVE  /\ d \in DOMAIN devices'
               /\ devices'[d].config # devices[d].config => d = selected
    <3>1. devices' = devices \/ devices' = [devices EXCEPT ![x].status = "Active"]
          \/ devices' = [devices EXCEPT ![x].status = "Idle"]
      BY <2>8 DEF StartFlash, EndFlash
    <3>2. DOMAIN devices' = DOMAIN devices /\ devices'[d].config = devices[d].config
      BY <2>2, <3>1 DEF Device
    <3> QED BY <3>2
  <2>9. ASSUME NEW x, SetDepth(x) \/ Select(x) \/ UNCHANGED vars
        PROVE  /\ d \in DOMAIN devices'
               /\ devices'[d].config # devices[d].config => d = selected
    BY <2>3, <2>9 DEF SetDepth, Select, vars
  <2> QED BY <1>1, <2>4, <2>5, <2>6, <2>7, <2>8, <2>9 DEF Next
<1> QED BY <1>1, HistoryAlways, PTL DEF Spec, BusySpared

-----------------------------------------------------------------------------
(* The line of states that the history stands for. *)

States == UNION {[S -> Configs] : S \in SUBSET Ids}
Past(u) == [i \in 1..Len(u) |-> ConfigsOf(u[i].before)]
Future(r) == [i \in 1..Len(r) |-> ConfigsOf(r[Len(r) + 1 - i].after)]

LEMMA LineTypes ==
    ASSUME NEW u \in Seq(Entry)
    PROVE  /\ Past(u) \in Seq(States) /\ Future(u) \in Seq(States)
           /\ Len(Past(u)) = Len(u) /\ Len(Future(u)) = Len(u) /\ Len(u) \in Nat
<1>1. Len(u) \in Nat
  BY LenProperties
<1>2. \A i \in 1..Len(u) : u[i] \in Entry /\ Len(u) + 1 - i \in 1..Len(u)
  BY <1>1, ElementOfSeq
<1>3. \A e \in Entry : ConfigsOf(e.before) \in States /\ ConfigsOf(e.after) \in States
  BY Lists DEF Entry, States
<1>4. Past(u) \in [1..Len(u) -> States] /\ Future(u) \in [1..Len(u) -> States]
  BY <1>2, <1>3 DEF Past, Future
<1> QED BY <1>1, <1>4

LEMMA PastTrim ==
    ASSUME NEW u \in Seq(Entry), NEW n \in Nat \ {0}
    PROVE  \E k \in 0..Len(u) :
              /\ u # <<>> => k # 0
              /\ Past(Trim(u, n)) = Line!LastOf(Past(u), k)
<1> DEFINE t == Trim(u, n)
           k == Len(t)
           s == Line!LastOf(Past(u), k)
<1>1. /\ t \in Seq(Entry) /\ k \in Nat /\ k <= Len(u) /\ Len(u) \in Nat /\ (u # <<>> => k # 0)
      /\ \A i \in 1..k : Len(u) - k + i \in 1..Len(u) /\ t[i] = u[Len(u) - k + i]
  BY TrimProps, LenProperties
<1> HIDE DEF t, k
<1>2. Past(u) \in Seq(States) /\ Len(Past(u)) = Len(u) /\ Past(t) \in Seq(States) /\ Len(Past(t)) = k
  BY <1>1, LineTypes DEF k
<1>3. s = SubSeq(Past(u), Len(u) - k + 1, Len(u))
  BY <1>2 DEF Line!LastOf
<1>4. /\ s \in Seq(States) /\ Len(s) = k
      /\ \A i \in 1..k : s[i] = Past(u)[Len(u) - k + i]
  <2> DEFINE m == Len(u) - k + 1
  <2>1. m \in Int /\ Len(u) \in Int /\ (m <= Len(u) => Len(u) - m + 1 = k) /\ (~(m <= Len(u)) => k = 0)
        /\ Len(u) - m + 1 = k /\ \A i \in 1..k : m + i - 1 = Len(u) - k + i
    BY ONLY <1>1
  <2>2. \A i \in m..Len(u) : i \in 1..Len(u)
    BY ONLY <1>1
  <2>3. \A i \in m..Len(u) : Past(u)[i] \in States
    BY <1>2, <2>2, ElementOfSeq
  <2> HIDE DEF m
  <2>4. /\ SubSeq(Past(u), m, Len(u)) \in Seq(States)
        /\ Len(SubSeq(Past(u), m, Len(u))) = IF m <= Len(u) THEN Len(u) - m + 1 ELSE 0
        /\ \A i \in 1..(Len(u) - m + 1) : SubSeq(Past(u), m, Len(u))[i] = Past(u)[m + i - 1]
    BY <2>1, <2>3, SubSeqProperties
  <2>5. s = SubSeq(Past(u), m, Len(u))
    BY <1>3 DEF m
  <2> QED BY <2>1, <2>4, <2>5
<1> HIDE DEF s
<1>5. \A i \in 1..k : Past(t)[i] = s[i]
  BY <1>1, <1>2, <1>4 DEF Past, k
<1>6. Past(t) = s
  BY <1>2, <1>4, <1>5, SeqEqual
<1>7. k \in 0..Len(u)
  BY <1>1
<1> QED BY <1>1, <1>6, <1>7 DEF s, t

LEMMA PastAppend ==
    ASSUME NEW u \in Seq(Entry), NEW e \in Entry
    PROVE  Past(Append(u, e)) = Append(Past(u), ConfigsOf(e.before))
<1> DEFINE a == Append(u, e)
           b == Append(Past(u), ConfigsOf(e.before))
<1>1. /\ a \in Seq(Entry) /\ Len(u) \in Nat /\ Len(a) = Len(u) + 1
      /\ a[Len(u) + 1] = e /\ \A i \in 1..Len(u) : a[i] = u[i]
  BY AppendProps
<1>2. ConfigsOf(e.before) \in States /\ Past(u) \in Seq(States) /\ Len(Past(u)) = Len(u)
  BY Lists, LineTypes DEF Entry, States
<1>3. /\ b \in Seq(States) /\ Len(b) = Len(u) + 1
      /\ b[Len(u) + 1] = ConfigsOf(e.before) /\ \A i \in 1..Len(u) : b[i] = Past(u)[i]
  BY <1>2, AppendProps
<1>4. Past(a) \in Seq(States) /\ Len(Past(a)) = Len(u) + 1
  BY <1>1, LineTypes
<1> HIDE DEF a, b
<1>5. ASSUME NEW i \in 1..(Len(u) + 1) PROVE Past(a)[i] = b[i]
  <2>1. Past(a)[i] = ConfigsOf(a[i].before)
    BY <1>1 DEF Past
  <2>2. CASE i = Len(u) + 1
    BY <1>1, <1>3, <2>1, <2>2
  <2>3. CASE i # Len(u) + 1
    <3>1. i \in 1..Len(u)
      BY <1>1, <2>3
    <3> QED BY <1>1, <1>3, <2>1, <3>1 DEF Past
  <2> QED BY <2>2, <2>3
<1>6. Past(a) = b
  BY <1>3, <1>4, <1>5, SeqEqual
<1> QED BY <1>6 DEF a, b

LEMMA PastFront ==
    ASSUME NEW u \in Seq(Entry), u # <<>>
    PROVE  /\ Past(Front(u)) = SubSeq(Past(u), 1, Len(Past(u)) - 1)
           /\ Past(u)[Len(Past(u))] = ConfigsOf(Last(u).before)
           /\ Past(u) # <<>>
<1>1. /\ Len(u) \in Nat \ {0} /\ Last(u) = u[Len(u)]
      /\ Front(u) \in Seq(Entry) /\ Len(Front(u)) = Len(u) - 1
      /\ \A i \in 1..(Len(u) - 1) : Front(u)[i] = u[i]
  BY FrontProps
<1>2. Past(u) \in Seq(States) /\ Len(Past(u)) = Len(u) /\ Past(u) # <<>>
  BY <1>1, LineTypes, EmptySeq
<1>3. /\ Front(Past(u)) \in Seq(States) /\ Len(Front(Past(u))) = Len(u) - 1
      /\ \A i \in 1..(Len(u) - 1) : Front(Past(u))[i] = Past(u)[i]
  BY <1>2, FrontProps
<1>4. Past(Front(u)) \in Seq(States) /\ Len(Past(Front(u))) = Len(u) - 1
  BY <1>1, LineTypes
<1>5. ASSUME NEW i \in 1..(Len(u) - 1) PROVE Past(Front(u))[i] = Front(Past(u))[i]
  <2>1. i \in 1..Len(u)
    BY <1>1
  <2> QED BY <1>1, <1>3, <2>1 DEF Past
<1>6. Past(Front(u)) = Front(Past(u))
  BY <1>3, <1>4, <1>5, SeqEqual
<1>7. Past(u)[Len(u)] = ConfigsOf(Last(u).before)
  BY <1>1 DEF Past
<1> QED BY <1>2, <1>6, <1>7 DEF Front

LEMMA FutureAppend ==
    ASSUME NEW r \in Seq(Entry), NEW e \in Entry
    PROVE  Future(Append(r, e)) = <<ConfigsOf(e.after)>> \o Future(r)
<1> DEFINE a == Append(r, e)
           h == <<ConfigsOf(e.after)>>
           b == h \o Future(r)
<1>1. /\ a \in Seq(Entry) /\ Len(r) \in Nat /\ Len(a) = Len(r) + 1
      /\ a[Len(r) + 1] = e /\ \A i \in 1..Len(r) : a[i] = r[i]
  BY AppendProps
<1>2. h \in Seq(States) /\ Len(h) = 1 /\ h[1] = ConfigsOf(e.after)
  BY Lists DEF Entry, States
<1>3. Future(r) \in Seq(States) /\ Len(Future(r)) = Len(r)
  BY LineTypes
<1>4. Future(a) \in Seq(States) /\ Len(Future(a)) = Len(r) + 1
  BY <1>1, LineTypes
<1> HIDE DEF a, h
<1>5. /\ b \in Seq(States) /\ Len(b) = 1 + Len(r)
      /\ \A i \in 1..(1 + Len(r)) : b[i] = IF i <= 1 THEN h[i] ELSE Future(r)[i - 1]
  <2>1. /\ b \in Seq(States) /\ Len(b) = Len(h) + Len(Future(r))
        /\ \A i \in 1..(Len(h) + Len(Future(r))) :
              b[i] = IF i <= Len(h) THEN h[i] ELSE Future(r)[i - Len(h)]
    BY ONLY <1>2, <1>3, ConcatProperties
  <2> HIDE DEF b
  <2> QED BY ONLY <1>2, <1>3, <2>1
<1> HIDE DEF b
<1>6. ASSUME NEW i \in 1..(Len(r) + 1) PROVE Future(a)[i] = b[i]
  <2>1. Future(a)[i] = ConfigsOf(a[Len(r) + 1 + 1 - i].after)
    BY <1>1 DEF Future
  <2>2. CASE i = 1
    <3>1. Len(r) + 1 + 1 - i = Len(r) + 1 /\ i \in 1..(1 + Len(r))
      BY <1>1, <2>2
    <3> QED BY <1>1, <1>2, <1>5, <2>1, <2>2, <3>1
  <2>3. CASE i # 1
    <3>1. /\ i - 1 \in 1..Len(r) /\ Len(r) + 1 + 1 - i \in 1..Len(r) /\ ~(i <= 1)
          /\ Len(r) + 1 - (i - 1) = Len(r) + 1 + 1 - i /\ i \in 1..(1 + Len(r))
      BY <1>1, <2>3
    <3>2. Future(r)[i - 1] = ConfigsOf(r[Len(r) + 1 + 1 - i].after)
      BY <3>1 DEF Future
    <3> QED BY <1>1, <1>5, <2>1, <3>1, <3>2
  <2> QED BY <2>2, <2>3
<1>7. Len(b) = Len(r) + 1
  BY <1>1, <1>5
<1>8. Future(a) = b
  BY <1>4, <1>5, <1>6, <1>7, SeqEqual
<1> QED BY <1>8 DEF a, b, h

LEMMA FutureFront ==
    ASSUME NEW r \in Seq(Entry), r # <<>>
    PROVE  /\ Future(Front(r)) = Tail(Future(r))
           /\ Head(Future(r)) = ConfigsOf(Last(r).after)
           /\ Future(r) # <<>>
<1>1. /\ Len(r) \in Nat \ {0} /\ Last(r) = r[Len(r)]
      /\ Front(r) \in Seq(Entry) /\ Len(Front(r)) = Len(r) - 1
      /\ \A i \in 1..(Len(r) - 1) : Front(r)[i] = r[i]
  BY FrontProps
<1>2. Future(r) \in Seq(States) /\ Len(Future(r)) = Len(r) /\ Future(r) # <<>>
  BY <1>1, LineTypes, EmptySeq
<1>3. /\ Tail(Future(r)) \in Seq(States) /\ Len(Tail(Future(r))) = Len(r) - 1
      /\ \A i \in 1..(Len(r) - 1) : Tail(Future(r))[i] = Future(r)[i + 1]
      /\ Head(Future(r)) = Future(r)[1]
  BY <1>2, HeadTailProperties
<1>4. Future(Front(r)) \in Seq(States) /\ Len(Future(Front(r))) = Len(r) - 1
  BY <1>1, LineTypes
<1>5. ASSUME NEW i \in 1..(Len(r) - 1) PROVE Future(Front(r))[i] = Tail(Future(r))[i]
  <2>1. /\ i + 1 \in 1..Len(r) /\ Len(r) - 1 + 1 - i \in 1..(Len(r) - 1)
        /\ Len(r) + 1 - (i + 1) = Len(r) - 1 + 1 - i
    BY <1>1
  <2>2. Future(Front(r))[i] = ConfigsOf(Front(r)[Len(r) - 1 + 1 - i].after)
    BY <1>1 DEF Future
  <2>3. Future(r)[i + 1] = ConfigsOf(r[Len(r) - 1 + 1 - i].after)
    BY <2>1 DEF Future
  <2> QED BY <1>1, <1>3, <2>1, <2>2, <2>3
<1>6. Future(Front(r)) = Tail(Future(r))
  BY <1>3, <1>4, <1>5, SeqEqual
<1>7. Future(r)[1] = ConfigsOf(Last(r).after)
  <2>1. 1 \in 1..Len(r) /\ Len(r) + 1 - 1 = Len(r)
    BY <1>1
  <2> QED BY <1>1, <2>1 DEF Future
<1> QED BY <1>2, <1>3, <1>6, <1>7

\* A push is an edit of the line, which keeps what the depth allows of it.
LEMMA PushIsEdit ==
    ASSUME TypeOK, NEW before \in DeviceList, devices' \in DeviceList,
           Push(before, devices'), ConfigsOf(before) = ConfigsOf(devices)
    PROVE  Line!Edit(ConfigsOf(devices)')
<1> DEFINE e == [before |-> before, after |-> devices']
           a == Append(undo, e)
<1>1. /\ e \in Entry /\ undo \in Seq(Entry) /\ depth \in Nat \ {0} /\ e.before = before
  BY DeviceAssumption DEF TypeOK, Entry
<1>2. undo' = Trim(a, depth) /\ redo' = <<>>
  BY DEF Push
<1> HIDE DEF e
<1>3. /\ a \in Seq(Entry) /\ a # <<>> /\ Len(a) = Len(undo) + 1 /\ Len(undo) \in Nat
      /\ Past(a) = Append(Past(undo), ConfigsOf(devices))
      /\ Len(Past(undo)) = Len(undo)
  BY <1>1, AppendProps, PastAppend, LineTypes
<1> HIDE DEF a
<1>4. PICK k \in 0..Len(a) : k # 0 /\ Past(undo') = Line!LastOf(Past(a), k)
  BY <1>1, <1>2, <1>3, PastTrim
<1>5. k \in 1..(Len(Past(undo)) + 1)
  BY <1>3, <1>4
<1>6. Past(undo') = Line!LastOf(Append(Past(undo), ConfigsOf(devices)), k)
  BY <1>3, <1>4
<1>7. Future(redo') = <<>>
  BY <1>2, EmptySeq DEF Future
<1> QED BY <1>5, <1>6, <1>7 DEF Line!Edit, Past, Future, Line!LastOf

LEMMA LineStep ==
    ASSUME HistoryInv, HistoryInv', [Next]_vars
    PROVE  profiled' \/ Line!Next \/ UNCHANGED Line!lineVars
<1> SUFFICES ASSUME ~profiled' PROVE Line!Next \/ UNCHANGED Line!lineVars
  OBVIOUS
<1>1. /\ TypeOK /\ devices' \in DeviceList
      /\ ~profiled => Linked(undo, redo, devices)
      /\ selected # NoDevice => baseline \in Device
      /\ selected # NoDevice /\ ~profiled => baseline.config = devices[selected].config
  BY TimelineIs
     DEF HistoryInv, HistoryIsTrue, HistoryBounded, BaselineFresh, BaselineKept, TypeOK
<1>2. /\ devices \in DeviceList /\ undo \in Seq(Entry) /\ redo \in Seq(Entry)
      /\ selected \in DOMAIN devices \cup {NoDevice} /\ Present = DOMAIN devices
      /\ devices \in [DOMAIN devices -> Device] /\ DOMAIN devices \in SUBSET Ids
  BY <1>1, Lists DEF TypeOK, Present
<1>3. ConfigsOf(devices)' \in States /\ ConfigsOf(devices)' = ConfigsOf(devices')
  BY <1>1, Lists DEF States, ConfigsOf
<1>4. ASSUME Line!Edit(ConfigsOf(devices)') PROVE Line!Next
  BY <1>3, <1>4 DEF Line!Next, States
<1>5. ASSUME NEW before \in DeviceList, Push(before, devices'),
             ConfigsOf(before) = ConfigsOf(devices)
      PROVE  Line!Next
  BY <1>1, <1>4, <1>5, PushIsEdit
<1>6. ASSUME UNCHANGED <<undo, redo>>, ConfigsOf(devices') = ConfigsOf(devices)
      PROVE  UNCHANGED Line!lineVars
  BY <1>3, <1>6 DEF Line!lineVars
<1>7. ASSUME NEW new, AddDevices(new) PROVE Line!Next
  BY <1>2, <1>5, <1>7 DEF AddDevices
<1>8. ASSUME NEW out, RemoveDevices(out) PROVE Line!Next
  BY <1>2, <1>5, <1>8 DEF RemoveDevices
<1>9. ASSUME NEW targets, NEW value, BatchEdit(targets, value) PROVE Line!Next
  BY <1>2, <1>5, <1>9 DEF BatchEdit
<1>10. CASE UndoEdit
  <2>1. /\ undo # <<>> /\ devices' = Last(undo).before /\ redo' = Append(redo, Last(undo))
        /\ undo' = Front(undo) /\ ~profiled
    BY <1>10 DEF UndoEdit
  <2>2. ConfigsOf(Last(undo).after) = ConfigsOf(devices) /\ Last(undo) \in Entry
    BY <1>1, <1>2, <2>1, FrontProps DEF Linked
  <2>3. /\ Past(undo') = SubSeq(Past(undo), 1, Len(Past(undo)) - 1)
        /\ Past(undo)[Len(Past(undo))] = ConfigsOf(devices')
        /\ Past(undo) # <<>>
    BY <1>2, <2>1, PastFront
  <2>4. Future(redo') = <<ConfigsOf(devices)>> \o Future(redo)
    BY <1>2, <2>1, <2>2, FutureAppend
  <2>5. Line!Undo
    BY <1>3, <2>3, <2>4 DEF Line!Undo, Past, Future
  <2> QED BY <2>5 DEF Line!Next
<1>11. CASE RedoEdit
  <2>1. /\ redo # <<>> /\ devices' = Last(redo).after /\ undo' = Append(undo, Last(redo))
        /\ redo' = Front(redo) /\ ~profiled
    BY <1>11 DEF RedoEdit, RedoSnapshot
  <2>2. ConfigsOf(Last(redo).before) = ConfigsOf(devices) /\ Last(redo) \in Entry
    BY <1>1, <1>2, <2>1, FrontProps DEF Linked
  <2>3. /\ Future(redo') = Tail(Future(redo)) /\ Head(Future(redo)) = ConfigsOf(devices')
        /\ Future(redo) # <<>>
    BY <1>2, <2>1, FutureFront
  <2>4. Past(undo') = Append(Past(undo), ConfigsOf(devices))
    BY <1>2, <2>1, <2>2, PastAppend
  <2>5. Line!Redo
    BY <1>3, <2>3, <2>4 DEF Line!Redo, Past, Future
  <2> QED BY <2>5 DEF Line!Next
<1>12. ASSUME NEW n \in 1..MaxDepth, SetDepth(n) PROVE Line!Next
  <2>1. n \in Nat \ {0} /\ undo' = Trim(undo, n) /\ redo' = redo /\ devices' = devices
    BY <1>12, DeviceAssumption DEF SetDepth
  <2>2. PICK k \in 0..Len(undo) : Past(undo') = Line!LastOf(Past(undo), k)
    BY <1>2, <2>1, PastTrim
  <2>3. k \in 0..Len(Past(undo))
    BY <1>2, LineTypes
  <2>4. Line!Forget
    BY <1>3, <2>1, <2>2, <2>3 DEF Line!Forget, Past, Line!LastOf
  <2> QED BY <2>4 DEF Line!Next
<1>13. ASSUME NEW list, SetProject(list) PROVE Line!Next
  <2>1. Past(undo') = <<>> /\ Future(redo') = <<>>
    BY <1>13, EmptySeq DEF SetProject, Past, Future
  <2>2. Line!Reset(ConfigsOf(devices)')
    BY <2>1 DEF Line!Reset, Past, Future
  <2> QED BY <1>3, <2>2 DEF Line!Next, States
<1>14. ASSUME NEW value \in Configs, PanelEdit(value)
       PROVE  Line!Next \/ UNCHANGED Line!lineVars
  <2>1. /\ selected # NoDevice /\ selected \in DOMAIN devices /\ baseline \in Device /\ ~profiled
        /\ devices' = [devices EXCEPT ![selected].config = value]
    BY <1>1, <1>2, <1>14 DEF PanelEdit
  <2>2. /\ devices' \in [DOMAIN devices -> Device] /\ DOMAIN devices' = DOMAIN devices
        /\ devices'[selected].config = value
        /\ \A d \in DOMAIN devices \ {selected} : devices'[d] = devices[d]
    BY <1>2, <2>1 DEF Device
  <2>3. CASE value = baseline.config
    <3>1. ConfigsOf(devices') = ConfigsOf(devices)
      BY <1>1, <1>2, <2>1, <2>2, <2>3, SameConfigs
    <3> QED BY <1>6, <1>14, <2>3, <3>1 DEF PanelEdit
  <2>4. CASE value # baseline.config
    <3> DEFINE before == [devices' EXCEPT ![selected] = baseline]
    <3>1. Push(before, devices')
      BY <1>14, <2>4 DEF PanelEdit
    <3>2. before \in [DOMAIN devices -> Device] /\ before[selected] = baseline
          /\ DOMAIN before = DOMAIN devices
          /\ \A d \in DOMAIN devices \ {selected} : before[d] = devices[d]
      BY <2>1, <2>2
    <3> HIDE DEF before
    <3>3. before \in DeviceList
      BY <1>2, <3>2, IsList
    <3>4. ConfigsOf(before) = ConfigsOf(devices)
      BY <1>1, <1>2, <2>1, <3>2, <3>3, SameConfigs
    <3> QED BY <1>5, <3>1, <3>3, <3>4
  <2> QED BY <2>3, <2>4
<1>15. ASSUME NEW value, ApplyProfile(value) PROVE FALSE
  BY <1>15 DEF ApplyProfile
<1>16. ASSUME NEW x, StartFlash(x) \/ EndFlash(x)
       PROVE  UNCHANGED Line!lineVars
  <2>1. /\ UNCHANGED <<undo, redo>>
        /\ \/ devices' = devices
           \/ devices' = [devices EXCEPT ![x].status = "Active"]
           \/ devices' = [devices EXCEPT ![x].status = "Idle"]
    BY <1>16 DEF StartFlash, EndFlash
  <2>2. /\ DOMAIN devices' = DOMAIN devices
        /\ \A d \in DOMAIN devices : devices'[d].config = devices[d].config
    BY <1>2, <2>1 DEF Device
  <2>3. ConfigsOf(devices') = ConfigsOf(devices)
    BY <1>1, <1>2, <2>2, SameConfigs
  <2> QED BY <1>6, <2>1, <2>3
<1>17. ASSUME NEW x, Select(x) \/ UNCHANGED vars
       PROVE  UNCHANGED Line!lineVars
  BY <1>6, <1>17 DEF Select, vars
<1> QED
  BY <1>7, <1>8, <1>9, <1>10, <1>11, <1>12, <1>13, <1>14, <1>15, <1>16, <1>17 DEF Next

\* Undo and redo move along one line of states, whatever the edits: undo goes
\* back exactly one of the user's edits, redo forward one, a new edit cuts off
\* what was ahead, and only the far end of the past is ever forgotten.
THEOREM HistoryIsALine == Spec => ImplementsTimeline
<1>1. ASSUME Init PROVE Line!Init
  <2>1. Past(undo) = <<>> /\ Future(redo) = <<>>
    BY <1>1, EmptySeq DEF Init, Past, Future
  <2>2. ConfigsOf(devices) = <<>>
    BY <1>1 DEF Init, ConfigsOf
  <2> QED BY <2>1, <2>2 DEF Line!Init, Past, Future
<1>2. ASSUME HistoryInv, HistoryInv', [Next]_vars
      PROVE  profiled' \/ Line!Next \/ UNCHANGED Line!lineVars
  BY <1>2, LineStep
<1> QED BY <1>1, <1>2, HistoryAlways, PTL DEF Spec, ImplementsTimeline
=============================================================================
