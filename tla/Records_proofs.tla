--------------------------- MODULE Records_proofs ---------------------------
(***************************************************************************)
(* Proofs about Records, for any tasks of the types of TypedTask: settings *)
(* of any content, security settings of any device, benches, edits and     *)
(* filters of any devices.                                                 *)
(***************************************************************************)
EXTENDS Records, ListSelection_proofs, SequenceTheorems, FiniteSetTheorems, TLAPS

-----------------------------------------------------------------------------
(* Settings that are read. *)

LEMMA WholeHalves ==
    ASSUME NEW n \in Int
    PROVE  /\ n \in Whole <=> n % 2 = 0
           /\ n \notin Whole => n + 1 \in Whole /\ n - 1 \in Whole
           /\ n \in Whole => n + 1 \notin Whole /\ n - 1 \notin Whole
BY DEF Whole

\* What is clamped is in the range, and no further from what else is clamped
\* than before.
LEMMA Clamped ==
    ASSUME NEW f \in Ranges, NEW m \in Int, NEW n \in Int
    PROVE  /\ Clamp(f, n) \in Int /\ InRange(f, Clamp(f, n))
           /\ n \in Whole => Clamp(f, n) \in Whole
           /\ Clamp(f, Clamp(f, n)) = Clamp(f, n)
           /\ Near(m, n) => Near(Clamp(f, m), Clamp(f, n))
<1> DEFINE lo == f.min
           hi == f.max
<1>1. lo \in Whole /\ hi \in Whole /\ lo \in Int /\ hi \in Int /\ lo <= hi
  BY DEF Ranges, Whole
<1>2. /\ Clamp(f, n) = IF n < lo THEN lo ELSE IF n > hi THEN hi ELSE n
      /\ Clamp(f, m) = IF m < lo THEN lo ELSE IF m > hi THEN hi ELSE m
      /\ Clamp(f, Clamp(f, n)) = IF Clamp(f, n) < lo THEN lo ELSE IF Clamp(f, n) > hi THEN hi ELSE Clamp(f, n)
  BY DEF Clamp
<1> HIDE DEF lo, hi
<1>3. \A k \in Int : InRange(f, k) <=> k >= lo /\ k <= hi
  BY DEF InRange, lo, hi
<1> QED BY <1>1, <1>2, <1>3 DEF Near

\* What int() and float() give is a number for which the others are not needed.
Readable(value) == value.is = "number" /\ value.n \in Int /\ value = Number(value.n)

LEMMA RawKinds ==
    ASSUME NEW raw \in Values \cup {Absent}
    PROVE  /\ raw.t \in {"absent", "text", "null", "list", "inf", "infText", "nan", "flag", "int", "digits", "real", "decimal"}
           /\ raw = Absent <=> raw.t = "absent"
           /\ raw.t = "flag" => raw.b \in BOOLEAN
           /\ raw.t \in {"int", "digits"} => raw.n \in Whole
           /\ raw.t \in {"real", "decimal"} => raw.n \in Int
<1>1. CASE raw = Absent
  BY <1>1 DEF Absent
<1>2. CASE raw \in [t : {"text", "null", "list", "nan"}]
  BY <1>2 DEF Absent
<1>3. CASE raw \in [t : {"flag"}, b : BOOLEAN]
  BY <1>3 DEF Absent
<1>4. CASE raw \in [t : {"int", "digits"}, n : Whole]
  BY <1>4 DEF Absent
<1>5. CASE raw \in [t : {"decimal"}, n : Int]
  BY <1>5 DEF Absent
<1>6. CASE raw \in [t : {"real"}, n : {n \in Int : ~Beyond(n)}]
  BY <1>6 DEF Absent
<1>7. CASE raw \in [t : {"inf", "infText"}, positive : BOOLEAN]
  BY <1>7 DEF Absent
<1> QED BY <1>1, <1>2, <1>3, <1>4, <1>5, <1>6, <1>7 DEF Values

LEMMA AsIntKinds ==
    ASSUME NEW raw \in Values \cup {Absent}
    PROVE  /\ raw.t = "inf" => AsInt(raw) = Fails("overflow")
           /\ raw.t \in {"absent", "text", "null", "list", "infText", "nan", "decimal"} => AsInt(raw) = Fails("bad")
           /\ raw.t \in {"int", "digits", "real", "flag"} =>
                 \E n \in Whole : AsInt(raw) = Number(n)
<1>1. raw.t = "inf" => AsInt(raw) = Fails("overflow")
  BY RawKinds DEF AsInt
<1>2. raw.t \in {"absent", "text", "null", "list", "infText", "nan", "decimal"} => AsInt(raw) = Fails("bad")
  BY RawKinds DEF AsInt
<1>3. CASE raw.t \in {"int", "digits"}
  BY <1>1, <1>2, <1>3, RawKinds DEF AsInt
<1>4. CASE raw.t = "real"
  <2>1. Truncated(raw.n) \in Whole
    BY <1>4, RawKinds, WholeHalves DEF Truncated
  <2>2. AsInt(raw) = Number(Truncated(raw.n))
    BY <1>4 DEF AsInt
  <2> QED BY <1>1, <1>2, <1>4, <2>1, <2>2
<1>5. CASE raw.t = "flag"
  <2>1. 0 \in Whole /\ 2 \in Whole
    BY DEF Whole
  <2>2. AsInt(raw) = Number(IF raw.b THEN 2 ELSE 0)
    BY <1>5 DEF AsInt
  <2> QED BY <1>1, <1>2, <1>5, <2>1, <2>2
<1> QED BY <1>1, <1>2, <1>3, <1>4, <1>5

\* What OK stores of a whole number is the number, whichever box it is from.
LEMMA StoredWhole ==
    ASSUME NEW n \in Whole
    PROVE  /\ Stored("int", Number(n)) # Absent /\ Stored("real", Number(n)) # Absent
           /\ AsInt(Stored("int", Number(n))) = Number(n)
           /\ AsFloat(Stored("real", Number(n))) = Number(n)
<1>1. /\ Stored("int", Number(n)).t = "int" /\ Stored("int", Number(n)).n = n
      /\ Stored("real", Number(n)).t = "real" /\ Stored("real", Number(n)).n = n
  BY DEF Stored, Number
<1>2. Absent.t = "absent"
  BY DEF Absent
<1>3. Stored("int", Number(n)) # Absent /\ Stored("real", Number(n)) # Absent
  BY <1>1, <1>2
<1> HIDE DEF Number
<1>4. AsInt(Stored("int", Number(n))) = Number(n)
  BY <1>1 DEF AsInt
<1>5. AsFloat(Stored("real", Number(n))) = Number(n)
  BY <1>1 DEF AsFloat
<1> QED BY <1>3, <1>4, <1>5

\* A getter of a whole number, by what is stored.
LEMMA IntSettingOf ==
    ASSUME NEW f, NEW raw, NEW n, raw # Absent, AsInt(raw) = Number(n)
    PROVE  IntSetting(f, raw) = Number(Clamp(f, n))
BY DEF IntSetting, Number

\* Whatever number is stored, the getter is in range and so is what the dialog
\* makes of it, and the two are the same.
LEMMA IntHolds ==
    ASSUME NEW f \in Ranges, NEW raw \in Values \cup {Absent},
           NEW shown, shown = IntShown(f, raw),
           NEW read, read = IntSetting(f, raw),
           NEW reread, reread = IF shown.is = "number" THEN IntSetting(f, Stored("int", shown)) ELSE shown
    PROVE  /\ IF raw.t = "inf" THEN read.is = "overflow"
              ELSE read.is = "number" /\ InRange(f, read.n)
           /\ reread.is = "number" =>
                 read.is = "number" /\ InRange(f, reread.n) /\ Near(reread.n, read.n)
<1>1. f.default \in Whole /\ f.default \in Int /\ InRange(f, f.default) /\ Clamp(f, f.default) = f.default
  BY DEF Ranges, InRange, Whole, Clamp
<1>0. \A k \in Int : Near(k, k)
  BY DEF Near
<1>2. ASSUME NEW n \in Whole, shown = Number(Clamp(f, n))
      PROVE  /\ reread = Number(Clamp(f, n))
             /\ Clamp(f, n) \in Int /\ InRange(f, Clamp(f, n))
  <2>1. n \in Int
    BY DEF Whole
  <2>2. /\ Clamp(f, n) \in Whole /\ Clamp(f, n) \in Int /\ InRange(f, Clamp(f, n))
        /\ Clamp(f, Clamp(f, n)) = Clamp(f, n)
    BY <2>1, Clamped
  <2>3. AsInt(Stored("int", shown)) = Number(Clamp(f, n)) /\ Stored("int", shown) # Absent
    BY <1>2, <2>2, StoredWhole
  <2>4. IntSetting(f, Stored("int", shown)) = Number(Clamp(f, n))
    BY <2>2, <2>3, IntSettingOf
  <2>5. shown.is = "number"
    BY <1>2 DEF Number
  <2> QED BY <2>2, <2>4, <2>5
<1>3. \A k : Number(k).is = "number" /\ Number(k).n = k
  BY DEF Number
<1>4. CASE raw = Absent
  <2>0. AsInt(raw) = Fails("bad") /\ Fails("bad").is = "bad"
    BY <1>4, AsIntKinds DEF Absent, Fails
  <2>1. read = Number(f.default)
    BY <1>4, <2>0 DEF IntSetting
  <2>2. shown = Number(Clamp(f, f.default))
    BY <1>3, <1>4 DEF IntShown
  <2>3. raw.t # "inf"
    BY <1>4 DEF Absent
  <2> QED BY <1>0, <1>1, <1>2, <1>3, <2>1, <2>2, <2>3
<1>5. CASE raw.t = "inf"
  <2>1. raw # Absent
    BY <1>5 DEF Absent
  <2>2. AsInt(raw) = Fails("overflow")
    BY <1>5, AsIntKinds
  <2>3. Fails("overflow").is = "overflow"
    BY DEF Fails
  <2> QED BY <1>5, <2>1, <2>2, <2>3 DEF IntSetting, IntShown
<1>6. CASE raw # Absent /\ raw.t \in {"text", "null", "list", "infText", "nan", "decimal"}
  <2>1. AsInt(raw) = Fails("bad") /\ Fails("bad").is = "bad"
    BY <1>6, AsIntKinds DEF Fails
  <2>2. read = Number(f.default)
    BY <1>6, <2>1 DEF IntSetting
  <2>3. shown.is = "bad" /\ reread = shown
    BY <1>6, <2>1 DEF IntShown
  <2> QED BY <1>1, <1>3, <1>6, <2>2, <2>3
<1>7. CASE raw # Absent /\ raw.t \in {"int", "digits", "real", "flag"}
  <2>1. PICK n \in Whole : AsInt(raw) = Number(n)
    BY <1>7, AsIntKinds
  <2>2. read = Number(Clamp(f, n))
    BY <1>7, <2>1, IntSettingOf
  <2>0. CASE Refuses(n)
    <3>1. shown = Fails("overflow")
      BY <1>3, <1>7, <2>0, <2>1 DEF IntShown
    <3>2. reread.is # "number"
      BY <3>1 DEF Fails
    <3>3. InRange(f, Clamp(f, n))
      BY Clamped DEF Whole
    <3> QED BY <1>3, <1>7, <2>2, <3>2, <3>3
  <2> SUFFICES ASSUME ~Refuses(n)
               PROVE  /\ IF raw.t = "inf" THEN read.is = "overflow"
                         ELSE read.is = "number" /\ InRange(f, read.n)
                      /\ reread.is = "number" =>
                            read.is = "number" /\ InRange(f, reread.n) /\ Near(reread.n, read.n)
    BY <2>0
  <2>3. shown = Number(Clamp(f, n))
    BY <1>3, <1>7, <2>1 DEF IntShown
  <2>4. /\ reread = Number(Clamp(f, n))
        /\ Clamp(f, n) \in Int /\ InRange(f, Clamp(f, n))
    BY <1>2, <2>3
  <2> QED BY <1>0, <1>3, <1>7, <2>2, <2>4
<1>8. raw = Absent \/ raw.t \in {"text", "null", "list", "inf", "infText", "nan", "decimal", "int", "digits", "real", "flag"}
  BY RawKinds
<1> QED BY <1>4, <1>5, <1>6, <1>7, <1>8

LEMMA AsFloatKinds ==
    ASSUME NEW raw \in Values \cup {Absent}
    PROVE  /\ raw.t = "nan" => AsFloat(raw) = Fails("nan")
           /\ raw.t \in {"absent", "text", "null", "list"} => AsFloat(raw) = Fails("bad")
           /\ raw.t = "int" /\ Beyond(raw.n) => AsFloat(raw) = Fails("overflow")
           /\ raw.t \in {"int", "digits", "real", "decimal", "flag", "inf", "infText"} =>
                 (raw.t = "int" /\ Beyond(raw.n)) \/ \E n \in Int : AsFloat(raw) = Number(n)
<1>1. /\ raw.t = "nan" => AsFloat(raw) = Fails("nan")
      /\ raw.t \in {"absent", "text", "null", "list"} => AsFloat(raw) = Fails("bad")
      /\ raw.t = "int" /\ Beyond(raw.n) => AsFloat(raw) = Fails("overflow")
  BY RawKinds DEF AsFloat
<1>2. CASE raw.t \in {"int", "digits", "real", "decimal"} /\ ~(raw.t = "int" /\ Beyond(raw.n))
  <2>1. raw.n \in Int
    BY <1>2, RawKinds DEF Whole
  <2>2. AsFloat(raw) = Number(raw.n)
    BY <1>2 DEF AsFloat
  <2> QED BY <1>1, <1>2, <2>1, <2>2
<1>3. CASE raw.t = "flag"
  <2>1. AsFloat(raw) = Number(IF raw.b THEN 2 ELSE 0)
    BY <1>3 DEF AsFloat
  <2> QED BY <1>1, <1>3, <2>1
<1>4. CASE raw.t \in {"inf", "infText"}
  <2>1. LargestFloat + 2 \in Int /\ -LargestFloat - 2 \in Int
    BY SettingsAssumption
  <2>2. AsFloat(raw) = Number(IF raw.positive THEN LargestFloat + 2 ELSE -LargestFloat - 2)
    BY <1>4 DEF AsFloat
  <2> QED BY <1>1, <1>4, <2>1, <2>2
<1> QED BY <1>1, <1>2, <1>3, <1>4

LEMMA FloatSettingOf ==
    ASSUME NEW f, NEW raw, NEW n, raw # Absent, AsFloat(raw) = Number(n)
    PROVE  FloatSetting(f, raw) = Number(Clamp(f, n))
BY DEF FloatSetting, Number

\* The box shows a whole number next to what is stored, and with that the
\* getter is at most half a unit from what it was.
LEMMA FloatHolds ==
    ASSUME NEW f \in Ranges, NEW raw \in Values \cup {Absent},
           NEW shown \in FloatShown(f, raw),
           NEW read, read = FloatSetting(f, raw),
           NEW reread, reread = IF shown.is = "number" THEN FloatSetting(f, Stored("real", shown)) ELSE shown
    PROVE  /\ IF raw.t = "int" /\ Beyond(raw.n) THEN read.is = "overflow"
              ELSE read.is = "number" /\ InRange(f, read.n)
           /\ reread.is = "number" =>
                 /\ read.is = "number" /\ InRange(f, reread.n)
                 /\ raw.t # "nan" => Near(reread.n, read.n)
<1>0. \A k \in Int : Near(k, k)
  BY DEF Near
<1>1. /\ f.default \in Whole /\ f.default \in Int /\ InRange(f, f.default)
      /\ f.max \in Whole /\ f.max \in Int /\ InRange(f, f.max)
      /\ Clamp(f, f.default) = f.default /\ Clamp(f, f.max) = f.max
  BY DEF Ranges, InRange, Whole, Clamp
<1>2. \A k : Number(k).is = "number" /\ Number(k).n = k
  BY DEF Number
<1>3. ASSUME NEW n \in Whole, shown = Number(n), InRange(f, n), Clamp(f, n) = n
      PROVE  reread = Number(n) /\ n \in Int
  <2>1. AsFloat(Stored("real", shown)) = Number(n) /\ Stored("real", shown) # Absent
    BY <1>3, StoredWhole
  <2>2. FloatSetting(f, Stored("real", shown)) = Number(Clamp(f, n))
    BY <2>1, FloatSettingOf
  <2> QED BY <1>2, <1>3, <2>2 DEF Whole
<1>4. ASSUME NEW v \in Int, NEW k \in {j \in (v - 1)..(v + 1) : j % 2 = 0},
             shown = Number(Clamp(f, k))
      PROVE  /\ reread = Number(Clamp(f, k))
             /\ InRange(f, Clamp(f, k)) /\ InRange(f, Clamp(f, v))
             /\ Near(Clamp(f, k), Clamp(f, v))
  <2>1. k \in Int /\ k \in Whole /\ Near(k, v)
    BY DEF Whole, Near
  <2>2. /\ Clamp(f, k) \in Whole /\ Clamp(f, k) \in Int /\ InRange(f, Clamp(f, k))
        /\ Clamp(f, Clamp(f, k)) = Clamp(f, k)
        /\ Near(Clamp(f, k), Clamp(f, v))
    BY <2>1, Clamped
  <2>3. InRange(f, Clamp(f, v))
    BY Clamped
  <2> QED BY <1>3, <1>4, <2>2, <2>3
<1>5. CASE raw = Absent
  <2>0. raw.t = "absent" /\ AsFloat(raw) = Fails("bad") /\ Fails("bad").is = "bad"
    BY <1>5, AsFloatKinds DEF Absent, Fails
  <2>1. read = Number(f.default)
    BY <1>5, <2>0 DEF FloatSetting
  <2>2. PICK k \in {j \in (f.default - 1)..(f.default + 1) : j % 2 = 0} : shown = Number(Clamp(f, k))
    BY <1>2, <1>5 DEF FloatShown
  <2>3. Clamp(f, f.default) = f.default
    BY <1>1
  <2> QED BY <1>1, <1>2, <1>4, <2>0, <2>1, <2>2, <2>3
<1>6. CASE raw.t = "nan"
  <2>1. raw # Absent
    BY <1>6 DEF Absent
  <2>2. AsFloat(raw) = Fails("nan") /\ Fails("nan").is = "nan"
    BY <1>6, AsFloatKinds DEF Fails
  <2>3. shown = Number(f.max)
    BY <2>1, <2>2 DEF FloatShown
  <2>4. reread = Number(f.max)
    BY <1>1, <1>3, <2>3
  <2>5. read = Number(f.default)
    BY <2>1, <2>2 DEF FloatSetting
  <2> QED BY <1>1, <1>2, <1>6, <2>4, <2>5
<1>10. CASE raw.t = "int" /\ Beyond(raw.n)
  <2>1. raw # Absent
    BY <1>10 DEF Absent
  <2>2. AsFloat(raw) = Fails("overflow") /\ Fails("overflow").is = "overflow"
    BY <1>10, AsFloatKinds DEF Fails
  <2>3. shown.is # "number" /\ reread = shown
    BY <2>1, <2>2 DEF FloatShown
  <2>4. read.is = "overflow"
    BY <2>1, <2>2 DEF FloatSetting
  <2> QED BY <1>10, <2>3, <2>4
<1>7. CASE raw # Absent /\ raw.t \in {"text", "null", "list"}
  <2>1. AsFloat(raw) = Fails("bad") /\ Fails("bad").is = "bad"
    BY <1>7, AsFloatKinds DEF Fails
  <2>2. read = Number(f.default)
    BY <1>7, <2>1 DEF FloatSetting
  <2>3. shown.is = "bad" /\ reread = shown
    BY <1>7, <2>1 DEF FloatShown
  <2> QED BY <1>1, <1>2, <1>7, <2>2, <2>3
<1>8. CASE /\ raw # Absent /\ raw.t \in {"int", "digits", "real", "decimal", "flag", "inf", "infText"}
           /\ ~(raw.t = "int" /\ Beyond(raw.n))
  <2>1. PICK v \in Int : AsFloat(raw) = Number(v)
    BY <1>8, AsFloatKinds
  <2>2. read = Number(Clamp(f, v))
    BY <1>8, <2>1, FloatSettingOf
  <2>3. PICK k \in {j \in (v - 1)..(v + 1) : j % 2 = 0} : shown = Number(Clamp(f, k))
    BY <1>2, <1>8, <2>1 DEF FloatShown
  <2> QED BY <1>2, <1>4, <1>8, <2>2, <2>3
<1>9. raw = Absent \/ raw.t \in {"text", "null", "list", "inf", "infText", "nan", "decimal", "int", "digits", "real", "flag"}
  BY RawKinds
<1> QED BY <1>5, <1>6, <1>7, <1>8, <1>9, <1>10

\* A check box and a list show again what they show.
LEMMA ChoiceHolds ==
    ASSUME NEW default \in BOOLEAN, NEW raw \in Values \cup {Absent},
           NEW given \in Values \cup {Absent},
           NEW options \in Seq(Values), options # <<>>,
           NEW flag, flag = FlagSetting(default, raw),
           NEW option, option = OptionShown(options, given, options[1])
    PROVE  /\ FlagSetting(default, [t |-> "flag", b |-> flag]) = flag
           /\ option \in ToSet(options)
           /\ OptionShown(options, option, options[1]) = option
<1>1. [t |-> "flag", b |-> flag] # Absent /\ [t |-> "flag", b |-> flag].t = "flag"
  BY DEF Absent
<1>2. FlagSetting(default, [t |-> "flag", b |-> flag]) = flag
  BY <1>1 DEF FlagSetting
<1>3. 1 \in DOMAIN options
  BY EmptySeq, LenProperties
<1>4. PICK i \in DOMAIN options : option = options[i]
  BY <1>3 DEF OptionShown
<1>5. option \in Values
  BY <1>4, ElementOfSeq, LenProperties
<1>6. option # Absent
  <2>1. Absent \notin Values
    BY DEF Absent, Values
  <2> QED BY <1>5, <2>1
<1> QED BY <1>2, <1>4, <1>6 DEF OptionShown, ToSet

-----------------------------------------------------------------------------
(* Settings that are written.  Functions that are defined step by step are  *)
(* what their definition says, and are looked at one step at a time.        *)

\* g tells what is left after each of the first m writes.
Writes(store, changes, outcomes, m, g) ==
    g = [i \in 0..m |->
            IF i = 0 THEN store
            ELSE IF ~g[i - 1].alive THEN g[i - 1]
            ELSE Save(g[i - 1], changes[i], outcomes[i])]

LEMMA WritesExist ==
    ASSUME NEW store, NEW changes, NEW outcomes, NEW n \in Nat
    PROVE  \E g : Writes(store, changes, outcomes, n, g)
<1> DEFINE S == {m \in Nat : \E g : Writes(store, changes, outcomes, m, g)}
<1>1. 0 \in S
  <2>1. Writes(store, changes, outcomes, 0, [i \in 0..0 |-> store])
    BY DEF Writes
  <2> QED BY <2>1
<1>2. ASSUME NEW m \in S PROVE m + 1 \in S
  <2>1. PICK g : Writes(store, changes, outcomes, m, g)
    OBVIOUS
  <2> DEFINE Next1 == IF ~g[m].alive THEN g[m] ELSE Save(g[m], changes[m + 1], outcomes[m + 1])
             h == [i \in 0..(m + 1) |-> IF i = m + 1 THEN Next1 ELSE g[i]]
  <2>2. \A i \in 0..m : h[i] = g[i]
    OBVIOUS
  <2>3. h[m + 1] = Next1
    OBVIOUS
  <2>4. \A i \in 0..m : g[i] = IF i = 0 THEN store
                               ELSE IF ~g[i - 1].alive THEN g[i - 1]
                               ELSE Save(g[i - 1], changes[i], outcomes[i])
    BY <2>1 DEF Writes
  <2> DEFINE Step(i) == IF i = 0 THEN store
                        ELSE IF ~h[i - 1].alive THEN h[i - 1]
                        ELSE Save(h[i - 1], changes[i], outcomes[i])
  <2>5. \A i \in 0..(m + 1) : h[i] = Step(i)
    <3>1. ASSUME NEW i \in 0..m PROVE h[i] = Step(i)
      <4>1. i # 0 => i - 1 \in 0..m /\ h[i - 1] = g[i - 1]
        BY <2>2
      <4> HIDE DEF h
      <4> QED BY <2>2, <2>4, <4>1
    <3>2. h[m + 1] = Step(m + 1)
      <4>1. m + 1 # 0 /\ (m + 1) - 1 = m /\ h[m] = g[m]
        BY <2>2
      <4> HIDE DEF h
      <4> QED BY <2>3, <4>1
    <3> HIDE DEF h, Step
    <3> QED BY <3>1, <3>2
  <2>6. h = [i \in 0..(m + 1) |-> Step(i)]
    <3>1. h = [i \in 0..(m + 1) |-> h[i]]
      OBVIOUS
    <3> HIDE DEF h, Step
    <3> QED BY <3>1, <2>5
  <2>7. Writes(store, changes, outcomes, m + 1, h)
    <3> HIDE DEF h
    <3> QED BY <2>6 DEF Writes
  <2> HIDE DEF h
  <2> QED BY <2>7
<1> HIDE DEF S
<1>3. S = Nat
  BY <1>1, <1>2, ByInduction, S \subseteq Nat DEF S
<1> QED BY <1>3 DEF S

LEMMA SaveAllIs ==
    ASSUME NEW store, NEW changes, NEW outcomes, Len(changes) \in Nat
    PROVE  \E g : /\ Writes(store, changes, outcomes, Len(changes), g)
                  /\ SaveAll(store, changes, outcomes) = g[Len(changes)]
<1> DEFINE g == CHOOSE g : Writes(store, changes, outcomes, Len(changes), g)
<1>1. Writes(store, changes, outcomes, Len(changes), g)
  BY WritesExist
<1>2. SaveAll(store, changes, outcomes) = g[Len(changes)]
  BY DEF SaveAll, Writes
<1> QED BY <1>1, <1>2

\* One more write puts one more value into the memory.
LEMMA MemoryGrows ==
    ASSUME NEW store, NEW changes, NEW n \in Nat
    PROVE  MemoryAfter(store, changes, n + 1) =
              [MemoryAfter(store, changes, n) EXCEPT ![changes[n + 1].key] = changes[n + 1].value]
<1> DEFINE of(key, m) == {i \in 1..m : changes[i].key = key}
           last(S) == CHOOSE i \in S : \A j \in S : j <= i
           value(key, m) == IF of(key, m) = {} THEN store.memory[key] ELSE changes[last(of(key, m))].value
<1>1. \A m : MemoryAfter(store, changes, m) = [key \in DOMAIN store.memory |-> value(key, m)]
  BY DEF MemoryAfter
<1>2. ASSUME NEW key, changes[n + 1].key = key
      PROVE  value(key, n + 1) = changes[n + 1].value
  <2>1. n + 1 \in of(key, n + 1)
    BY <1>2
  <2>2. \A j \in of(key, n + 1) : j <= n + 1 /\ j \in Nat
    OBVIOUS
  <2>3. last(of(key, n + 1)) \in of(key, n + 1) /\ n + 1 <= last(of(key, n + 1))
    <3>1. \E i \in of(key, n + 1) : \A j \in of(key, n + 1) : j <= i
      BY <2>1, <2>2
    <3> HIDE DEF of
    <3> QED BY <2>1, <3>1
  <2>4. last(of(key, n + 1)) = n + 1
    <3> HIDE DEF last, of
    <3> QED BY <2>2, <2>3
  <2>5. of(key, n + 1) # {}
    BY <2>1
  <2> HIDE DEF last, of
  <2> QED BY <2>4, <2>5
<1>3. ASSUME NEW key, changes[n + 1].key # key
      PROVE  value(key, n + 1) = value(key, n)
  <2>1. of(key, n + 1) = of(key, n)
    BY <1>3
  <2> HIDE DEF last, of
  <2> QED BY <2>1
<1> HIDE DEF of, last, value
<1>4. [MemoryAfter(store, changes, n) EXCEPT ![changes[n + 1].key] = changes[n + 1].value] =
          [key \in DOMAIN store.memory |->
              IF key = changes[n + 1].key THEN changes[n + 1].value ELSE value(key, n)]
  BY <1>1
<1>5. \A key : value(key, n + 1) = IF key = changes[n + 1].key THEN changes[n + 1].value ELSE value(key, n)
  BY <1>2, <1>3
<1> QED BY <1>1, <1>4, <1>5

MemoryWith(memory, change) == [memory EXCEPT ![change.key] = change.value]

Replaces(outcome) == outcome \in {"written", "crash after"}

LEMMA SaveFields ==
    ASSUME NEW store, NEW change, NEW outcome
    PROVE  /\ Save(store, change, outcome).memory = MemoryWith(store.memory, change)
           /\ Save(store, change, outcome).disk =
                 IF Replaces(outcome) THEN MemoryWith(store.memory, change) ELSE store.disk
<1> DEFINE disk == IF Replaces(outcome) THEN MemoryWith(store.memory, change) ELSE store.disk
<1>1. Save(store, change, outcome) =
          [memory |-> MemoryWith(store.memory, change), disk |-> disk, alive |-> outcome \in {"written", "fails"}]
  BY DEF Save, MemoryWith, Replaces
<1> HIDE DEF disk
<1>2. /\ Save(store, change, outcome).memory = MemoryWith(store.memory, change)
      /\ Save(store, change, outcome).disk = disk
  BY <1>1
<1> QED BY <1>2 DEF disk

\* However the writes end.
LEMMA SaveHolds ==
    ASSUME NEW store, NEW changes, NEW outcomes, NEW it,
           Len(changes) \in Nat, Len(changes) # 0,
           store.memory \in [DOMAIN store.memory -> Values \cup {Absent}],
           store.alive,
           outcomes \in [1..Len(changes) -> Outcomes],
           it = SaveAll(store, changes, outcomes)
    PROVE  /\ \/ it.disk = store.disk
              \/ \E n \in 1..Len(changes) : it.disk = MemoryAfter(store, changes, n)
           /\ it.alive /\ outcomes[Len(changes)] = "written" =>
                 it.disk = MemoryAfter(store, changes, Len(changes))
<1> DEFINE N == Len(changes)
           M(i) == MemoryAfter(store, changes, i)
<1>1. PICK g : Writes(store, changes, outcomes, N, g) /\ it = g[N]
  BY SaveAllIs
<1>2. /\ g[0] = store
      /\ \A i \in 0..N : i # 0 => g[i] = IF ~g[i - 1].alive THEN g[i - 1]
                                         ELSE Save(g[i - 1], changes[i], outcomes[i])
  BY <1>1 DEF Writes
<1> DEFINE Good(i) ==
              /\ g[i].alive => g[i].memory = M(i)
              /\ g[i].disk = store.disk \/ \E n \in 1..i : g[i].disk = M(n)
              /\ i # 0 /\ g[i].alive /\ outcomes[i] = "written" => g[i].disk = M(i)
<1>3. M(0) = store.memory
  BY DEF MemoryAfter
<1>4. Good(0)
  BY <1>2, <1>3
<1>5. ASSUME NEW i \in Nat, i + 1 \in 1..N, Good(i) PROVE Good(i + 1)
  <2>1. g[i + 1] = IF ~g[i].alive THEN g[i] ELSE Save(g[i], changes[i + 1], outcomes[i + 1])
    <3>1. i + 1 \in 0..N /\ i + 1 # 0 /\ (i + 1) - 1 = i
      BY <1>5
    <3> QED BY <1>2, <3>1
  <2>2. (\E n \in 1..i : g[i].disk = M(n)) => \E n \in 1..(i + 1) : g[i].disk = M(n)
    OBVIOUS
  <2>3. CASE ~g[i].alive
    <3> HIDE DEF M
    <3> QED BY <1>5, <2>1, <2>2, <2>3
  <2>4. CASE g[i].alive
    <3> DEFINE memory == MemoryWith(g[i].memory, changes[i + 1])
    <3>1. memory = M(i + 1)
      BY <1>5, <2>4, MemoryGrows DEF MemoryWith
    <3>2. /\ g[i + 1].memory = memory
          /\ g[i + 1].disk = IF Replaces(outcomes[i + 1]) THEN memory ELSE g[i].disk
      <4>1. g[i + 1] = Save(g[i], changes[i + 1], outcomes[i + 1])
        BY <2>1, <2>4
      <4> QED BY <4>1, SaveFields
    <3>3. i + 1 \in 1..(i + 1)
      OBVIOUS
    <3>4. outcomes[i + 1] = "written" => Replaces(outcomes[i + 1])
      BY DEF Replaces
    <3> HIDE DEF memory, M
    <3> QED BY <1>5, <2>2, <3>1, <3>2, <3>3, <3>4
  <2> QED BY <2>3, <2>4
<1> DEFINE S == {i \in Nat : i <= N => Good(i)}
<1>6. S = Nat
  <2>1. 0 \in S
    BY <1>4
  <2>2. ASSUME NEW i \in S PROVE i + 1 \in S
    <3>1. i + 1 <= N => i + 1 \in 1..N /\ Good(i)
      OBVIOUS
    <3> HIDE DEF Good
    <3> QED BY <1>5, <3>1
  <2>3. S \subseteq Nat
    OBVIOUS
  <2> HIDE DEF S
  <2> QED BY <2>1, <2>2, <2>3, ByInduction
<1>7. Good(N)
  <2> HIDE DEF Good
  <2> QED BY <1>6
<1> QED BY <1>1, <1>7

-----------------------------------------------------------------------------
(* The bench. *)

SharedErrors(devices, i) == IF SharedPort(devices, i) THEN {"shared port"} ELSE {}

\* What the checks say of one device, error by error.
Answers(errors, device, shared, there, monitored, chips) ==
    /\ errors \subseteq {"shared port", "no port", "not connected", "monitored", "chip", "mode", "baud"}
    /\ "shared port" \in errors <=> "shared port" \in shared
    /\ "no port" \in errors <=> device.port = ""
    /\ "not connected" \in errors <=> device.port # "" /\ device.port \notin there
    /\ "monitored" \in errors <=> device.port # "" /\ device.port \in there /\ device.port \in monitored
    /\ "chip" \in errors <=> device.chip \notin chips
    /\ "mode" \in errors <=> device.mode \notin FlashModes
    /\ "baud" \in errors <=> BaudErrors(device.baud) # {}

LEMMA ErrorsAnswer ==
    ASSUME NEW device \in CheckedDevice, NEW shared \in SUBSET {"shared port"}, NEW there, NEW monitored, NEW chips,
           NEW errors,
           errors = shared \cup PortErrors(device, there, monitored)
                       \cup ChoiceErrors(device, chips) \cup BaudErrors(device.baud)
    PROVE  Answers(errors, device, shared, there, monitored, chips)
<1> DEFINE ports == PortErrors(device, there, monitored)
           choices == ChoiceErrors(device, chips)
           bauds == BaudErrors(device.baud)
<1>1. errors = shared \cup ports \cup choices \cup bauds
  OBVIOUS
<1>2. shared \subseteq {"shared port"}
  OBVIOUS
<1>3. /\ ports \subseteq {"no port", "not connected", "monitored"}
      /\ "no port" \in ports <=> device.port = ""
      /\ "not connected" \in ports <=> device.port # "" /\ device.port \notin there
      /\ "monitored" \in ports <=> device.port # "" /\ device.port \in there /\ device.port \in monitored
  BY DEF PortErrors
<1>4. /\ choices \subseteq {"chip", "mode"}
      /\ "chip" \in choices <=> device.chip \notin chips
      /\ "mode" \in choices <=> device.mode \notin FlashModes
  BY DEF ChoiceErrors
<1>5. /\ bauds \subseteq {"baud"}
      /\ "baud" \in bauds <=> bauds # {}
  BY DEF BaudErrors
<1> HIDE DEF ports, choices, bauds
<1>6. errors \subseteq {"shared port", "no port", "not connected", "monitored", "chip", "mode", "baud"}
  BY <1>1, <1>2, <1>3, <1>4, <1>5
<1>7. /\ "shared port" \in errors <=> "shared port" \in shared
      /\ \A e \in {"no port", "not connected", "monitored"} : e \in errors <=> e \in ports
      /\ \A e \in {"chip", "mode"} : e \in errors <=> e \in choices
      /\ "baud" \in errors <=> "baud" \in bauds
  BY <1>1, <1>2, <1>3, <1>4, <1>5
<1>8. "baud" \in errors <=> BaudErrors(device.baud) # {}
  BY <1>5, <1>7 DEF bauds
<1> HIDE DEF bauds
<1> QED BY <1>2, <1>3, <1>4, <1>6, <1>7, <1>8 DEF Answers

\* The ports that a dry run takes for connected
Configured(devices) == {devices[j].port : j \in DOMAIN devices} \ {""}

LEMMA BenchAnswers ==
    ASSUME NEW devices \in Seq(CheckedDevice), NEW connected, NEW monitored, NEW chips, NEW i \in DOMAIN devices
    PROVE  /\ devices[i] \in CheckedDevice
           /\ devices[i].port # "" => devices[i].port \in Configured(devices)
           /\ Answers(BenchErrors(devices, connected, monitored, chips, FALSE)[i], devices[i],
                      SharedErrors(devices, i), connected, monitored, chips)
           /\ Answers(BenchErrors(devices, connected, monitored, chips, TRUE)[i], devices[i],
                      SharedErrors(devices, i), Configured(devices), monitored, chips)
<1>1. devices[i] \in CheckedDevice
  BY ElementOfSeq, LenProperties
<1>2. devices[i].port # "" => devices[i].port \in Configured(devices)
  BY DEF Configured
<1>3. SharedErrors(devices, i) \in SUBSET {"shared port"}
  BY DEF SharedErrors
<1>4. BenchErrors(devices, connected, monitored, chips, FALSE)[i] =
          SharedErrors(devices, i) \cup PortErrors(devices[i], connected, monitored)
             \cup ChoiceErrors(devices[i], chips) \cup BaudErrors(devices[i].baud)
  BY DEF BenchErrors, SharedErrors
<1>5. BenchErrors(devices, connected, monitored, chips, TRUE)[i] =
          SharedErrors(devices, i)
             \cup PortErrors(devices[i], Configured(devices), monitored)
             \cup ChoiceErrors(devices[i], chips) \cup BaudErrors(devices[i].baud)
  BY DEF BenchErrors, SharedErrors, Configured
<1> QED BY <1>1, <1>2, <1>3, <1>4, <1>5, ErrorsAnswer

\* What two such answers have in common, and what it means that there is none.
LEMMA AnswersAgree ==
    ASSUME NEW device \in CheckedDevice, NEW shared, NEW connected, NEW there, NEW monitored, NEW chips,
           NEW up, NEW dry,
           Answers(up, device, shared, connected, monitored, chips),
           Answers(dry, device, shared, there, monitored, chips),
           device.port # "" => device.port \in there
    PROVE  /\ dry \ {"monitored"} = up \ {"monitored", "not connected"}
           /\ "monitored" \in up => "monitored" \in dry
           /\ "chip" \in up <=> device.chip \notin chips
           /\ up = {} => /\ "shared port" \notin shared /\ device.port # ""
                        /\ device.port \in connected \ monitored
                        /\ BaudErrors(device.baud) = {}
<1>1. /\ "shared port" \in up <=> "shared port" \in dry
      /\ "no port" \in up <=> "no port" \in dry
      /\ "not connected" \notin dry
      /\ "monitored" \in up => "monitored" \in dry
      /\ "chip" \in up <=> "chip" \in dry
      /\ "mode" \in up <=> "mode" \in dry
      /\ "baud" \in up <=> "baud" \in dry
  BY DEF Answers
<1>2. dry \ {"monitored"} = up \ {"monitored", "not connected"}
  <2>1. /\ up \subseteq {"shared port", "no port", "not connected", "monitored", "chip", "mode", "baud"}
        /\ dry \subseteq {"shared port", "no port", "not connected", "monitored", "chip", "mode", "baud"}
    BY DEF Answers
  <2> QED BY <1>1, <2>1
<1>3. "chip" \in up <=> device.chip \notin chips
  BY DEF Answers
<1>4. up = {} => /\ "shared port" \notin shared /\ device.port # ""
                 /\ device.port \in connected \ monitored
                 /\ BaudErrors(device.baud) = {}
  BY DEF Answers
<1> QED BY <1>1, <1>2, <1>3, <1>4

UploadErrors(devices, connected, monitored, chips) == BenchErrors(devices, connected, monitored, chips, FALSE)

DryRunErrors(devices, connected, monitored, chips) == BenchErrors(devices, connected, monitored, chips, TRUE)

BenchAgrees(devices, connected, monitored, chips, upload, dryRun) ==
    /\ (\A i \in DOMAIN devices : upload[i] = {}) =>
          /\ \A i, j \in DOMAIN devices : devices[i].port = devices[j].port => i = j
          /\ \A i \in DOMAIN devices : devices[i].port \in connected \ monitored
          /\ \A i \in DOMAIN devices : devices[i].baud \notin BaudRates <=> BaudWarnings(devices[i].baud) # {}
    /\ \A i \in DOMAIN devices :
          devices[i].chip # "" => (i \in UnsupportedChips(devices, chips) <=> "chip" \in upload[i])
    /\ \A i \in DOMAIN devices :
          /\ dryRun[i] \ {"monitored"} = upload[i] \ {"monitored", "not connected"}
          /\ "monitored" \in upload[i] => "monitored" \in dryRun[i]

LEMMA BenchHolds ==
    ASSUME NEW devices \in Seq(CheckedDevice), NEW connected, NEW monitored, NEW chips, AutoChip \in chips,
           NEW upload, upload = UploadErrors(devices, connected, monitored, chips),
           NEW dryRun, dryRun = DryRunErrors(devices, connected, monitored, chips)
    PROVE  BenchAgrees(devices, connected, monitored, chips, upload, dryRun)
<1>1. ASSUME NEW i \in DOMAIN devices
      PROVE  /\ dryRun[i] \ {"monitored"} = upload[i] \ {"monitored", "not connected"}
             /\ "monitored" \in upload[i] => "monitored" \in dryRun[i]
             /\ "chip" \in upload[i] <=> devices[i].chip \notin chips
             /\ upload[i] = {} => /\ ~SharedPort(devices, i) /\ devices[i].port # ""
                                 /\ devices[i].port \in connected \ monitored
                                 /\ BaudErrors(devices[i].baud) = {}
  <2> DEFINE device == devices[i]
             shared == SharedErrors(devices, i)
             up == upload[i]
             dry == dryRun[i]
             there == Configured(devices)
  <2>1. /\ device \in CheckedDevice
        /\ device.port # "" => device.port \in there
        /\ Answers(up, device, shared, connected, monitored, chips)
        /\ Answers(dry, device, shared, there, monitored, chips)
    BY BenchAnswers DEF UploadErrors, DryRunErrors
  <2> HIDE DEF device, shared, up, dry, there
  <2>2. /\ dry \ {"monitored"} = up \ {"monitored", "not connected"}
        /\ "monitored" \in up => "monitored" \in dry
        /\ "chip" \in up <=> device.chip \notin chips
        /\ up = {} => /\ "shared port" \notin shared /\ device.port # ""
                     /\ device.port \in connected \ monitored
                     /\ BaudErrors(device.baud) = {}
    BY <2>1, AnswersAgree
  <2> QED BY <2>2 DEF device, shared, up, dry, SharedErrors
<1>2. ASSUME \A i \in DOMAIN devices : upload[i] = {}
      PROVE  /\ \A i, j \in DOMAIN devices : devices[i].port = devices[j].port => i = j
             /\ \A i \in DOMAIN devices : devices[i].port \in connected \ monitored
             /\ \A i \in DOMAIN devices : devices[i].baud \notin BaudRates <=> BaudWarnings(devices[i].baud) # {}
  <2>1. ASSUME NEW i \in DOMAIN devices
        PROVE  /\ ~SharedPort(devices, i) /\ devices[i].port # ""
               /\ devices[i].port \in connected \ monitored
               /\ BaudErrors(devices[i].baud) = {}
    BY <1>1, <1>2
  <2>2. \A i, j \in DOMAIN devices : devices[i].port = devices[j].port => i = j
    BY <2>1 DEF SharedPort
  <2>3. \A i \in DOMAIN devices : devices[i].baud \notin BaudRates <=> BaudWarnings(devices[i].baud) # {}
    BY <2>1 DEF BaudWarnings
  <2> QED BY <2>1, <2>2, <2>3
<1>3. ASSUME NEW i \in DOMAIN devices, devices[i].chip # ""
      PROVE  i \in UnsupportedChips(devices, chips) <=> "chip" \in upload[i]
  <2> DEFINE chip == devices[i].chip
  <2>1. i \in UnsupportedChips(devices, chips) <=> chip \notin chips /\ chip # "" /\ chip # AutoChip
    BY DEF UnsupportedChips
  <2>2. "chip" \in upload[i] <=> chip \notin chips
    BY <1>1
  <2>3. chip # ""
    BY <1>3
  <2> HIDE DEF chip
  <2> QED BY <2>1, <2>2, <2>3
<1> QED BY <1>1, <1>2, <1>3 DEF BenchAgrees

\* What an edit leaves of a device, and which devices it makes different.
Fields == {"port", "firmware"}

LEMMA FieldHolds ==
    ASSUME NEW devices, devices \in [DOMAIN devices -> EditedDevice], NEW targets, NEW busy,
           NEW field \in Fields, NEW value, NEW d \in DOMAIN devices
    PROVE  LET after == FieldApplied(devices, targets, busy, field, value)[d]
           IN  /\ d \in busy => after = devices[d]
               /\ after[field] = IF d \in targets \ busy THEN value ELSE devices[d][field]
               /\ devices[d] # after <=> d \in FieldPreview(devices, targets, busy, field, value)
<1> DEFINE before == devices[d]
           edited == d \in targets \ busy
           after == IF edited THEN [before EXCEPT ![field] = value] ELSE before
<1>1. FieldApplied(devices, targets, busy, field, value)[d] = after
  BY DEF FieldApplied
<1>2. before = [before EXCEPT ![field] = before[field]] /\ field \in DOMAIN before
  BY DEF EditedDevice, Fields
<1>3. [before EXCEPT ![field] = value][field] = value
  BY <1>2
<1>4. [before EXCEPT ![field] = value] # before <=> before[field] # value
  BY <1>2, <1>3
<1>5. d \in FieldPreview(devices, targets, busy, field, value) <=> edited /\ before[field] # value
  BY DEF FieldPreview
<1> QED BY <1>1, <1>3, <1>4, <1>5

LEMMA TagHolds ==
    ASSUME NEW devices, devices \in [DOMAIN devices -> EditedDevice], NEW targets, NEW tag, NEW d \in DOMAIN devices
    PROVE  LET after == TagApplied(devices, targets, tag)[d]
           IN  /\ d \notin targets => after = devices[d]
               /\ devices[d] # after <=> d \in TagPreview(devices, targets, tag)
<1> DEFINE before == devices[d]
           more == [before EXCEPT !.tags = Append(@, tag)]
           edited == d \in targets /\ ~Contains(before.tags, tag)
<1>1. TagApplied(devices, targets, tag)[d] = IF edited THEN more ELSE before
  BY DEF TagApplied
<1>2. before.tags \in Seq(STRING)
  BY DEF EditedDevice
<1>3. more.tags = Append(before.tags, tag)
  BY DEF EditedDevice
<1>4. Append(before.tags, tag) # before.tags
  <2>1. Len(before.tags) \in Nat
    BY <1>2, LenProperties
  <2>2. Len(Append(before.tags, tag)) = Len(before.tags) + 1
    BY <1>2
  <2> QED BY <2>1, <2>2
<1>5. more # before
  BY <1>3, <1>4
<1>6. d \in TagPreview(devices, targets, tag) <=> edited
  BY DEF TagPreview
<1> HIDE DEF before, more
<1> QED BY <1>1, <1>5, <1>6 DEF before

LEMMA FilterHolds ==
    ASSUME NEW devices, devices \in [DOMAIN devices -> ListedDevice], DOMAIN devices # {}, NEW before
    PROVE  RowsVisible(devices, "", TagSelected(devices, before)) # {}
<1>1. CASE before \in TagsInUse(devices)
  <2>1. PICK d \in DOMAIN devices : before \in ToSet(devices[d].tags)
    BY <1>1 DEF TagsInUse
  <2>2. Contains(devices[d].tags, before)
    <3>1. devices[d].tags \in Seq(STRING)
      BY DEF ListedDevice
    <3> QED BY <2>1, <3>1, LenProperties DEF ToSet, Contains
  <2>3. d \in RowsVisible(devices, "", before)
    BY <2>2 DEF RowsVisible
  <2> QED BY <1>1, <2>3 DEF TagSelected
<1>2. CASE before \notin TagsInUse(devices)
  <2>1. TagSelected(devices, before) = AllTags
    BY <1>2 DEF TagSelected
  <2>2. RowsVisible(devices, "", AllTags) = DOMAIN devices
    BY DEF RowsVisible
  <2> QED BY <2>1, <2>2
<1> QED BY <1>1, <1>2

-----------------------------------------------------------------------------
(* Security settings. *)

\* What it means for a device that the checks say nothing.
LEMMA ChecksPassed ==
    ASSUME NEW device \in SecuredDevice, UploadSecurityErrors(device) = {}
    PROVE  /\ device.sec.custom # "bad"
           /\ device.sec.fe \/ device.sec.sb => device.chip # "auto"
           /\ device.sec.fe => /\ IsLegacy(device.chip) \/ device.sec.fe_block # ""
                               /\ device.sec.key_source = "existing" => Found(device.sec.fe_key)
           /\ device.sec.sb => /\ IsLegacy(device.chip) \/ device.sec.sb_block # ""
                               /\ device.sec.key_source = "existing" => Found(device.sec.sb_key)
<1> DEFINE sec == device.sec
           feErrors == KeyErrors(sec, sec.fe_key, "no key", "key not found") \cup BlockErrors(device.chip, sec.fe_block, "key block")
           sbErrors == KeyErrors(sec, sec.sb_key, "no signing key", "signing key not found")
                          \cup BlockErrors(device.chip, sec.sb_block, "digest block")
<1>1. sec.fe_key \in KeyFiles /\ sec.sb_key \in KeyFiles /\ sec.fe \in BOOLEAN /\ sec.sb \in BOOLEAN
  BY DEF SecuredDevice, Security
<1>2. sec.custom # "bad" /\ SecurityErrors(device) = {}
  BY DEF UploadSecurityErrors
<1>3. sec.fe \/ sec.sb => ChipErrors(device) = {} /\ (sec.fe => feErrors = {}) /\ (sec.sb => sbErrors = {})
  BY <1>2 DEF SecurityErrors
<1>4. sec.fe \/ sec.sb => device.chip # "auto"
  BY <1>3 DEF ChipErrors
<1>5. ASSUME NEW file \in KeyFiles, NEW e1, NEW e2, KeyErrors(sec, file, e1, e2) = {}, sec.key_source = "existing"
      PROVE  Found(file)
  BY <1>5 DEF KeyErrors, Found, KeyFiles
<1>6. ASSUME NEW block, NEW e, BlockErrors(device.chip, block, e) = {}
      PROVE  IsLegacy(device.chip) \/ block # ""
  BY <1>6 DEF BlockErrors
<1>7. sec.fe => /\ KeyErrors(sec, sec.fe_key, "no key", "key not found") = {}
                /\ BlockErrors(device.chip, sec.fe_block, "key block") = {}
  BY <1>3
<1>8. sec.sb => /\ KeyErrors(sec, sec.sb_key, "no signing key", "signing key not found") = {}
                /\ BlockErrors(device.chip, sec.sb_block, "digest block") = {}
  BY <1>3
<1> HIDE DEF sec
<1>9. /\ sec.fe => /\ IsLegacy(device.chip) \/ sec.fe_block # ""
                   /\ sec.key_source = "existing" => Found(sec.fe_key)
      /\ sec.sb => /\ IsLegacy(device.chip) \/ sec.sb_block # ""
                   /\ sec.key_source = "existing" => Found(sec.sb_key)
  BY <1>1, <1>5, <1>6, <1>7, <1>8
<1> QED BY <1>2, <1>4, <1>9 DEF sec

\* A command that can be run
Burnable(device, burn, file) ==
    /\ burn # Refused
    /\ burn.chip # "detect"
    /\ burn.block # ""
    /\ burn.key = file

LEMMA FlashKeyBurns ==
    ASSUME NEW device \in SecuredDevice, UploadSecurityErrors(device) = {}, device.sec.fe
    PROVE  Burnable(device, BurnFlashKey(device), device.sec.fe_key)
<1> DEFINE burn == BurnFlashKey(device)
<1>1. /\ burn.command = "burn-key" /\ burn.chip = ChipOption(device.chip)
      /\ burn.block = IF IsLegacy(device.chip) THEN "flash_encryption" ELSE device.sec.fe_block
      /\ burn.key = device.sec.fe_key
  BY ChecksPassed DEF BurnFlashKey
<1> HIDE DEF burn
<1>2. burn # Refused
  BY <1>1 DEF Refused
<1>3. burn.chip # "detect"
  BY <1>1, ChecksPassed DEF ChipOption, SecuredDevice, Chips
<1> QED BY <1>1, <1>2, <1>3, ChecksPassed DEF Burnable, burn

LEMMA SigningKeyBurns ==
    ASSUME NEW device \in SecuredDevice, UploadSecurityErrors(device) = {}, device.sec.sb
    PROVE  /\ Burnable(device, BurnSigningKey(device), device.sec.sb_key)
           /\ IsLegacy(device.chip) =>
                 BurnSigningKey(device).block = IF device.sec.sb_version = "1" THEN "secure_boot_v1" ELSE "secure_boot_v2"
<1> DEFINE burn == BurnSigningKey(device)
<1>1. /\ burn.command = IF IsLegacy(device.chip) THEN "burn-key" ELSE "burn-key-digest"
      /\ burn.chip = ChipOption(device.chip)
      /\ burn.block = IF ~IsLegacy(device.chip) THEN device.sec.sb_block
                      ELSE IF device.sec.sb_version = "1" THEN "secure_boot_v1" ELSE "secure_boot_v2"
      /\ burn.key = device.sec.sb_key
  BY ChecksPassed DEF BurnSigningKey
<1> HIDE DEF burn
<1>2. burn # Refused
  BY <1>1 DEF Refused
<1>3. burn.chip # "detect"
  BY <1>1, ChecksPassed DEF ChipOption, SecuredDevice, Chips
<1> QED BY <1>1, <1>2, <1>3, ChecksPassed DEF Burnable, burn

\* The two commands are the one list, and as many as the features.
LEMMA BurnsListed ==
    ASSUME NEW device \in SecuredDevice
    PROVE  LET sec == device.sec
               burns == Burns(device)
           IN  /\ Len(burns) = Cardinality({f \in {"fe", "sb"} : sec[f]})
               /\ DOMAIN burns = 1..Len(burns)
               /\ sec.fe /\ sec.sb => Len(burns) = 2 /\ burns[1] = BurnFlashKey(device) /\ burns[2] = BurnSigningKey(device)
               /\ sec.fe /\ ~sec.sb => Len(burns) = 1 /\ burns[1] = BurnFlashKey(device)
               /\ ~sec.fe /\ sec.sb => Len(burns) = 1 /\ burns[1] = BurnSigningKey(device)
               /\ ~sec.fe /\ ~sec.sb => Len(burns) = 0
<1> DEFINE sec == device.sec
           fe == BurnFlashKey(device)
           sb == BurnSigningKey(device)
<1>0. sec.fe \in BOOLEAN /\ sec.sb \in BOOLEAN
  BY DEF SecuredDevice, Security
<1>1. Burns(device) = (IF sec.fe THEN <<fe>> ELSE <<>>) \o (IF sec.sb THEN <<sb>> ELSE <<>>)
  BY DEF Burns
<1> HIDE DEF fe, sb
<1> DEFINE first == IF sec.fe THEN <<fe>> ELSE <<>>
           second == IF sec.sb THEN <<sb>> ELSE <<>>
<1>a. /\ first \in Seq({fe, sb}) /\ Len(first) = IF sec.fe THEN 1 ELSE 0
      /\ sec.fe => first[1] = fe
  <2>1. <<fe>> \in Seq({fe, sb}) /\ Len(<<fe>>) = 1 /\ <<fe>>[1] = fe
    OBVIOUS
  <2>2. <<>> \in Seq({fe, sb}) /\ Len(<<>>) = 0
    BY EmptySeq
  <2>3. CASE sec.fe
    <3>1. first = <<fe>>
      BY <2>3
    <3> HIDE DEF first
    <3> QED BY <2>1, <2>3, <3>1
  <2>4. CASE ~sec.fe
    <3>1. first = <<>>
      BY <2>4
    <3> HIDE DEF first
    <3> QED BY <2>2, <2>4, <3>1
  <2> QED BY <2>3, <2>4
<1>b. /\ second \in Seq({fe, sb}) /\ Len(second) = IF sec.sb THEN 1 ELSE 0
      /\ sec.sb => second[1] = sb
  <2>1. <<sb>> \in Seq({fe, sb}) /\ Len(<<sb>>) = 1 /\ <<sb>>[1] = sb
    OBVIOUS
  <2>2. <<>> \in Seq({fe, sb}) /\ Len(<<>>) = 0
    BY EmptySeq
  <2>3. CASE sec.sb
    <3>1. second = <<sb>>
      BY <2>3
    <3> HIDE DEF second
    <3> QED BY <2>1, <2>3, <3>1
  <2>4. CASE ~sec.sb
    <3>1. second = <<>>
      BY <2>4
    <3> HIDE DEF second
    <3> QED BY <2>2, <2>4, <3>1
  <2> QED BY <2>3, <2>4
<1>c. Burns(device) = first \o second
  BY <1>1
<1> HIDE DEF first, second
<1>d. /\ Burns(device) \in Seq({fe, sb})
      /\ Len(Burns(device)) = Len(first) + Len(second)
      /\ \A i \in 1..Len(first) : Burns(device)[i] = first[i]
      /\ \A i \in 1..Len(second) : Burns(device)[Len(first) + i] = second[i]
  BY <1>a, <1>b, <1>c, ConcatProperties
<1>2. /\ DOMAIN Burns(device) = 1..Len(Burns(device))
      /\ Len(Burns(device)) = (IF sec.fe THEN 1 ELSE 0) + (IF sec.sb THEN 1 ELSE 0)
      /\ sec.fe => Burns(device)[1] = fe
      /\ sec.sb => Burns(device)[IF sec.fe THEN 2 ELSE 1] = sb
  BY <1>a, <1>b, <1>d, LenProperties
<1>3. /\ Cardinality({"fe", "sb"}) = 2 /\ Cardinality({"fe"}) = 1 /\ Cardinality({"sb"}) = 1 /\ Cardinality({}) = 0
  <2>1. Cardinality({"fe"}) = 1 /\ Cardinality({"sb"}) = 1 /\ Cardinality({}) = 0 /\ IsFiniteSet({"fe"})
    BY FS_Singleton, FS_EmptySet
  <2>2. {"fe"} \cup {"sb"} = {"fe", "sb"} /\ "sb" \notin {"fe"}
    OBVIOUS
  <2>3. Cardinality({"fe"} \cup {"sb"}) = Cardinality({"fe"}) + 1
    BY <2>1, <2>2, FS_AddElement
  <2> QED BY <2>1, <2>2, <2>3
<1>4. {f \in {"fe", "sb"} : sec[f]} =
          IF sec.fe THEN IF sec.sb THEN {"fe", "sb"} ELSE {"fe"} ELSE IF sec.sb THEN {"sb"} ELSE {}
  BY <1>0
<1>5. CASE sec.fe /\ sec.sb
  BY <1>2, <1>3, <1>4, <1>5 DEF fe, sb
<1>6. CASE sec.fe /\ ~sec.sb
  BY <1>2, <1>3, <1>4, <1>6 DEF fe
<1>7. CASE ~sec.fe /\ sec.sb
  BY <1>2, <1>3, <1>4, <1>7 DEF sb
<1>8. CASE ~sec.fe /\ ~sec.sb
  <2>1. Cardinality({f \in {"fe", "sb"} : sec[f]}) = 0
    BY <1>3, <1>4, <1>8
  <2> QED BY <1>2, <1>8, <2>1
<1> QED BY <1>0, <1>5, <1>6, <1>7, <1>8

LEMMA BurnsHold ==
    ASSUME NEW device \in SecuredDevice, UploadSecurityErrors(device) = {}
    PROVE  LET sec == device.sec
               burns == Burns(device)
           IN  /\ Len(burns) = Cardinality({f \in {"fe", "sb"} : sec[f]})
               /\ \A i \in DOMAIN burns :
                     /\ burns[i] # Refused /\ burns[i].chip # "detect" /\ burns[i].block # ""
                     /\ sec.key_source = "existing" =>
                           /\ Found(burns[i].key)
                           /\ SecurityWarnings(device) = {} /\ sec.fe /\ i = 1 => burns[i].key = "aes"
               /\ sec.sb /\ IsLegacy(device.chip) /\ VersionOffered(sec) =>
                     (GenerateSigningKey(sec).scheme = "") = (Last(burns).block = "secure_boot_v1")
<1> DEFINE sec == device.sec
           burns == Burns(device)
<1>0. sec.fe \in BOOLEAN /\ sec.sb \in BOOLEAN /\ sec.fe_key \in KeyFiles
  BY DEF SecuredDevice, Security
<1>1. sec.fe => Burnable(device, BurnFlashKey(device), sec.fe_key)
  BY FlashKeyBurns
<1>2. sec.sb => Burnable(device, BurnSigningKey(device), sec.sb_key)
  BY SigningKeyBurns
<1>3. /\ sec.fe /\ sec.key_source = "existing" => Found(sec.fe_key)
      /\ sec.sb /\ sec.key_source = "existing" => Found(sec.sb_key)
  BY ChecksPassed
<1>4. sec.fe /\ sec.key_source = "existing" /\ SecurityWarnings(device) = {} => sec.fe_key = "aes"
  BY <1>0, <1>3 DEF SecurityWarnings, Found, KeyFiles
<1>5. /\ Len(burns) = Cardinality({f \in {"fe", "sb"} : sec[f]})
      /\ DOMAIN burns = 1..Len(burns)
      /\ sec.fe /\ sec.sb => Len(burns) = 2 /\ burns[1] = BurnFlashKey(device) /\ burns[2] = BurnSigningKey(device)
      /\ sec.fe /\ ~sec.sb => Len(burns) = 1 /\ burns[1] = BurnFlashKey(device)
      /\ ~sec.fe /\ sec.sb => Len(burns) = 1 /\ burns[1] = BurnSigningKey(device)
      /\ ~sec.fe /\ ~sec.sb => Len(burns) = 0
  BY BurnsListed
<1>6. ASSUME sec.sb, IsLegacy(device.chip), VersionOffered(sec)
      PROVE  (GenerateSigningKey(sec).scheme = "") = (Last(burns).block = "secure_boot_v1")
  <2>1. Last(burns) = BurnSigningKey(device)
    BY <1>0, <1>5, <1>6 DEF Last
  <2>2. Last(burns).block = IF sec.sb_version = "1" THEN "secure_boot_v1" ELSE "secure_boot_v2"
    BY <1>6, <2>1, SigningKeyBurns
  <2>3. GenerateSigningKey(sec).scheme = IF sec.sb_version = "2" THEN sec.sb_scheme ELSE ""
    BY DEF GenerateSigningKey
  <2>4. sec.sb_version \in {"1", "2"} /\ sec.sb_scheme \in {"rsa3072", "ecdsa256"}
    BY <1>6 DEF VersionOffered, VersionItems, SchemeItems, ToSet
  <2> HIDE DEF sec, burns
  <2> QED BY <2>2, <2>3, <2>4
<1>7. ASSUME NEW i \in DOMAIN burns
      PROVE  \/ i = 1 /\ sec.fe /\ burns[i] = BurnFlashKey(device)
             \/ sec.sb /\ burns[i] = BurnSigningKey(device) /\ (i = 1 => ~sec.fe)
  <2> HIDE DEF sec, burns
  <2> QED BY <1>0, <1>5, <1>7
<1>8. ASSUME NEW i \in DOMAIN burns
      PROVE  /\ burns[i] # Refused /\ burns[i].chip # "detect" /\ burns[i].block # ""
             /\ sec.key_source = "existing" =>
                   /\ Found(burns[i].key)
                   /\ SecurityWarnings(device) = {} /\ sec.fe /\ i = 1 => burns[i].key = "aes"
  <2> DEFINE burn == burns[i]
  <2>1. CASE i = 1 /\ sec.fe /\ burn = BurnFlashKey(device)
    <3>1. Burnable(device, burn, sec.fe_key)
      BY <1>1, <2>1
    <3> HIDE DEF burn, sec
    <3>2. /\ burn # Refused /\ burn.chip # "detect" /\ burn.block # "" /\ burn.key = sec.fe_key
      BY <3>1 DEF Burnable
    <3>3. /\ burn # Refused /\ burn.chip # "detect" /\ burn.block # ""
          /\ sec.key_source = "existing" =>
                   /\ Found(burn.key)
                   /\ SecurityWarnings(device) = {} /\ sec.fe /\ i = 1 => burn.key = "aes"
      BY <1>3, <1>4, <2>1, <3>2
    <3> QED BY <3>3 DEF burn
  <2>2. CASE sec.sb /\ burn = BurnSigningKey(device) /\ (i = 1 => ~sec.fe)
    <3>1. Burnable(device, burn, sec.sb_key)
      BY <1>2, <2>2
    <3> HIDE DEF burn, sec
    <3>2. /\ burn # Refused /\ burn.chip # "detect" /\ burn.block # "" /\ burn.key = sec.sb_key
      BY <3>1 DEF Burnable
    <3>3. /\ burn # Refused /\ burn.chip # "detect" /\ burn.block # ""
          /\ sec.key_source = "existing" =>
                   /\ Found(burn.key)
                   /\ SecurityWarnings(device) = {} /\ sec.fe /\ i = 1 => burn.key = "aes"
      BY <1>3, <2>2, <3>2
    <3> QED BY <3>3 DEF burn
  <2> QED BY <1>7, <2>1, <2>2
<1> HIDE DEF burns
<1> QED BY <1>5, <1>6, <1>8 DEF burns

\* A copy has no key that was generated for the device.
LEMMA CloneHolds ==
    ASSUME NEW device \in SecuredDevice, device.sec.key_source \in Sources,
           NEW clone, clone = Clone(device), NEW key \in {"fe_key", "sb_key"}, clone.sec[key] = device.sec[key]
    PROVE  clone.sec[key] = "none" \/ clone.sec.key_source = "existing"
<1>1. device.sec \in Security
  BY DEF SecuredDevice
<1>2. PICK sec \in Security : device.sec = sec
  BY <1>1
<1>3. clone.sec = IF sec.key_source = "generate" THEN [sec EXCEPT !.fe_key = "none", !.sb_key = "none"] ELSE sec
  BY <1>2 DEF Clone
<1>4. CASE sec.key_source = "generate"
  <2>1. [sec EXCEPT !.fe_key = "none", !.sb_key = "none"][key] = "none"
    BY DEF Security
  <2> QED BY <1>3, <1>4, <2>1
<1>5. CASE sec.key_source = "existing"
  BY <1>3, <1>5
<1> QED BY <1>2, <1>4, <1>5 DEF Sources

LEMMA ItemsOffered ==
    ToSet(ModeItems) = {"development", "release"} /\ ToSet(VersionItems) = {"1", "2"}
    /\ ToSet(SchemeItems) = {"rsa3072", "ecdsa256"}
<1>1. \A a, b : ToSet(<<a, b>>) = {a, b}
  <2> SUFFICES ASSUME NEW a, NEW b PROVE ToSet(<<a, b>>) = {a, b}
    OBVIOUS
  <2>1. DOMAIN <<a, b>> = {1, 2} /\ <<a, b>>[1] = a /\ <<a, b>>[2] = b
    OBVIOUS
  <2> QED BY <2>1 DEF ToSet
<1> QED BY <1>1 DEF ModeItems, VersionItems, SchemeItems

\* What a list shows of a value that it has is the value.
LEMMA ShownAsIs ==
    ASSUME NEW sec \in Security, Offered(sec), NEW before
    PROVE  /\ \A setting \in DOMAIN sec : Show(sec, before)[setting] = sec[setting]
           /\ Show(sec, before)["sb_source"] = sec.key_source
<1>1. /\ sec.mode \in {"development", "release"} /\ sec.sb_version \in {"1", "2"}
      /\ sec.sb_scheme \in {"rsa3072", "ecdsa256"} /\ sec.key_source \in {"generate", "existing"}
  BY ItemsOffered DEF Offered, VersionOffered, Sources
<1>2. Choice(ModeItems, sec.mode) = sec.mode /\ Choice(SourceItems, sec.key_source) = sec.key_source
  BY <1>1 DEF Choice, ModeItems, SourceItems
<1>3. /\ ChoiceOrStay(VersionItems, sec.sb_version, before.sb_version) = sec.sb_version
      /\ ChoiceOrStay(SchemeItems, sec.sb_scheme, before.sb_scheme) = sec.sb_scheme
  BY <1>1 DEF ChoiceOrStay, VersionItems, SchemeItems
<1>4. ASSUME NEW setting \in DOMAIN sec
      PROVE  Show(sec, before)[setting] = sec[setting]
  <2>1. "fe_source" \notin DOMAIN sec /\ "sb_source" \notin DOMAIN sec
    BY DEF Security
  <2>2. Show(sec, before)[setting] =
          CASE setting = "mode" -> sec.mode
            [] setting = "sb_version" -> sec.sb_version
            [] setting = "sb_scheme" -> sec.sb_scheme
            [] setting \in {"fe_source", "sb_source"} -> sec.key_source
            [] OTHER -> sec[setting]
    BY <1>2, <1>3 DEF Show
  <2> QED BY <2>1, <2>2
<1>5. Show(sec, before)["sb_source"] = sec.key_source
  BY <1>2 DEF Show
<1> QED BY <1>4, <1>5

\* The panel commits what it was shown, apart from what was touched.
IsAControl(touch) ==
    touch # <<>> =>
        /\ touch[1] # "key_source"
        /\ touch[1] \in {"fe_block", "sb_block"} => touch[2] # ""

TouchedValue(sec, touch, setting) ==
    IF touch # <<>> /\ SettingOf(touch[1]) = setting THEN touch[2] ELSE sec[setting]

LEMMA TouchHolds ==
    ASSUME NEW sec \in Security, Offered(sec), NEW before, NEW touch, IsAControl(touch),
           NEW committed, committed = Commit(Touch(Show(sec, before), touch)),
           NEW setting \in DOMAIN sec
    PROVE  committed[setting] = TouchedValue(sec, touch, setting)
<1> DEFINE shown == Show(sec, before)
           controls == Touch(shown, touch)
<1>1. DOMAIN shown = DOMAIN sec \cup {"fe_source", "sb_source"} /\ shown = [field \in DOMAIN shown |-> shown[field]]
  BY DEF Show
<1>2. DOMAIN controls = DOMAIN shown
  BY <1>1 DEF Touch
<1>3. \A field \in DOMAIN shown :
         controls[field] = IF touch # <<>> /\ field = touch[1] THEN touch[2] ELSE shown[field]
  BY <1>1 DEF Touch
<1> HIDE DEF controls, shown
<1>4. setting \notin {"fe_source", "sb_source"} /\ setting \in DOMAIN controls \ {"fe_source", "sb_source"}
  <2>1. "fe_source" \notin DOMAIN sec /\ "sb_source" \notin DOMAIN sec
    BY DEF Security
  <2> QED BY <1>1, <1>2, <2>1
<1>5. committed[setting] =
         CASE setting = "key_source" -> controls["sb_source"]
           [] setting = "fe_block" -> IF controls["fe_block"] = "" THEN "BLOCK_KEY0" ELSE controls["fe_block"]
           [] setting = "sb_block" -> IF controls["sb_block"] = "" THEN "BLOCK_KEY1" ELSE controls["sb_block"]
           [] OTHER -> controls[setting]
  BY <1>4 DEF Commit, controls, shown
<1>6. shown[setting] = sec[setting] /\ shown["sb_source"] = sec["key_source"]
  <2>1. shown[setting] = sec[setting]
    BY <1>4, ShownAsIs DEF shown
  <2>2. shown["sb_source"] = sec.key_source
    BY ShownAsIs DEF shown
  <2> QED BY <2>1, <2>2
<1>7. controls[setting] = IF touch # <<>> /\ setting = touch[1] THEN touch[2] ELSE sec[setting]
  BY <1>1, <1>3, <1>6
<1>8. CASE setting = "key_source"
  <2>1. controls["sb_source"] = IF touch # <<>> /\ "sb_source" = touch[1] THEN touch[2] ELSE sec["key_source"]
    BY <1>1, <1>3, <1>6
  <2> QED BY <1>5, <1>8, <2>1 DEF SettingOf, TouchedValue, IsAControl
<1>9. CASE setting = "fe_block"
  <2>1. controls[setting] # ""
    BY <1>7, <1>9 DEF Offered, IsAControl
  <2> QED BY <1>5, <1>7, <1>9, <2>1 DEF SettingOf, TouchedValue
<1>10. CASE setting = "sb_block"
  <2>1. controls[setting] # ""
    BY <1>7, <1>10 DEF Offered, IsAControl
  <2> QED BY <1>5, <1>7, <1>10, <2>1 DEF SettingOf, TouchedValue
<1>11. CASE setting \notin {"key_source", "fe_block", "sb_block"}
  BY <1>4, <1>5, <1>7, <1>11 DEF SettingOf, TouchedValue
<1> QED BY <1>8, <1>9, <1>10, <1>11

\* What a line does to the state, in the words of the property.
LEMMA LineSays ==
    ASSUME NEW state, NEW line \in SUBSET {"enabled", "disabled", "true", "false"}
    PROVE  StateAfter(state, line) = IF Says(line) = "nothing" THEN state ELSE Says(line)
<1> DEFINE words == {"enabled", "disabled", "true", "false"}
<1>1. CASE line = {}
  BY <1>1 DEF StateAfter, Says
<1>2. CASE line # {}
  <2>1. line \cap words # {}
    BY <1>2
  <2> DEFINE says == IF "enabled" \in line THEN "on"
                     ELSE IF "disabled" \in line THEN "off"
                     ELSE IF "true" \in line THEN "on" ELSE "off"
  <2>2. Says(line) = says /\ says # "nothing"
    BY <2>1 DEF Says
  <2>3. "enabled" \notin line /\ "disabled" \notin line /\ "true" \notin line => "false" \in line
    BY <1>2
  <2>4. StateAfter(state, line) = says
    BY <1>2, <2>3 DEF StateAfter
  <2> QED BY <2>2, <2>4
<1> QED BY <1>1, <1>2

\* g tells the state after each of the first m lines.
Reads(lines, m, g) ==
    g = [i \in 0..m |-> IF i = 0 THEN "unknown" ELSE StateAfter(g[i - 1], lines[i])]

LEMMA ReadsExist ==
    ASSUME NEW lines, NEW n \in Nat
    PROVE  \E g : Reads(lines, n, g)
<1> DEFINE S == {m \in Nat : \E g : Reads(lines, m, g)}
<1>1. 0 \in S
  <2>1. Reads(lines, 0, [i \in 0..0 |-> "unknown"])
    BY DEF Reads
  <2> QED BY <2>1
<1>2. ASSUME NEW m \in S PROVE m + 1 \in S
  <2>1. PICK g : Reads(lines, m, g)
    OBVIOUS
  <2> DEFINE next == StateAfter(g[m], lines[m + 1])
             h == [i \in 0..(m + 1) |-> IF i = m + 1 THEN next ELSE g[i]]
             step(i) == IF i = 0 THEN "unknown" ELSE StateAfter(h[i - 1], lines[i])
  <2>2. \A i \in 0..m : h[i] = g[i]
    OBVIOUS
  <2>3. h[m + 1] = next
    OBVIOUS
  <2>4. \A i \in 0..m : g[i] = IF i = 0 THEN "unknown" ELSE StateAfter(g[i - 1], lines[i])
    BY <2>1 DEF Reads
  <2>5. \A i \in 0..(m + 1) : h[i] = step(i)
    <3>1. ASSUME NEW i \in 0..m PROVE h[i] = step(i)
      <4>1. i # 0 => i - 1 \in 0..m /\ h[i - 1] = g[i - 1]
        BY <2>2
      <4> HIDE DEF h
      <4> QED BY <2>2, <2>4, <4>1
    <3>2. h[m + 1] = step(m + 1)
      <4>1. m + 1 # 0 /\ (m + 1) - 1 = m /\ h[m] = g[m]
        BY <2>2
      <4> HIDE DEF h
      <4> QED BY <2>3, <4>1
    <3> HIDE DEF h, step
    <3> QED BY <3>1, <3>2
  <2>6. h = [i \in 0..(m + 1) |-> step(i)]
    <3>1. h = [i \in 0..(m + 1) |-> h[i]]
      OBVIOUS
    <3> HIDE DEF h, step
    <3> QED BY <3>1, <2>5
  <2>7. Reads(lines, m + 1, h)
    <3> HIDE DEF h
    <3> QED BY <2>6 DEF Reads
  <2> HIDE DEF h
  <2> QED BY <2>7
<1>3. S \subseteq Nat
  OBVIOUS
<1> HIDE DEF S
<1>4. S = Nat
  BY <1>1, <1>2, <1>3, ByInduction
<1> QED BY <1>4 DEF S

LEMMA StateOfIs ==
    ASSUME NEW lines, Len(lines) \in Nat
    PROVE  \E g : Reads(lines, Len(lines), g) /\ StateOf(lines) = g[Len(lines)]
<1> DEFINE g == CHOOSE g : Reads(lines, Len(lines), g)
<1>1. Reads(lines, Len(lines), g)
  BY ReadsExist
<1>2. StateOf(lines) = g[Len(lines)]
  BY DEF StateOf, Reads
<1> QED BY <1>1, <1>2

\* The lines among the first m that say something, and the last of them
Saying(lines, m) == {i \in 1..m : Says(lines[i]) # "nothing"}
LastOf(numbers) == CHOOSE i \in numbers : \A j \in numbers : j <= i

LEMMA LinesHold ==
    ASSUME NEW lines \in Seq(SUBSET {"enabled", "disabled", "true", "false"})
    PROVE  StateOf(lines) = IF Saying(lines, Len(lines)) = {} THEN "unknown"
                            ELSE Says(lines[LastOf(Saying(lines, Len(lines)))])
<1> DEFINE N == Len(lines)
           Told(m) == IF Saying(lines, m) = {} THEN "unknown" ELSE Says(lines[LastOf(Saying(lines, m))])
<1>1. N \in Nat /\ DOMAIN lines = 1..N
  BY LenProperties
<1>2. \A i \in 1..N : lines[i] \in SUBSET {"enabled", "disabled", "true", "false"}
  BY <1>1, ElementOfSeq
<1>3. PICK g : Reads(lines, N, g) /\ StateOf(lines) = g[N]
  BY <1>1, StateOfIs
<1>4. g[0] = "unknown" /\ \A i \in 0..N : i # 0 => g[i] = StateAfter(g[i - 1], lines[i])
  BY <1>1, <1>3 DEF Reads
<1>5. Told(0) = "unknown"
  BY DEF Saying
<1>6. ASSUME NEW m \in Nat, m + 1 \in 1..N PROVE Told(m + 1) = StateAfter(Told(m), lines[m + 1])
  <2>1. StateAfter(Told(m), lines[m + 1]) =
            IF Says(lines[m + 1]) = "nothing" THEN Told(m) ELSE Says(lines[m + 1])
    BY <1>2, <1>6, LineSays
  <2>2. CASE Says(lines[m + 1]) = "nothing"
    <3>1. Saying(lines, m + 1) = Saying(lines, m)
      BY <2>2 DEF Saying
    <3> QED BY <2>1, <2>2, <3>1
  <2>3. CASE Says(lines[m + 1]) # "nothing"
    <3>1. m + 1 \in Saying(lines, m + 1) /\ \A j \in Saying(lines, m + 1) : j \in Nat /\ j <= m + 1
      BY <2>3 DEF Saying
    <3>2. LastOf(Saying(lines, m + 1)) = m + 1
      <4> DEFINE all == Saying(lines, m + 1)
      <4>1. \E i \in all : \A j \in all : j <= i
        BY <3>1
      <4>2. LastOf(all) \in all /\ \A j \in all : j <= LastOf(all)
        <5> HIDE DEF all
        <5> QED BY <4>1 DEF LastOf
      <4>3. m + 1 <= LastOf(all) /\ LastOf(all) <= m + 1 /\ LastOf(all) \in Nat
        BY <3>1, <4>2
      <4> HIDE DEF all
      <4> QED BY <4>3 DEF all
    <3>3. Saying(lines, m + 1) # {}
      BY <3>1
    <3> QED BY <2>1, <2>3, <3>2, <3>3
  <2> QED BY <2>2, <2>3
<1> DEFINE S == {m \in Nat : m <= N => g[m] = Told(m)}
<1>7. S = Nat
  <2>1. 0 \in S
    BY <1>4, <1>5
  <2>2. ASSUME NEW m \in S PROVE m + 1 \in S
    <3>1. ASSUME m + 1 <= N PROVE g[m + 1] = Told(m + 1)
      <4>1. m \in Nat /\ m + 1 \in 1..N /\ m + 1 \in 0..N /\ m + 1 # 0 /\ (m + 1) - 1 = m /\ g[m] = Told(m)
        BY <1>1, <3>1
      <4> HIDE DEF Told
      <4>2. g[m + 1] = StateAfter(g[m], lines[m + 1])
        BY <1>4, <4>1
      <4> QED BY <1>6, <4>1, <4>2
    <3> HIDE DEF Told
    <3> QED BY <3>1
  <2>3. S \subseteq Nat
    OBVIOUS
  <2> HIDE DEF S
  <2> QED BY <2>1, <2>2, <2>3, ByInduction
<1>8. g[N] = Told(N)
  <2> HIDE DEF Told
  <2> QED BY <1>1, <1>7
<1> QED BY <1>3, <1>8

-----------------------------------------------------------------------------
(* The steps.  A task is looked at by the one action of its kind, and a     *)
(* result is about the task that is still there.                            *)

LEMMA StepOfKind ==
    ASSUME Next
    PROVE  /\ task' = task
           /\ task.kind = "project" => SaveAndOpen
           /\ task.kind = "file" => OpenFile
           /\ task.kind = "recent" => UseProjects
           /\ task.kind = "csv" => ImportFromCsv
           /\ task.kind = "bundle" => ImportFromBundle
           /\ task.kind = "burns" => BuildBurns
           /\ task.kind = "panel" => TouchPanel
           /\ task.kind = "lines" => ReadState
           /\ task.kind = "int" => ReadInt
           /\ task.kind = "float" => ReadFloat
           /\ task.kind = "choice" => ReadChoice
           /\ task.kind = "save" => SaveSettings
           /\ task.kind = "bench" => CheckBench
           /\ task.kind = "edit" => EditBench
           /\ task.kind = "filter" => FilterRows
<1>1. SaveAndOpen => task.kind = "project" /\ task' = task
  BY DEF SaveAndOpen, Makes
<1>2. OpenFile => task.kind = "file" /\ task' = task
  BY DEF OpenFile, Makes
<1>3. UseProjects => task.kind = "recent" /\ task' = task
  BY DEF UseProjects, Makes
<1>4. ImportFromCsv => task.kind = "csv" /\ task' = task
  BY DEF ImportFromCsv, Makes
<1>5. ImportFromBundle => task.kind = "bundle" /\ task' = task
  BY DEF ImportFromBundle, Makes
<1>6. BuildBurns => task.kind = "burns" /\ task' = task
  BY DEF BuildBurns, Makes
<1>7. TouchPanel => task.kind = "panel" /\ task' = task
  BY DEF TouchPanel, Makes
<1>8. ReadState => task.kind = "lines" /\ task' = task
  BY DEF ReadState, Makes
<1>9. ReadInt => task.kind = "int" /\ task' = task
  BY DEF ReadInt, Makes
<1>10. ReadFloat => task.kind = "float" /\ task' = task
  BY DEF ReadFloat, Makes
<1>11. ReadChoice => task.kind = "choice" /\ task' = task
  BY DEF ReadChoice, Makes
<1>12. SaveSettings => task.kind = "save" /\ task' = task
  BY DEF SaveSettings, Makes
<1>13. CheckBench => task.kind = "bench" /\ task' = task
  BY DEF CheckBench, Makes
<1>14. EditBench => task.kind = "edit" /\ task' = task
  BY DEF EditBench, Makes
<1>15. FilterRows => task.kind = "filter" /\ task' = task
  BY DEF FilterRows, Makes
<1> QED BY <1>1, <1>2, <1>3, <1>4, <1>5, <1>6, <1>7, <1>8, <1>9, <1>10, <1>11, <1>12, <1>13, <1>14, <1>15 DEF Next

LEMMA IntStep ==
    ASSUME TypedTask(task), ReadInt
    PROVE  ReadingsAreInRange'
<1>1. task.kind = "int" /\ task' = task /\ result' # <<>>
  BY DEF ReadInt, Makes
<1>2. PICK f, raw : f = task.field /\ raw = task.raw
  OBVIOUS
<1>3. f \in Ranges /\ raw \in Values \cup {Absent}
  BY <1>1, <1>2 DEF TypedTask
<1>4. PICK shown : shown = IntShown(f, raw)
  OBVIOUS
<1>5. PICK read, reread :
         /\ read = IntSetting(f, raw)
         /\ reread = IF shown.is = "number" THEN IntSetting(f, Stored("int", shown)) ELSE shown
  OBVIOUS
<1>6. /\ IF raw.t = "inf" THEN read.is = "overflow"
         ELSE read.is = "number" /\ InRange(f, read.n)
      /\ reread.is = "number" =>
            read.is = "number" /\ InRange(f, reread.n) /\ Near(reread.n, read.n)
  BY <1>3, <1>4, <1>5, IntHolds
<1>7. It' = [read |-> read, reread |-> reread]
  BY <1>2, <1>4, <1>5 DEF ReadInt, Makes, It
<1>8. It'.read = read /\ It'.reread = reread
  BY <1>7
<1>9. task'.field = f /\ task'.raw = raw /\ task'.kind = "int"
  BY <1>1, <1>2
<1> QED BY <1>6, <1>8, <1>9 DEF ReadingsAreInRange, Made, Raises

LEMMA FloatStep ==
    ASSUME TypedTask(task), ReadFloat
    PROVE  ReadingsAreInRange'
<1>1. task.kind = "float" /\ task' = task /\ result' # <<>>
  BY DEF ReadFloat, Makes
<1>2. PICK f, raw : f = task.field /\ raw = task.raw
  OBVIOUS
<1>3. f \in Ranges /\ raw \in Values \cup {Absent}
  BY <1>1, <1>2 DEF TypedTask
<1>4. PICK shown \in FloatShown(f, raw) :
         result' = <<[read |-> FloatSetting(f, raw),
                      reread |-> IF shown.is = "number" THEN FloatSetting(f, Stored("real", shown)) ELSE shown]>>
  BY <1>2 DEF ReadFloat, Makes
<1>5. PICK read, reread :
         /\ read = FloatSetting(f, raw)
         /\ reread = IF shown.is = "number" THEN FloatSetting(f, Stored("real", shown)) ELSE shown
  OBVIOUS
<1>6. /\ IF raw.t = "int" /\ Beyond(raw.n) THEN read.is = "overflow"
         ELSE read.is = "number" /\ InRange(f, read.n)
      /\ reread.is = "number" =>
            /\ read.is = "number" /\ InRange(f, reread.n)
            /\ raw.t # "nan" => Near(reread.n, read.n)
  BY <1>3, <1>4, <1>5, FloatHolds
<1>7. It' = [read |-> read, reread |-> reread]
  BY <1>4, <1>5 DEF It
<1>8. It'.read = read /\ It'.reread = reread
  BY <1>7
<1>9. task'.field = f /\ task'.raw = raw /\ task'.kind = "float"
  BY <1>1, <1>2
<1>10. Raises("float", raw) <=> raw.t = "int" /\ Beyond(raw.n)
  BY <1>3, RawKinds, SettingsAssumption DEF Raises, Beyond, Whole
<1> QED BY <1>6, <1>8, <1>9, <1>10 DEF ReadingsAreInRange, Made

LEMMA ChoiceStep ==
    ASSUME TypedTask(task), ReadChoice
    PROVE  ReadingsAreInRange'
<1>1. task.kind = "choice" /\ task' = task
  BY DEF ReadChoice, Makes
<1>2. PICK default, raw, given, options :
         default = task.default /\ raw = task.raw /\ given = task.given /\ options = task.options
  OBVIOUS
<1>3. default \in BOOLEAN /\ raw \in Values \cup {Absent} /\ given \in Values \cup {Absent} /\ options \in Seq(Values) /\ options # <<>>
  BY <1>1, <1>2 DEF TypedTask
<1>4. PICK flag, option : flag = FlagSetting(default, raw) /\ option = OptionShown(options, given, options[1])
  OBVIOUS
<1>5. PICK flagAgain, optionAgain :
         /\ flagAgain = FlagSetting(default, [t |-> "flag", b |-> flag])
         /\ optionAgain = OptionShown(options, option, options[1])
  OBVIOUS
<1>6. flagAgain = flag /\ option \in ToSet(options) /\ optionAgain = option
  BY <1>3, <1>4, <1>5, ChoiceHolds
<1>7. It' = [flag |-> flag, flagAgain |-> flagAgain, option |-> option, optionAgain |-> optionAgain]
  BY <1>2, <1>4, <1>5 DEF ReadChoice, Makes, It
<1>8. It'.flag = flag /\ It'.flagAgain = flagAgain /\ It'.option = option /\ It'.optionAgain = optionAgain
  BY <1>7
<1>9. task'.options = options /\ task'.kind = "choice"
  BY <1>1, <1>2
<1> QED BY <1>6, <1>8, <1>9 DEF ReadingsAreInRange, Made

LEMMA SaveStep ==
    ASSUME TypedTask(task), SaveSettings
    PROVE  DiskIsAMemory'
<1>1. task.kind = "save" /\ task' = task
  BY DEF SaveSettings, Makes
<1>2. PICK store, changes, outcomes : store = task.store /\ changes = task.changes /\ outcomes = task.outcomes
  OBVIOUS
<1>3. /\ changes \in Seq([key : STRING, value : Values]) /\ changes # <<>>
      /\ outcomes \in [DOMAIN changes -> Outcomes]
      /\ store.memory \in [DOMAIN store.memory -> Values \cup {Absent}]
      /\ store.alive
  BY <1>1, <1>2 DEF TypedTask
<1>4. Len(changes) \in Nat /\ Len(changes) # 0 /\ DOMAIN changes = 1..Len(changes)
  BY <1>3, LenProperties, EmptySeq
<1>5. outcomes \in [1..Len(changes) -> Outcomes]
  BY <1>3, <1>4
<1>6. PICK it : it = SaveAll(store, changes, outcomes)
  OBVIOUS
<1>7. /\ \/ it.disk = store.disk
         \/ \E n \in 1..Len(changes) : it.disk = MemoryAfter(store, changes, n)
      /\ it.alive /\ outcomes[Len(changes)] = "written" =>
            it.disk = MemoryAfter(store, changes, Len(changes))
  BY <1>3, <1>4, <1>5, <1>6, SaveHolds
<1>8. It' = it
  BY <1>2, <1>6 DEF SaveSettings, Makes, It
<1>9. task'.store = store /\ task'.changes = changes /\ task'.outcomes = outcomes
  BY <1>1, <1>2
<1> QED BY <1>7, <1>8, <1>9 DEF DiskIsAMemory

\* Nothing has been made at first, and each task is one of those the constants
\* describe for good.
TasksAreTyped == task \in Tasks

LEMMA TaskIsTyped ==
    ASSUME TasksAreTyped
    PROVE  TypedTask(task)
BY RecordsAssumption DEF TasksAreTyped

LEMMA NothingMade ==
    ASSUME Init
    PROVE  TasksAreTyped /\ result = <<>>
BY DEF Init, TasksAreTyped

LEMMA TasksStay ==
    ASSUME TasksAreTyped, [Next]_vars
    PROVE  TasksAreTyped'
BY StepOfKind DEF TasksAreTyped, vars

\* A getter answers within the range of its setting whatever the file has in
\* it, the dialog puts back what is in force, and the file that is left by any
\* number of writes, failed ones among them, is the settings of a moment.
THEOREM SettingsAlwaysHold == Spec => []SettingsHold
<1>1. Init => TasksAreTyped /\ SettingsHold
  BY NothingMade DEF SettingsHold, ReadingsAreInRange, DiskIsAMemory, Made
<1>2. ASSUME TasksAreTyped, SettingsHold, [Next]_vars
      PROVE  TasksAreTyped' /\ SettingsHold'
  <2>1. TypedTask(task)
    BY <1>2, TaskIsTyped
  <2>2. TasksAreTyped'
    BY <1>2, TasksStay
  <2>3. CASE UNCHANGED vars
    <3>1. task' = task /\ result' = result
      BY <2>3 DEF vars
    <3> QED BY <1>2, <2>2, <3>1 DEF SettingsHold, ReadingsAreInRange, DiskIsAMemory, Made, It
  <2>4. CASE Next
    <3>1. task' = task
      BY <2>4, StepOfKind
    <3>2. ReadingsAreInRange'
      <4>1. CASE task.kind \in {"int", "float", "choice"}
        BY <2>1, <2>4, <4>1, StepOfKind, IntStep, FloatStep, ChoiceStep
      <4>2. CASE task.kind \notin {"int", "float", "choice"}
        BY <3>1, <4>2 DEF ReadingsAreInRange, Made
      <4> QED BY <4>1, <4>2
    <3>3. DiskIsAMemory'
      <4>1. CASE task.kind = "save"
        BY <2>1, <2>4, <4>1, StepOfKind, SaveStep
      <4>2. CASE task.kind # "save"
        BY <3>1, <4>2 DEF DiskIsAMemory, Made
      <4> QED BY <4>1, <4>2
    <3> QED BY <2>2, <3>2, <3>3 DEF SettingsHold
  <2> QED BY <1>2, <2>3, <2>4
<1> QED BY <1>1, <1>2, PTL DEF Spec

-----------------------------------------------------------------------------
(* The same of the bench. *)

LEMMA BenchStep ==
    ASSUME TypedTask(task), CheckBench
    PROVE  UploadIsSound'
<1>1. task.kind = "bench" /\ task' = task
  BY DEF CheckBench, Makes
<1>2. PICK devices, connected, monitored :
         devices = task.devices /\ connected = task.connected /\ monitored = task.monitored
  OBVIOUS
<1>3. devices \in Seq(CheckedDevice)
  BY <1>1, <1>2 DEF TypedTask
<1>4. PICK upload, dryRun :
         /\ upload = UploadErrors(devices, connected, monitored, ChipTypes)
         /\ dryRun = DryRunErrors(devices, connected, monitored, ChipTypes)
  OBVIOUS
<1>5. PICK warned, unsupported :
         /\ warned = {i \in DOMAIN devices : BaudWarnings(devices[i].baud) # {}}
         /\ unsupported = UnsupportedChips(devices, ChipTypes)
  OBVIOUS
<1>6. /\ (\A i \in DOMAIN devices : upload[i] = {}) =>
            /\ \A i, j \in DOMAIN devices : devices[i].port = devices[j].port => i = j
            /\ \A i \in DOMAIN devices : devices[i].port \in connected \ monitored
            /\ \A i \in DOMAIN devices : devices[i].baud \notin BaudRates <=> BaudWarnings(devices[i].baud) # {}
      /\ \A i \in DOMAIN devices :
            devices[i].chip # "" => (i \in UnsupportedChips(devices, ChipTypes) <=> "chip" \in upload[i])
      /\ \A i \in DOMAIN devices :
            /\ dryRun[i] \ {"monitored"} = upload[i] \ {"monitored", "not connected"}
            /\ "monitored" \in upload[i] => "monitored" \in dryRun[i]
  <2>1. AutoChip \in ChipTypes
    BY RecordsAssumption
  <2>2. BenchAgrees(devices, connected, monitored, ChipTypes, upload, dryRun)
    BY <1>3, <1>4, <2>1, BenchHolds
  <2> QED BY <2>2 DEF BenchAgrees
<1>7. (\A i \in DOMAIN devices : upload[i] = {}) =>
          {i \in DOMAIN devices : devices[i].baud \notin BaudRates} = warned
  BY <1>5, <1>6
<1>8. It' = [upload |-> upload, warned |-> warned, unsupported |-> unsupported, dryRun |-> dryRun]
  BY <1>2, <1>4, <1>5 DEF CheckBench, Makes, It, UploadErrors, DryRunErrors
<1>9. It'.upload = upload /\ It'.warned = warned /\ It'.unsupported = unsupported /\ It'.dryRun = dryRun
  BY <1>8
<1>10. task'.devices = devices /\ task'.connected = connected /\ task'.monitored = monitored
  BY <1>1, <1>2
<1>11. ASSUME NEW i \in DOMAIN devices, devices[i].chip # ""
       PROVE  (i \in unsupported) = ("chip" \in upload[i])
  <2>1. i \in unsupported <=> "chip" \in upload[i]
    BY <1>5, <1>6, <1>11
  <2> QED BY <2>1
<1> QED BY <1>6, <1>7, <1>9, <1>10, <1>11 DEF UploadIsSound

\* What was given and what was made of it, told apart by the one result each edit has
LEMMA EditStep ==
    ASSUME TypedTask(task), EditBench
    PROVE  PreviewsAreExact'
<1>1. task.kind = "edit" /\ task' = task
  BY DEF EditBench, Makes
<1>2. PICK devices, targets, busy :
         devices = task.devices /\ targets = task.targets /\ busy = task.busy
  OBVIOUS
<1>3. PICK port, tag, entries :
         port = task.port /\ tag = task.tag /\ entries = task.entries
  OBVIOUS
<1>4. devices \in [DOMAIN devices -> EditedDevice]
  BY <1>1, <1>2 DEF TypedTask
<1>5. PICK ported, tagged, filled :
         /\ ported = FieldApplied(devices, targets, busy, "port", port)
         /\ tagged = TagApplied(devices, Safe(targets, busy), tag)
         /\ filled = FirmwareApplied(devices, targets, busy, entries)
  OBVIOUS
<1>6. PICK ports, tags, firmwares :
         /\ ports = FieldPreview(devices, targets, busy, "port", port)
         /\ tags = TagPreview(devices, Safe(targets, busy), tag)
         /\ firmwares = FirmwarePreview(devices, targets, busy, entries)
  OBVIOUS
<1>7. It' = [field |-> [preview |-> ports, after |-> ported],
             tag |-> [preview |-> tags, after |-> tagged],
             firmware |-> [preview |-> firmwares, after |-> filled]]
  BY <1>2, <1>3, <1>5, <1>6 DEF EditBench, Makes, It
<1>8. /\ It'.field.preview = ports /\ It'.field.after = ported
      /\ It'.tag.preview = tags /\ It'.tag.after = tagged
      /\ It'.firmware.preview = firmwares /\ It'.firmware.after = filled
  BY <1>7
<1>9. /\ task'.devices = devices /\ task'.busy = busy
  BY <1>1, <1>2
<1>10. ASSUME NEW d \in DOMAIN devices
       PROVE  /\ d \in busy => ported[d] = devices[d]
              /\ devices[d] # ported[d] <=> d \in ports
  <2>1. PICK field : field = "port"
    OBVIOUS
  <2>2. field \in Fields
    BY <2>1 DEF Fields
  <2>3. ported = FieldApplied(devices, targets, busy, field, port) /\ ports = FieldPreview(devices, targets, busy, field, port)
    BY <1>5, <1>6, <2>1
  <2> QED BY <1>4, <2>2, <2>3, FieldHolds
<1>11. ASSUME NEW d \in DOMAIN devices
       PROVE  /\ d \in busy => tagged[d] = devices[d]
              /\ devices[d] # tagged[d] <=> d \in tags
  <2>1. /\ d \notin Safe(targets, busy) => tagged[d] = devices[d]
        /\ devices[d] # tagged[d] <=> d \in tags
    BY <1>4, <1>5, <1>6, TagHolds
  <2> QED BY <2>1 DEF Safe
<1>12. ASSUME NEW d \in DOMAIN devices
       PROVE  /\ d \in busy => filled[d] = devices[d]
              /\ Summary(devices[d].firmware) # Summary(filled[d].firmware) <=> d \in firmwares
  <2>1. PICK field : field = "firmware"
    OBVIOUS
  <2>2. field \in Fields
    BY <2>1 DEF Fields
  <2>3. filled = FieldApplied(devices, targets, busy, field, entries)
    BY <1>5, <2>1 DEF FirmwareApplied
  <2>4. /\ d \in busy => filled[d] = devices[d]
        /\ filled[d][field] = IF d \in targets \ busy THEN entries ELSE devices[d][field]
    BY <1>4, <2>2, <2>3, FieldHolds
  <2>5. filled[d].firmware = IF d \in targets \ busy THEN entries ELSE devices[d].firmware
    BY <2>1, <2>4
  <2>6. d \in firmwares <=> d \in targets \ busy /\ Summary(devices[d].firmware) # Summary(entries)
    BY <1>6 DEF FirmwarePreview
  <2> QED BY <2>4, <2>5, <2>6
<1>13. /\ ports \subseteq DOMAIN devices /\ tags \subseteq DOMAIN devices /\ firmwares \subseteq DOMAIN devices
  BY <1>6 DEF FieldPreview, TagPreview, FirmwarePreview
<1>14. /\ ports = {d \in DOMAIN devices : devices[d] # ported[d]}
       /\ tags = {d \in DOMAIN devices : devices[d] # tagged[d]}
       /\ firmwares = {d \in DOMAIN devices : Summary(devices[d].firmware) # Summary(filled[d].firmware)}
  BY <1>10, <1>11, <1>12, <1>13
<1>15. \A d \in busy \cap DOMAIN devices :
          ported[d] = devices[d] /\ tagged[d] = devices[d] /\ filled[d] = devices[d]
  BY <1>10, <1>11, <1>12
<1> QED BY <1>8, <1>9, <1>14, <1>15 DEF PreviewsAreExact, Differs

LEMMA FilterStep ==
    ASSUME TypedTask(task), FilterRows
    PROVE  FilterShowsSome'
<1>1. task.kind = "filter" /\ task' = task
  BY DEF FilterRows, Makes
<1>2. PICK devices, before, query : devices = task.devices /\ before = task.tag /\ query = task.query
  OBVIOUS
<1>3. devices \in [DOMAIN devices -> ListedDevice]
  BY <1>1, <1>2 DEF TypedTask
<1>4. PICK tag, rows : tag = TagSelected(devices, before) /\ rows = RowsVisible(devices, query, tag)
  OBVIOUS
<1>5. query = "" /\ DOMAIN devices # {} => rows # {}
  BY <1>3, <1>4, FilterHolds
<1>6. It' = [tag |-> tag, rows |-> rows]
  BY <1>2, <1>4 DEF FilterRows, Makes, It
<1>7. It'.rows = rows /\ task'.query = query /\ task'.devices = devices
  BY <1>1, <1>2, <1>6
<1> QED BY <1>5, <1>7 DEF FilterShowsSome

\* The devices that pass the checks have ports of their own, connected and not
\* monitored; a dry run and the check of a project that is opened say the same
\* as the upload; a preview lists what differs afterwards, and a busy device
\* never does; and no tag that is gone hides the bench.
THEOREM ChecksStayExact == Spec => []ChecksAreExact
<1>1. Init => TasksAreTyped /\ ChecksAreExact
  BY NothingMade DEF ChecksAreExact, UploadIsSound, PreviewsAreExact, FilterShowsSome, Made
<1>2. ASSUME TasksAreTyped, ChecksAreExact, [Next]_vars
      PROVE  TasksAreTyped' /\ ChecksAreExact'
  <2>1. TypedTask(task)
    BY <1>2, TaskIsTyped
  <2>2. TasksAreTyped'
    BY <1>2, TasksStay
  <2>3. CASE UNCHANGED vars
    <3>1. task' = task /\ result' = result
      BY <2>3 DEF vars
    <3>2. UploadIsSound' /\ FilterShowsSome'
      BY <1>2, <3>1 DEF ChecksAreExact, UploadIsSound, FilterShowsSome, Made, It
    <3>3. PreviewsAreExact'
      BY <1>2, <3>1 DEF ChecksAreExact, PreviewsAreExact, Differs, Made, It
    <3> QED BY <2>2, <3>2, <3>3 DEF ChecksAreExact
  <2>4. CASE Next
    <3>1. task' = task
      BY <2>4, StepOfKind
    <3>2. UploadIsSound'
      <4>1. CASE task.kind = "bench"
        BY <2>1, <2>4, <4>1, StepOfKind, BenchStep
      <4>2. CASE task.kind # "bench"
        BY <3>1, <4>2 DEF UploadIsSound, Made
      <4> QED BY <4>1, <4>2
    <3>3. PreviewsAreExact'
      <4>1. CASE task.kind = "edit"
        BY <2>1, <2>4, <4>1, StepOfKind, EditStep
      <4>2. CASE task.kind # "edit"
        BY <3>1, <4>2 DEF PreviewsAreExact, Made
      <4> QED BY <4>1, <4>2
    <3>4. FilterShowsSome'
      <4>1. CASE task.kind = "filter"
        BY <2>1, <2>4, <4>1, StepOfKind, FilterStep
      <4>2. CASE task.kind # "filter"
        BY <3>1, <4>2 DEF FilterShowsSome, Made
      <4> QED BY <4>1, <4>2
    <3> QED BY <2>2, <3>2, <3>3, <3>4 DEF ChecksAreExact
  <2> QED BY <1>2, <2>3, <2>4
<1> QED BY <1>1, <1>2, PTL DEF Spec

-----------------------------------------------------------------------------
(* The same of security settings. *)

LEMMA BurnsStep ==
    ASSUME TypedTask(task), BuildBurns
    PROVE  PassedCanBurn'
<1>1. task.kind = "burns" /\ task' = task
  BY DEF BuildBurns, Makes
<1>2. PICK device : device = task.device
  OBVIOUS
<1>3. device \in SecuredDevice
  BY <1>1, <1>2 DEF TypedTask
<1>4. PICK errors, warnings, signing, burns :
         /\ errors = UploadSecurityErrors(device)
         /\ warnings = SecurityWarnings(device)
         /\ signing = GenerateSigningKey(device.sec)
         /\ burns = Burns(device)
  OBVIOUS
<1>5. errors = {} =>
         /\ Len(burns) = Cardinality({f \in {"fe", "sb"} : device.sec[f]})
         /\ \A i \in DOMAIN burns :
               /\ burns[i] # Refused /\ burns[i].chip # "detect" /\ burns[i].block # ""
               /\ device.sec.key_source = "existing" =>
                     /\ Found(burns[i].key)
                     /\ warnings = {} /\ device.sec.fe /\ i = 1 => burns[i].key = "aes"
         /\ device.sec.sb /\ IsLegacy(device.chip) /\ VersionOffered(device.sec) =>
               (signing.scheme = "") = (Last(burns).block = "secure_boot_v1")
  BY <1>3, <1>4, BurnsHold
<1>6. It' = [errors |-> errors, warnings |-> warnings, signing |-> signing, burns |-> burns]
  BY <1>2, <1>4 DEF BuildBurns, Makes, It
<1>7. It'.errors = errors /\ It'.warnings = warnings /\ It'.signing = signing /\ It'.burns = burns
  BY <1>6
<1>8. task'.device = device
  BY <1>1, <1>2
<1> QED BY <1>5, <1>7, <1>8 DEF PassedCanBurn

LEMMA PanelStep ==
    ASSUME TypedTask(task), TouchPanel
    PROVE  TouchChangesOne'
<1>1. task.kind = "panel" /\ task' = task
  BY DEF TouchPanel, Makes
<1>2. PICK device, before, touch : device = task.device /\ before = task.before /\ touch = task.touch
  OBVIOUS
<1>3. device \in SecuredDevice /\ IsAControl(touch)
  BY <1>1, <1>2 DEF TypedTask, IsAControl
<1>4. PICK committed, clone : committed = Commit(Touch(Show(device.sec, before), touch)) /\ clone = Clone(device)
  OBVIOUS
<1>5. ASSUME Offered(device.sec), NEW setting \in DOMAIN device.sec
      PROVE  committed[setting] = TouchedValue(device.sec, touch, setting)
  <2>1. PICK sec : sec = device.sec
    OBVIOUS
  <2>2. sec \in Security
    BY <1>3, <2>1 DEF SecuredDevice
  <2>3. committed[setting] = TouchedValue(sec, touch, setting)
    BY <1>3, <1>4, <1>5, <2>1, <2>2, TouchHolds
  <2> QED BY <2>1, <2>3
<1>6. ASSUME device.sec.key_source \in Sources, NEW key \in {"fe_key", "sb_key"}, clone.sec[key] = device.sec[key]
      PROVE  clone.sec[key] = "none" \/ clone.sec.key_source = "existing"
  BY <1>3, <1>4, <1>6, CloneHolds
<1>7. It' = [committed |-> committed, clone |-> clone]
  BY <1>2, <1>4 DEF TouchPanel, Makes, It
<1>8. It'.committed = committed /\ It'.clone = clone
  BY <1>7
<1>9. task'.device = device /\ task'.touch = touch
  BY <1>1, <1>2
<1> QED BY <1>5, <1>6, <1>8, <1>9 DEF TouchChangesOne, TouchedValue

LEMMA LinesStep ==
    ASSUME TypedTask(task), ReadState
    PROVE  LastLineCounts'
<1>1. task.kind = "lines" /\ task' = task
  BY DEF ReadState, Makes
<1>2. PICK lines : lines = task.lines
  OBVIOUS
<1>3. lines \in Seq(SUBSET {"enabled", "disabled", "true", "false"})
  BY <1>1, <1>2 DEF TypedTask
<1>4. PICK state : state = StateOf(lines)
  OBVIOUS
<1>5. state = IF Saying(lines, Len(lines)) = {} THEN "unknown"
              ELSE Says(lines[LastOf(Saying(lines, Len(lines)))])
  BY <1>3, <1>4, LinesHold
<1>6. It' = state
  BY <1>2, <1>4 DEF ReadState, Makes, It
<1>7. DOMAIN lines = 1..Len(lines)
  BY <1>3, LenProperties
<1>8. {i \in DOMAIN lines : Says(lines[i]) # "nothing"} = Saying(lines, Len(lines))
  BY <1>7 DEF Saying
<1>9. task'.lines = lines
  BY <1>1, <1>2
<1>10. LastLineCounts' <=>
          (Made("lines")' =>
              LET saying == {i \in DOMAIN task'.lines : Says(task'.lines[i]) # "nothing"}
              IN  It' = IF saying = {} THEN "unknown" ELSE Says(task'.lines[LastOf(saying)]))
  BY DEF LastLineCounts, LastOf
<1> QED BY <1>5, <1>6, <1>8, <1>9, <1>10

\* A device that passes the checks can be burned as its settings say, a control
\* changes its own setting and no other, a copy shares no generated key, and the
\* last line that says a state is the one that counts.
THEOREM SecurityStaysSound == Spec => []SecurityIsSound
<1>1. Init => TasksAreTyped /\ SecurityIsSound
  BY NothingMade DEF SecurityIsSound, PassedCanBurn, TouchChangesOne, LastLineCounts, Made
<1>2. ASSUME TasksAreTyped, SecurityIsSound, [Next]_vars
      PROVE  TasksAreTyped' /\ SecurityIsSound'
  <2>1. TypedTask(task)
    BY <1>2, TaskIsTyped
  <2>2. TasksAreTyped'
    BY <1>2, TasksStay
  <2>3. CASE UNCHANGED vars
    <3>1. task' = task /\ result' = result
      BY <2>3 DEF vars
    <3>2. PassedCanBurn' /\ TouchChangesOne' /\ LastLineCounts'
      BY <1>2, <3>1 DEF SecurityIsSound, PassedCanBurn, TouchChangesOne, LastLineCounts, Made, It
    <3> QED BY <2>2, <3>2 DEF SecurityIsSound
  <2>4. CASE Next
    <3>1. task' = task
      BY <2>4, StepOfKind
    <3>2. PassedCanBurn'
      <4>1. CASE task.kind = "burns"
        BY <2>1, <2>4, <4>1, StepOfKind, BurnsStep
      <4>2. CASE task.kind # "burns"
        BY <3>1, <4>2 DEF PassedCanBurn, Made
      <4> QED BY <4>1, <4>2
    <3>3. TouchChangesOne'
      <4>1. CASE task.kind = "panel"
        BY <2>1, <2>4, <4>1, StepOfKind, PanelStep
      <4>2. CASE task.kind # "panel"
        BY <3>1, <4>2 DEF TouchChangesOne, Made
      <4> QED BY <4>1, <4>2
    <3>4. LastLineCounts'
      <4>1. CASE task.kind = "lines"
        BY <2>1, <2>4, <4>1, StepOfKind, LinesStep
      <4>2. CASE task.kind # "lines"
        BY <3>1, <4>2 DEF LastLineCounts, Made
      <4> QED BY <4>1, <4>2
    <3> QED BY <2>2, <3>2, <3>3, <3>4 DEF SecurityIsSound
  <2> QED BY <1>2, <2>3, <2>4
<1> QED BY <1>1, <1>2, PTL DEF Spec

-----------------------------------------------------------------------------
(* CSV: each row is a device or an error. *)

\* g tells what the first rows of a table have become.
CsvReads(table, m, g) ==
    g = [i \in 0..m |-> IF i = 0 THEN NoDevices(<<>>) ELSE CsvStep(table, g[i - 1], i)]

LEMMA CsvReadsExist ==
    ASSUME NEW table, NEW n \in Nat
    PROVE  \E g : CsvReads(table, n, g)
<1> DEFINE S == {m \in Nat : \E g : CsvReads(table, m, g)}
<1>1. 0 \in S
  <2>1. CsvReads(table, 0, [i \in 0..0 |-> NoDevices(<<>>)])
    BY DEF CsvReads
  <2> QED BY <2>1
<1>2. ASSUME NEW m \in S PROVE m + 1 \in S
  <2>1. PICK g : CsvReads(table, m, g)
    OBVIOUS
  <2> DEFINE next == CsvStep(table, g[m], m + 1)
             h == [i \in 0..(m + 1) |-> IF i = m + 1 THEN next ELSE g[i]]
             Step(i) == IF i = 0 THEN NoDevices(<<>>) ELSE CsvStep(table, h[i - 1], i)
  <2>2. \A i \in 0..m : h[i] = g[i]
    OBVIOUS
  <2>3. h[m + 1] = next
    OBVIOUS
  <2>4. \A i \in 0..m : g[i] = IF i = 0 THEN NoDevices(<<>>) ELSE CsvStep(table, g[i - 1], i)
    BY <2>1 DEF CsvReads
  <2>5. \A i \in 0..(m + 1) : h[i] = Step(i)
    <3>1. ASSUME NEW i \in 0..m PROVE h[i] = Step(i)
      <4>1. i # 0 => i - 1 \in 0..m /\ h[i - 1] = g[i - 1]
        BY <2>2
      <4> HIDE DEF h
      <4> QED BY <2>2, <2>4, <4>1
    <3>2. h[m + 1] = Step(m + 1)
      <4>1. m + 1 # 0 /\ (m + 1) - 1 = m /\ h[m] = g[m]
        BY <2>2
      <4> HIDE DEF h
      <4> QED BY <2>3, <4>1
    <3> HIDE DEF h, Step
    <3> QED BY <3>1, <3>2
  <2>6. h = [i \in 0..(m + 1) |-> Step(i)]
    <3>1. h = [i \in 0..(m + 1) |-> h[i]]
      OBVIOUS
    <3> HIDE DEF h, Step
    <3> QED BY <3>1, <2>5
  <2>7. CsvReads(table, m + 1, h)
    <3> HIDE DEF h
    <3> QED BY <2>6 DEF CsvReads
  <2> HIDE DEF h
  <2> QED BY <2>7
<1>3. S \subseteq Nat
  OBVIOUS
<1> HIDE DEF S
<1>4. S = Nat
  BY <1>1, <1>2, <1>3, ByInduction
<1> QED BY <1>4 DEF S

LEMMA ImportCsvIs ==
    ASSUME NEW table, Len(table.rows) \in Nat, "name" \in table.header
    PROVE  \E g : CsvReads(table, Len(table.rows), g) /\ ImportCsv(table) = g[Len(table.rows)]
<1> DEFINE g == CHOOSE g : CsvReads(table, Len(table.rows), g)
<1>1. CsvReads(table, Len(table.rows), g)
  BY CsvReadsExist
<1>2. ImportCsv(table) = g[Len(table.rows)]
  BY DEF ImportCsv, CsvReads
<1> QED BY <1>1, <1>2

\* The rows among the first m that are good, and those that are not
GoodRows(table, m) == {i \in 1..m : CsvRowIsGood(table, table.rows[i])}
BadRows(table, m) == {i \in 1..m : ~CsvRowIsGood(table, table.rows[i])}

CsvDevices(table, n) == [i \in 1..n |-> CsvDevice(table, table.rows[i])]

\* What the rows have become is what the good ones are and the bad ones' numbers.
CsvSplit(table, n, m) ==
    [devices |-> Keep(CsvDevices(table, n), GoodRows(table, m)),
     errors |-> Keep([i \in 1..n |-> i], BadRows(table, m))]

LEMMA CsvSplitGrows ==
    ASSUME NEW table, NEW n \in Nat, NEW m \in Nat, m + 1 \in 1..n
    PROVE  CsvSplit(table, n, m + 1) = CsvStep(table, CsvSplit(table, n, m), m + 1)
<1> DEFINE ds == CsvDevices(table, n)
           id == [i \in 1..n |-> i]
           row == table.rows[m + 1]
<1>1. Above(GoodRows(table, m), m + 1) /\ Above(BadRows(table, m), m + 1)
  <2>1. GoodRows(table, m) \subseteq 1..m /\ BadRows(table, m) \subseteq 1..m
    BY DEF GoodRows, BadRows
  <2> QED BY <2>1, PlacesOf DEF Above
<1>2. CASE CsvRowIsGood(table, row)
  <2>1. GoodRows(table, m + 1) = GoodRows(table, m) \cup {m + 1} /\ BadRows(table, m + 1) = BadRows(table, m)
    BY <1>2 DEF GoodRows, BadRows
  <2> HIDE DEF ds
  <2>3. Keep(ds, GoodRows(table, m) \cup {m + 1}) = Append(Keep(ds, GoodRows(table, m)), ds[m + 1])
    BY <1>1, KeepAppend
  <2>4. ds[m + 1] = CsvDevice(table, row)
    BY DEF ds, CsvDevices
  <2>5. PICK a, b : a = Keep(ds, GoodRows(table, m)) /\ b = Keep(id, BadRows(table, m))
    OBVIOUS
  <2>6. CsvSplit(table, n, m) = [devices |-> a, errors |-> b]
    BY <2>5 DEF CsvSplit, ds
  <2>7. CsvSplit(table, n, m + 1) = [devices |-> Append(a, CsvDevice(table, row)), errors |-> b]
    BY <2>1, <2>3, <2>4, <2>5 DEF CsvSplit, ds
  <2> HIDE DEF row
  <2> QED BY <1>2, <2>6, <2>7 DEF CsvStep, row
<1>3. CASE ~CsvRowIsGood(table, row)
  <2>1. BadRows(table, m + 1) = BadRows(table, m) \cup {m + 1} /\ GoodRows(table, m + 1) = GoodRows(table, m)
    BY <1>3 DEF GoodRows, BadRows
  <2>3. id[m + 1] = m + 1
    OBVIOUS
  <2> HIDE DEF id
  <2>4. Keep(id, BadRows(table, m) \cup {m + 1}) = Append(Keep(id, BadRows(table, m)), id[m + 1])
    BY <1>1, KeepAppend
  <2>5. PICK a, b : a = Keep(ds, GoodRows(table, m)) /\ b = Keep(id, BadRows(table, m))
    OBVIOUS
  <2>6. CsvSplit(table, n, m) = [devices |-> a, errors |-> b]
    BY <2>5 DEF CsvSplit, id
  <2>7. CsvSplit(table, n, m + 1) = [devices |-> a, errors |-> Append(b, m + 1)]
    BY <2>1, <2>3, <2>4, <2>5 DEF CsvSplit, id
  <2> QED BY <1>3, <2>6, <2>7 DEF CsvStep
<1> QED BY <1>2, <1>3

LEMMA CsvIsSplit ==
    ASSUME NEW table, IsList(table.rows), "name" \in table.header
    PROVE  ImportCsv(table) = CsvSplit(table, Len(table.rows), Len(table.rows))
<1> DEFINE n == Len(table.rows)
<1>1. n \in Nat
  BY LenProperties DEF IsList
<1>2. PICK g : CsvReads(table, n, g) /\ ImportCsv(table) = g[n]
  BY <1>1, ImportCsvIs
<1> HIDE DEF n
<1>3. g[0] = NoDevices(<<>>) /\ \A i \in 0..n : i # 0 => g[i] = CsvStep(table, g[i - 1], i)
  <2>1. g = [i \in 0..n |-> IF i = 0 THEN NoDevices(<<>>) ELSE CsvStep(table, g[i - 1], i)]
    BY ONLY <1>2 DEF CsvReads
  <2>2. 0 \in 0..n
    BY ONLY <1>1
  <2>3. g[0] = NoDevices(<<>>)
    BY ONLY <2>1, <2>2
  <2>4. ASSUME NEW i \in 0..n, i # 0 PROVE g[i] = CsvStep(table, g[i - 1], i)
    BY ONLY <2>1, <2>4
  <2> QED BY <2>3, <2>4
<1>4. CsvSplit(table, n, 0) = NoDevices(<<>>)
  <2>1. \A s : Keep(s, {}) = <<>>
    <3>1. Cardinality({}) = 0
      BY FS_EmptySet
    <3> QED BY <3>1 DEF Keep
  <2>2. GoodRows(table, 0) = {} /\ BadRows(table, 0) = {}
    BY DEF GoodRows, BadRows
  <2> QED BY <2>1, <2>2 DEF CsvSplit, NoDevices
<1> DEFINE S == {m \in Nat : m <= n => g[m] = CsvSplit(table, n, m)}
<1>5. S = Nat
  <2>1. 0 \in S
    BY <1>3, <1>4
  <2>2. ASSUME NEW m \in S PROVE m + 1 \in S
    <3>1. ASSUME m + 1 <= n PROVE g[m + 1] = CsvSplit(table, n, m + 1)
      <4>1. m \in Nat /\ m + 1 \in 1..n /\ m + 1 \in 0..n /\ m + 1 # 0 /\ (m + 1) - 1 = m /\ g[m] = CsvSplit(table, n, m)
        BY <1>1, <3>1
      <4>2. g[m + 1] = CsvStep(table, g[m], m + 1)
        BY <1>3, <4>1
      <4> QED BY <1>1, <4>1, <4>2, CsvSplitGrows
    <3> QED BY <3>1
  <2>3. S \subseteq Nat
    OBVIOUS
  <2> HIDE DEF S
  <2> QED BY <2>1, <2>2, <2>3, ByInduction
<1>6. g[n] = CsvSplit(table, n, n)
  BY <1>1, <1>5
<1> QED BY <1>2, <1>6 DEF n

LEMMA CsvHolds ==
    ASSUME NEW table, IsList(table.rows), "name" \in table.header, NEW made, made = ImportCsv(table)
    PROVE  LET count == Len(table.rows)
               good == InOrder(Unreported(count, made.errors), count)
           IN  /\ \A i \in DOMAIN made.errors :
                     made.errors[i] \in 1..count /\ ~CsvRowIsGood(table, table.rows[made.errors[i]])
               /\ \A i, j \in DOMAIN made.errors : i < j => made.errors[i] < made.errors[j]
               /\ made.devices = [i \in DOMAIN good |-> CsvDevice(table, table.rows[good[i]])]
<1> DEFINE n == Len(table.rows)
           id == [i \in 1..n |-> i]
           ds == CsvDevices(table, n)
           Good == GoodRows(table, n)
           Bad == BadRows(table, n)
           E == Keep(id, Bad)
<1>1. n \in Nat
  BY LenProperties DEF IsList
<1>2. made.errors = E /\ made.devices = Keep(ds, Good)
  BY CsvIsSplit DEF CsvSplit
<1>3. /\ Good \subseteq 1..n /\ Bad \subseteq 1..n /\ Good = (1..n) \ Bad
      /\ \A i \in Bad : ~CsvRowIsGood(table, table.rows[i])
  BY DEF GoodRows, BadRows
<1> HIDE DEF Good, Bad
<1>4. /\ E \in Seq(Bad)
      /\ \A i \in Bad : Upto(Bad, i) \in DOMAIN E /\ E[Upto(Bad, i)] = i
      /\ \A j, k \in DOMAIN E : j < k => E[j] < E[k]
  BY <1>1, <1>3, KeepNumbers
<1>5. DOMAIN E = 1..Len(E) /\ \A i \in DOMAIN E : E[i] \in Bad
  BY <1>4, LenProperties, ElementOfSeq
<1> HIDE DEF E
<1>6. Unreported(n, E) = Good
  <2>1. ASSUME NEW i \in 1..n PROVE Contains(E, i) <=> i \in Bad
    BY <1>4, <1>5 DEF Contains
  <2> QED BY <1>3, <2>1 DEF Unreported
<1>7. InOrder(Good, n) = Keep(id, Good)
  BY DEF InOrder
<1>8. Keep(ds, Good) = [k \in DOMAIN Keep(id, Good) |-> ds[Keep(id, Good)[k]]]
  <2>1. \A i \in Good : id[i] = i
    BY <1>3
  <2>2. Good \in Places
    BY <1>1, <1>3, PlacesOf
  <2> HIDE DEF ds, id
  <2> QED BY <2>1, <2>2, KeepInOrder
<1>9. ASSUME NEW k \in DOMAIN Keep(id, Good)
      PROVE  ds[Keep(id, Good)[k]] = CsvDevice(table, table.rows[Keep(id, Good)[k]])
  <2>1. Keep(id, Good) \in Seq(Good)
    BY <1>1, <1>3, KeepNumbers
  <2>2. Keep(id, Good)[k] \in 1..n
    BY <1>3, <2>1, LenProperties, ElementOfSeq
  <2> HIDE DEF id
  <2> QED BY <2>2 DEF CsvDevices
<1> HIDE DEF ds, id, n
<1>10. Keep(ds, Good) = [k \in DOMAIN Keep(id, Good) |-> CsvDevice(table, table.rows[Keep(id, Good)[k]])]
  BY <1>8, <1>9
<1>11. InOrder(Unreported(n, made.errors), n) = Keep(id, Good)
  BY <1>2, <1>6, <1>7
<1>12. /\ \A i \in DOMAIN made.errors :
              made.errors[i] \in 1..n /\ ~CsvRowIsGood(table, table.rows[made.errors[i]])
       /\ \A i, j \in DOMAIN made.errors : i < j => made.errors[i] < made.errors[j]
  BY <1>2, <1>3, <1>4, <1>5
<1> QED BY <1>2, <1>10, <1>11, <1>12 DEF n

-----------------------------------------------------------------------------
(* Bundles: each row is an entry of one device, or an error. *)

\* g tells what has been written after each of the first members of an archive.
Extracts(members, m, g) ==
    g = [i \in 0..m |-> IF i = 0 THEN NothingWritten ELSE ExtractStep(g[i - 1], members[i])]

LEMMA ExtractsExist ==
    ASSUME NEW members, NEW n \in Nat
    PROVE  \E g : Extracts(members, n, g)
<1> DEFINE S == {m \in Nat : \E g : Extracts(members, m, g)}
<1>1. 0 \in S
  <2>1. Extracts(members, 0, [i \in 0..0 |-> NothingWritten])
    BY DEF Extracts
  <2> QED BY <2>1
<1>2. ASSUME NEW m \in S PROVE m + 1 \in S
  <2>1. PICK g : Extracts(members, m, g)
    OBVIOUS
  <2> DEFINE next == ExtractStep(g[m], members[m + 1])
             h == [i \in 0..(m + 1) |-> IF i = m + 1 THEN next ELSE g[i]]
             Step(i) == IF i = 0 THEN NothingWritten ELSE ExtractStep(h[i - 1], members[i])
  <2>2. \A i \in 0..m : h[i] = g[i]
    OBVIOUS
  <2>3. h[m + 1] = next
    OBVIOUS
  <2>4. \A i \in 0..m : g[i] = IF i = 0 THEN NothingWritten ELSE ExtractStep(g[i - 1], members[i])
    BY <2>1 DEF Extracts
  <2>5. \A i \in 0..(m + 1) : h[i] = Step(i)
    <3>1. ASSUME NEW i \in 0..m PROVE h[i] = Step(i)
      <4>1. i # 0 => i - 1 \in 0..m /\ h[i - 1] = g[i - 1]
        BY <2>2
      <4> HIDE DEF h
      <4> QED BY <2>2, <2>4, <4>1
    <3>2. h[m + 1] = Step(m + 1)
      <4>1. m + 1 # 0 /\ (m + 1) - 1 = m /\ h[m] = g[m]
        BY <2>2
      <4> HIDE DEF h
      <4> QED BY <2>3, <4>1
    <3> HIDE DEF h, Step
    <3> QED BY <3>1, <3>2
  <2>6. h = [i \in 0..(m + 1) |-> Step(i)]
    <3>1. h = [i \in 0..(m + 1) |-> h[i]]
      OBVIOUS
    <3> HIDE DEF h, Step
    <3> QED BY <3>1, <2>5
  <2>7. Extracts(members, m + 1, h)
    <3> HIDE DEF h
    <3> QED BY <2>6 DEF Extracts
  <2> HIDE DEF h
  <2> QED BY <2>7
<1>3. S \subseteq Nat
  OBVIOUS
<1> HIDE DEF S
<1>4. S = Nat
  BY <1>1, <1>2, <1>3, ByInduction
<1> QED BY <1>4 DEF S

LEMMA ExtractedInBundle ==
    ASSUME NEW members, IsList(members)
    PROVE  \A path \in Extracted(members).written : InBundle(path)
<1> DEFINE n == Len(members)
           g == CHOOSE g : Extracts(members, n, g)
<1>1. n \in Nat
  BY LenProperties DEF IsList
<1>2. Extracts(members, n, g)
  BY <1>1, ExtractsExist
<1>3. Extracted(members) = g[n]
  BY DEF Extracted, Extracts
<1> HIDE DEF g
<1>4. /\ g[0] = NothingWritten
      /\ \A i \in 0..n : i # 0 => g[i] = ExtractStep(g[i - 1], members[i])
  BY <1>1, <1>2 DEF Extracts
<1> HIDE DEF n
<1> DEFINE S == {m \in Nat : m <= n => \A path \in g[m].written : InBundle(path)}
<1>5. S = Nat
  <2>1. 0 \in S
    BY <1>4 DEF NothingWritten
  <2>2. ASSUME NEW m \in S PROVE m + 1 \in S
    <3>1. ASSUME m + 1 <= n PROVE \A path \in g[m + 1].written : InBundle(path)
      <4>1. m + 1 \in 0..n /\ m + 1 # 0 /\ (m + 1) - 1 = m /\ \A path \in g[m].written : InBundle(path)
        BY <1>1, <3>1
      <4>2. g[m + 1] = ExtractStep(g[m], members[m + 1])
        BY <1>4, <4>1
      <4> QED BY <4>1, <4>2 DEF ExtractStep
    <3> QED BY <3>1
  <2>3. S \subseteq Nat
    OBVIOUS
  <2> HIDE DEF S
  <2> QED BY <2>1, <2>2, <2>3, ByInduction
<1> QED BY <1>1, <1>3, <1>5

\* g tells what the first rows of a manifest have become.
ManifestReads(table, written, m, g) ==
    g = [i \in 0..m |-> IF i = 0 THEN NoDevices(<<>>) ELSE ManifestStep(table, written, g[i - 1], i)]

LEMMA ManifestReadsExist ==
    ASSUME NEW table, NEW written, NEW n \in Nat
    PROVE  \E g : ManifestReads(table, written, n, g)
<1> DEFINE S == {m \in Nat : \E g : ManifestReads(table, written, m, g)}
<1>1. 0 \in S
  <2>1. ManifestReads(table, written, 0, [i \in 0..0 |-> NoDevices(<<>>)])
    BY DEF ManifestReads
  <2> QED BY <2>1
<1>2. ASSUME NEW m \in S PROVE m + 1 \in S
  <2>1. PICK g : ManifestReads(table, written, m, g)
    OBVIOUS
  <2> DEFINE next == ManifestStep(table, written, g[m], m + 1)
             h == [i \in 0..(m + 1) |-> IF i = m + 1 THEN next ELSE g[i]]
             Step(i) == IF i = 0 THEN NoDevices(<<>>) ELSE ManifestStep(table, written, h[i - 1], i)
  <2>2. \A i \in 0..m : h[i] = g[i]
    OBVIOUS
  <2>3. h[m + 1] = next
    OBVIOUS
  <2>4. \A i \in 0..m : g[i] = IF i = 0 THEN NoDevices(<<>>) ELSE ManifestStep(table, written, g[i - 1], i)
    BY <2>1 DEF ManifestReads
  <2>5. \A i \in 0..(m + 1) : h[i] = Step(i)
    <3>1. ASSUME NEW i \in 0..m PROVE h[i] = Step(i)
      <4>1. i # 0 => i - 1 \in 0..m /\ h[i - 1] = g[i - 1]
        BY <2>2
      <4> HIDE DEF h
      <4> QED BY <2>2, <2>4, <4>1
    <3>2. h[m + 1] = Step(m + 1)
      <4>1. m + 1 # 0 /\ (m + 1) - 1 = m /\ h[m] = g[m]
        BY <2>2
      <4> HIDE DEF h
      <4> QED BY <2>3, <4>1
    <3> HIDE DEF h, Step
    <3> QED BY <3>1, <3>2
  <2>6. h = [i \in 0..(m + 1) |-> Step(i)]
    <3>1. h = [i \in 0..(m + 1) |-> h[i]]
      OBVIOUS
    <3> HIDE DEF h, Step
    <3> QED BY <3>1, <2>5
  <2>7. ManifestReads(table, written, m + 1, h)
    <3> HIDE DEF h
    <3> QED BY <2>6 DEF ManifestReads
  <2> HIDE DEF h
  <2> QED BY <2>7
<1>3. S \subseteq Nat
  OBVIOUS
<1> HIDE DEF S
<1>4. S = Nat
  BY <1>1, <1>2, <1>3, ByInduction
<1> QED BY <1>4 DEF S

\* The good and the bad rows of a manifest, and the good ones of one device
GoodEntries(table, written, m) == {i \in 1..m : RowIsGood(table, table.rows[i], written)}
BadEntries(table, written, m) == {i \in 1..m : ~RowIsGood(table, table.rows[i], written)}
Entries(table, written, n) == [i \in 1..n |-> EntryOf(table, table.rows[i], written)]

\* These devices are what the rows P have become.
Holds(table, written, n, devices, P) ==
    /\ IsList(devices)
    /\ \A c, d \in DOMAIN devices : devices[c].name = devices[d].name => c = d
    /\ \A d \in DOMAIN devices : \E i \in P : NameIn(table, i) = devices[d].name
    /\ \A i \in P : \E d \in DOMAIN devices : NameIn(table, i) = devices[d].name
    /\ \A d \in DOMAIN devices :
          devices[d].firmware = Keep(Entries(table, written, n), NamedRows(table, P, devices[d].name))

LEMMA NamedRowsAbove ==
    ASSUME NEW table, NEW P, NEW m, Above(P, m), NEW name
    PROVE  Above(NamedRows(table, P, name), m)
<1> DEFINE N == NamedRows(table, P, name)
<1>1. N \in SUBSET P
  BY DEF NamedRows
<1>2. IsFiniteSet(P) /\ P \subseteq Nat /\ m \in Nat /\ \A p \in P : p < m
  BY DEF Above, Places
<1>3. IsFiniteSet(N)
  BY <1>1, <1>2, FS_Subset
<1> QED BY <1>1, <1>2, <1>3 DEF Above, Places

LEMMA NamedRowsGrow ==
    ASSUME NEW table, NEW P, NEW m, NEW name, NameIn(table, m) = name
    PROVE  NamedRows(table, P \cup {m}, name) = NamedRows(table, P, name) \cup {m}
  BY DEF NamedRows

LEMMA NamedRowsStay ==
    ASSUME NEW table, NEW P, NEW m, NEW name, NameIn(table, m) # name
    PROVE  NamedRows(table, P \cup {m}, name) = NamedRows(table, P, name)
  BY DEF NamedRows

\* A list with one more element, or another one at a place
LEMMA ListWithOneMore ==
    ASSUME NEW s, IsList(s), NEW x
    PROVE  /\ IsList(Append(s, x)) /\ Len(s) \in Nat
           /\ DOMAIN s = 1..Len(s) /\ DOMAIN Append(s, x) = 1..(Len(s) + 1)
           /\ \A i \in DOMAIN s : Append(s, x)[i] = s[i]
           /\ Append(s, x)[Len(s) + 1] = x
<1> DEFINE T == ToSet(s) \cup {x}
           t == Append(s, x)
<1>1. s \in Seq(ToSet(s)) /\ Len(s) \in Nat /\ DOMAIN s = 1..Len(s)
  BY LenProperties DEF IsList
<1>2. s \in Seq(T)
  <2>1. \A i \in 1..Len(s) : s[i] \in T
    BY <1>1 DEF ToSet
  <2>2. s = [i \in 1..Len(s) |-> s[i]]
    BY <1>1
  <2> HIDE DEF T
  <2> QED BY <1>1, <2>1, <2>2, SeqDef
<1>3. x \in T
  OBVIOUS
<1> HIDE DEF T
<1>4. /\ t \in Seq(T) /\ Len(t) = Len(s) + 1
      /\ \A i \in 1..Len(s) : t[i] = s[i]
      /\ t[Len(s) + 1] = x
  BY <1>2, <1>3, AppendProperties
<1>5. DOMAIN t = 1..Len(t)
  BY <1>4, LenProperties
<1>6. t \in Seq(ToSet(t))
  <2>1. \A i \in 1..Len(t) : t[i] \in ToSet(t)
    BY <1>5 DEF ToSet
  <2>2. t = [i \in 1..Len(t) |-> t[i]] /\ Len(t) \in Nat
    <3> HIDE DEF t
    <3> QED BY <1>4, <1>5, LenProperties
  <2> HIDE DEF t
  <2>3. t \in [1..Len(t) -> ToSet(t)]
    BY <2>1, <2>2
  <2> QED BY <2>2, <2>3, SeqDef
<1> QED BY <1>1, <1>4, <1>5, <1>6 DEF IsList

LEMMA ListWithAnother ==
    ASSUME NEW s, IsList(s), NEW k \in DOMAIN s, NEW x
    PROVE  /\ IsList([s EXCEPT ![k] = x])
           /\ DOMAIN [s EXCEPT ![k] = x] = DOMAIN s
           /\ \A i \in DOMAIN s : [s EXCEPT ![k] = x][i] = IF i = k THEN x ELSE s[i]
<1> DEFINE t == [s EXCEPT ![k] = x]
<1>1. s \in Seq(ToSet(s)) /\ Len(s) \in Nat /\ DOMAIN s = 1..Len(s)
  BY LenProperties DEF IsList
<1>2. s = [i \in 1..Len(s) |-> s[i]]
  BY <1>1
<1>3. DOMAIN t = 1..Len(s) /\ t = [i \in 1..Len(s) |-> t[i]]
  BY <1>1
<1>4. \A i \in DOMAIN s : t[i] = IF i = k THEN x ELSE s[i]
  OBVIOUS
<1>5. \A i \in 1..Len(s) : t[i] \in ToSet(t)
  BY <1>3 DEF ToSet
<1> HIDE DEF t
<1>6. t \in Seq(ToSet(t))
  BY <1>1, <1>3, <1>5, SeqDef
<1> QED BY <1>1, <1>3, <1>4, <1>6 DEF IsList, t

LEMMA RowIsHeld ==
    ASSUME NEW table, "device_name" \in table.header, NEW written, NEW n \in Nat, NEW m \in 1..n,
           NEW P, Above(P, m),
           NEW devices, Holds(table, written, n, devices, P)
    PROVE  Holds(table, written, n, WithRow(devices, table, table.rows[m], written), P \cup {m})
<1> DEFINE row == table.rows[m]
           nm == NameIn(table, m)
           after == WithRow(devices, table, row, written)
           named == {i \in DOMAIN devices : devices[i].name = Cell(table, row, "device_name")}
           known == CHOOSE i \in named : TRUE
           es == Entries(table, written, n)
           Q == P \cup {m}
<1>1. Cell(table, row, "device_name") = nm
  BY DEF Cell, NameIn
<1>2. after = IF named = {} THEN Append(devices, Extended(NewBundleDevice(table, row), table, row, written))
              ELSE [devices EXCEPT ![known] = Extended(devices[known], table, row, written)]
  BY DEF WithRow
<1>3. es[m] = EntryOf(table, row, written)
  BY DEF Entries
<1>4. m \in Nat
  OBVIOUS
<1>5. ASSUME NEW name
      PROVE  /\ nm = name =>
                   Keep(es, NamedRows(table, Q, name)) = Append(Keep(es, NamedRows(table, P, name)), es[m])
             /\ nm # name =>
                   Keep(es, NamedRows(table, Q, name)) = Keep(es, NamedRows(table, P, name))
  <2> HIDE DEF es
  <2>1. ASSUME nm = name
        PROVE  Keep(es, NamedRows(table, P \cup {m}, name)) = Append(Keep(es, NamedRows(table, P, name)), es[m])
    <3>1. PICK N : N = NamedRows(table, P, name)
      OBVIOUS
    <3>2. NamedRows(table, P \cup {m}, name) = N \cup {m} /\ Above(N, m)
      BY <2>1, <3>1, NamedRowsGrow, NamedRowsAbove
    <3>3. Keep(es, N \cup {m}) = Append(Keep(es, N), es[m])
      BY <3>2, KeepAppend
    <3> QED BY <3>1, <3>2, <3>3
  <2>2. ASSUME nm # name
        PROVE  Keep(es, NamedRows(table, P \cup {m}, name)) = Keep(es, NamedRows(table, P, name))
    BY <2>2, NamedRowsStay
  <2> QED BY <2>1, <2>2
<1>6. IsList(devices) /\ (\A c, d \in DOMAIN devices : devices[c].name = devices[d].name => c = d)
  BY DEF Holds
<1>7. /\ \A d \in DOMAIN devices : \E i \in P : NameIn(table, i) = devices[d].name
      /\ \A i \in P : \E d \in DOMAIN devices : NameIn(table, i) = devices[d].name
  BY DEF Holds
<1>8. \A d \in DOMAIN devices : devices[d].firmware = Keep(es, NamedRows(table, P, devices[d].name))
  BY DEF Holds
<1> HIDE DEF es
<1>9. CASE named = {}
  <2> DEFINE new == Extended(NewBundleDevice(table, row), table, row, written)
             k == Len(devices) + 1
  <2>1. new.name = nm /\ new.firmware = Append(<<>>, es[m])
    BY <1>1, <1>3 DEF Extended, NewBundleDevice
  <2> HIDE DEF new
  <2>2. after = Append(devices, new)
    BY <1>2, <1>9 DEF new
  <2>3. /\ IsList(after) /\ Len(devices) \in Nat
        /\ DOMAIN devices = 1..Len(devices) /\ DOMAIN after = 1..k
        /\ \A i \in DOMAIN devices : after[i] = devices[i]
        /\ after[k] = new
    BY <1>6, <2>2, ListWithOneMore
  <2> HIDE DEF after, k
  <2>4. \A d \in DOMAIN after : d = k \/ d \in DOMAIN devices
    BY <2>3 DEF k
  <2>5. k \in DOMAIN after /\ k \notin DOMAIN devices /\ DOMAIN devices \subseteq DOMAIN after
    BY <2>3 DEF k
  <2>6. \A d \in DOMAIN devices : devices[d].name # nm
    BY <1>1, <1>9
  <2>7. \A c, d \in DOMAIN after : after[c].name = after[d].name => c = d
    BY <1>6, <2>1, <2>3, <2>4, <2>6
  <2>8. \A d \in DOMAIN after : \E i \in Q : NameIn(table, i) = after[d].name
    BY <1>7, <2>1, <2>3, <2>4
  <2>9. \A i \in Q : \E d \in DOMAIN after : NameIn(table, i) = after[d].name
    <3>1. ASSUME NEW i \in P PROVE \E d \in DOMAIN after : NameIn(table, i) = after[d].name
      <4>1. PICK d \in DOMAIN devices : NameIn(table, i) = devices[d].name
        BY <1>7
      <4> QED BY <2>3, <2>5, <4>1
    <3>2. nm = after[k].name
      BY <2>1, <2>3
    <3> QED BY <2>5, <3>1, <3>2
  <2>10. ASSUME NEW d \in DOMAIN after
         PROVE  after[d].firmware = Keep(es, NamedRows(table, Q, after[d].name))
    <3>1. CASE d = k
      <4>1. NamedRows(table, P, nm) = {}
        BY <1>7, <2>6 DEF NamedRows
      <4>2. Keep(es, {}) = <<>>
        <5>1. Cardinality({}) = 0
          BY FS_EmptySet
        <5> QED BY <5>1 DEF Keep
      <4>3. Keep(es, NamedRows(table, Q, nm)) = Append(<<>>, es[m])
        BY <1>5, <4>1, <4>2
      <4> QED BY <2>1, <2>3, <3>1, <4>3
    <3>2. CASE d \in DOMAIN devices
      <4>1. after[d] = devices[d] /\ devices[d].name # nm
        BY <2>3, <2>6, <3>2
      <4>2. Keep(es, NamedRows(table, Q, devices[d].name)) = Keep(es, NamedRows(table, P, devices[d].name))
        BY <1>5, <4>1
      <4> QED BY <1>8, <3>2, <4>1, <4>2
    <3> QED BY <2>4, <3>1, <3>2
  <2> QED BY <2>3, <2>7, <2>8, <2>9, <2>10 DEF Holds, es, after
<1>10. CASE named # {}
  <2> DEFINE new == Extended(devices[known], table, row, written)
  <2>1. known \in DOMAIN devices /\ devices[known].name = nm
    BY <1>1, <1>10
  <2> HIDE DEF known
  <2>2. new.name = nm /\ new.firmware = Append(devices[known].firmware, es[m])
    BY <1>3, <2>1 DEF Extended
  <2> HIDE DEF new
  <2>3. after = [devices EXCEPT ![known] = new]
    BY <1>2, <1>10 DEF new
  <2>4. /\ IsList(after) /\ DOMAIN after = DOMAIN devices
        /\ \A i \in DOMAIN devices : after[i] = IF i = known THEN new ELSE devices[i]
    BY <1>6, <2>1, <2>3, ListWithAnother
  <2> HIDE DEF after
  <2>5. \A d \in DOMAIN devices : after[d].name = devices[d].name
    BY <2>1, <2>2, <2>4
  <2>6. \A c, d \in DOMAIN after : after[c].name = after[d].name => c = d
    BY <1>6, <2>4, <2>5
  <2>7. \A d \in DOMAIN after : \E i \in Q : NameIn(table, i) = after[d].name
    BY <1>7, <2>4, <2>5
  <2>8. \A i \in Q : \E d \in DOMAIN after : NameIn(table, i) = after[d].name
    BY <1>7, <2>1, <2>4, <2>5
  <2>9. ASSUME NEW d \in DOMAIN after
        PROVE  after[d].firmware = Keep(es, NamedRows(table, Q, after[d].name))
    <3>1. CASE d = known
      <4>1. Keep(es, NamedRows(table, Q, nm)) = Append(Keep(es, NamedRows(table, P, nm)), es[m])
        BY <1>5
      <4>2. devices[known].firmware = Keep(es, NamedRows(table, P, nm))
        BY <1>8, <2>1
      <4>3. after[d] = new
        BY <2>1, <2>4, <3>1
      <4> QED BY <2>2, <4>1, <4>2, <4>3
    <3>2. CASE d # known
      <4>1. after[d] = devices[d] /\ devices[d].name # nm /\ d \in DOMAIN devices
        BY <1>6, <2>1, <2>4, <3>2
      <4>2. Keep(es, NamedRows(table, Q, devices[d].name)) = Keep(es, NamedRows(table, P, devices[d].name))
        BY <1>5, <4>1
      <4> QED BY <1>8, <4>1, <4>2
    <3> QED BY <3>1, <3>2
  <2> QED BY <2>4, <2>6, <2>7, <2>8, <2>9 DEF Holds, es, after
<1> QED BY <1>9, <1>10

LEMMA ManifestIs ==
    ASSUME NEW table, Len(table.rows) \in Nat, {"device_name", "firmware_file"} \subseteq table.header,
           NEW written, NEW count, count = IF Len(table.rows) > MaxRows THEN MaxRows ELSE Len(table.rows)
    PROVE  \E g : /\ ManifestReads(table, written, count, g)
                  /\ Manifest(table, written) = Limited(table, g[count])
<1> DEFINE g == CHOOSE g : ManifestReads(table, written, count, g)
<1>1. count \in Nat
  BY ImportsAssumption
<1>2. ManifestReads(table, written, count, g)
  BY <1>1, ManifestReadsExist
<1>3. Manifest(table, written) = Limited(table, g[count])
  BY DEF Manifest, ManifestReads
<1> QED BY <1>2, <1>3

\* What the first m rows have become
RowsHeld(table, written, n, m, done) ==
    /\ done = [devices |-> done.devices, errors |-> InOrder(BadEntries(table, written, m), n)]
    /\ Holds(table, written, n, done.devices, GoodEntries(table, written, m))

LEMMA RowsHeldGrow ==
    ASSUME NEW table, "device_name" \in table.header, NEW written, NEW n \in Nat, NEW m \in Nat, m + 1 \in 1..n,
           NEW done, RowsHeld(table, written, n, m, done)
    PROVE  RowsHeld(table, written, n, m + 1, ManifestStep(table, written, done, m + 1))
<1> DEFINE Good(k) == GoodEntries(table, written, k)
           Bad(k) == BadEntries(table, written, k)
           row == table.rows[m + 1]
<1>1. Above(Good(m), m + 1) /\ Above(Bad(m), m + 1)
  <2>1. Good(m) \subseteq 1..m /\ Bad(m) \subseteq 1..m
    BY DEF GoodEntries, BadEntries
  <2> HIDE DEF Good, Bad
  <2> QED BY <2>1, PlacesOf DEF Above
<1>2. PICK a, b : a = done.devices /\ b = InOrder(Bad(m), n)
  OBVIOUS
<1>3. done = [devices |-> a, errors |-> b] /\ Holds(table, written, n, a, Good(m))
  BY <1>2 DEF RowsHeld
<1>4. CASE RowIsGood(table, row, written)
  <2>1. Good(m + 1) = Good(m) \cup {m + 1} /\ Bad(m + 1) = Bad(m)
    BY <1>4 DEF GoodEntries, BadEntries
  <2>2. ManifestStep(table, written, done, m + 1) = [devices |-> WithRow(a, table, row, written), errors |-> b]
    <3> HIDE DEF row
    <3> QED BY <1>3, <1>4 DEF ManifestStep, row
  <2>3. Holds(table, written, n, WithRow(a, table, row, written), Good(m) \cup {m + 1})
    <3>1. PICK k, P : k = m + 1 /\ P = Good(m)
      OBVIOUS
    <3> HIDE DEF Good
    <3>2. k \in 1..n /\ Above(P, k) /\ Holds(table, written, n, a, P)
      BY <1>1, <1>3, <3>1
    <3>3. Holds(table, written, n, WithRow(a, table, table.rows[k], written), P \cup {k})
      BY <3>2, RowIsHeld
    <3> QED BY <3>1, <3>3
  <2>4. PICK c, r : c = WithRow(a, table, row, written) /\ r = ManifestStep(table, written, done, m + 1)
    OBVIOUS
  <2>5. r = [devices |-> c, errors |-> b] /\ b = InOrder(Bad(m + 1), n) /\ Holds(table, written, n, c, Good(m + 1))
    <3> HIDE DEF Good, Bad, row
    <3> QED BY <1>2, <2>1, <2>2, <2>3, <2>4
  <2>6. r = [devices |-> r.devices, errors |-> b] /\ r.devices = c
    BY <2>5
  <2> QED BY <2>4, <2>5, <2>6 DEF RowsHeld
<1>5. CASE ~RowIsGood(table, row, written)
  <2>1. Bad(m + 1) = Bad(m) \cup {m + 1} /\ Good(m + 1) = Good(m)
    BY <1>5 DEF GoodEntries, BadEntries
  <2>2. ManifestStep(table, written, done, m + 1) = [devices |-> a, errors |-> Append(b, m + 1)]
    <3> HIDE DEF row
    <3> QED BY <1>3, <1>5 DEF ManifestStep, row
  <2>3. InOrder(Bad(m) \cup {m + 1}, n) = Append(b, m + 1)
    <3> DEFINE id == [i \in 1..n |-> i]
    <3>1. id[m + 1] = m + 1
      OBVIOUS
    <3>2. \A P : InOrder(P, n) = Keep(id, P)
      BY DEF InOrder
    <3> HIDE DEF id, Bad
    <3>3. Keep(id, Bad(m) \cup {m + 1}) = Append(Keep(id, Bad(m)), id[m + 1])
      BY <1>1, KeepAppend
    <3> QED BY <1>2, <3>1, <3>2, <3>3
  <2>4. PICK c, r : c = Append(b, m + 1) /\ r = ManifestStep(table, written, done, m + 1)
    OBVIOUS
  <2>5. r = [devices |-> a, errors |-> c] /\ c = InOrder(Bad(m + 1), n) /\ Holds(table, written, n, a, Good(m + 1))
    <3> HIDE DEF Good, Bad
    <3> QED BY <1>3, <2>1, <2>2, <2>3, <2>4
  <2>6. r = [devices |-> r.devices, errors |-> c] /\ r.devices = a
    BY <2>5
  <2> QED BY <2>4, <2>5, <2>6 DEF RowsHeld
<1> QED BY <1>4, <1>5

LEMMA ManifestHeld ==
    ASSUME NEW table, IsList(table.rows), {"device_name", "firmware_file"} \subseteq table.header,
           NEW written, NEW count, count = IF Len(table.rows) > MaxRows THEN MaxRows ELSE Len(table.rows),
           NEW made, made = Manifest(table, written)
    PROVE  /\ Holds(table, written, count, made.devices, GoodEntries(table, written, count))
           /\ made.errors = IF Len(table.rows) > MaxRows
                            THEN Append(InOrder(BadEntries(table, written, count), count), MaxRows + 1)
                            ELSE InOrder(BadEntries(table, written, count), count)
<1>1. Len(table.rows) \in Nat
  BY LenProperties DEF IsList
<1>2. count \in Nat
  BY <1>1, ImportsAssumption
<1>3. PICK g : /\ ManifestReads(table, written, count, g)
               /\ made = Limited(table, g[count])
  BY <1>1, ManifestIs
<1>4. g[0] = NoDevices(<<>>) /\ \A i \in 0..count : i # 0 => g[i] = ManifestStep(table, written, g[i - 1], i)
  BY <1>2, <1>3 DEF ManifestReads
<1>5. RowsHeld(table, written, count, 0, NoDevices(<<>>))
  <2>1. GoodEntries(table, written, 0) = {} /\ BadEntries(table, written, 0) = {}
    BY DEF GoodEntries, BadEntries
  <2>2. InOrder({}, count) = <<>>
    <3>1. Cardinality({}) = 0
      BY FS_EmptySet
    <3> QED BY <3>1 DEF InOrder, Keep
  <2>3. Holds(table, written, count, <<>>, {})
    <3>1. IsList(<<>>)
      BY EmptySeq DEF IsList
    <3> QED BY <3>1 DEF Holds
  <2> QED BY <2>1, <2>2, <2>3 DEF RowsHeld, NoDevices
<1> DEFINE S == {m \in Nat : m <= count => RowsHeld(table, written, count, m, g[m])}
<1>6. S = Nat
  <2>1. 0 \in S
    BY <1>4, <1>5
  <2>2. ASSUME NEW m \in S PROVE m + 1 \in S
    <3>1. ASSUME m + 1 <= count PROVE RowsHeld(table, written, count, m + 1, g[m + 1])
      <4>1. /\ m \in Nat /\ m + 1 \in 1..count /\ m + 1 \in 0..count /\ m + 1 # 0 /\ (m + 1) - 1 = m
            /\ RowsHeld(table, written, count, m, g[m])
        BY <1>2, <3>1
      <4>2. g[m + 1] = ManifestStep(table, written, g[m], m + 1)
        BY <1>4, <4>1
      <4> QED BY <1>2, <4>1, <4>2, RowsHeldGrow
    <3> QED BY <3>1
  <2>3. S \subseteq Nat
    OBVIOUS
  <2> HIDE DEF S
  <2> QED BY <2>1, <2>2, <2>3, ByInduction
<1>7. RowsHeld(table, written, count, count, g[count])
  BY <1>2, <1>6
<1>8. PICK a, b : g[count] = [devices |-> a, errors |-> b]
  BY <1>7 DEF RowsHeld
<1>9. /\ Holds(table, written, count, a, GoodEntries(table, written, count))
      /\ b = InOrder(BadEntries(table, written, count), count)
  BY <1>7, <1>8 DEF RowsHeld
<1>10. made = [devices |-> a, errors |-> IF Len(table.rows) > MaxRows THEN Append(b, MaxRows + 1) ELSE b]
  <2>1. made = Limited(table, [devices |-> a, errors |-> b])
    BY <1>3, <1>8
  <2>2. CASE Len(table.rows) > MaxRows
    BY <2>1, <2>2 DEF Limited
  <2>3. CASE ~(Len(table.rows) > MaxRows)
    BY <2>1, <2>3 DEF Limited
  <2> QED BY <2>2, <2>3
<1>11. made.devices = a /\ made.errors = IF Len(table.rows) > MaxRows THEN Append(b, MaxRows + 1) ELSE b
  BY <1>10
<1> QED BY <1>9, <1>11

\* The rows that become entries are those that name a device and a file.
LEMMA GoodIsBundled ==
    ASSUME NEW table, NEW written, NEW i
    PROVE  RowIsGood(table, table.rows[i], written) <=> Bundled(table, i, written)
BY DEF RowIsGood, BinFiles, Bundled

LEMMA BundleHolds ==
    ASSUME NEW table, IsList(table.rows), {"device_name", "firmware_file"} \subseteq table.header,
           NEW written, NEW count, count = IF Len(table.rows) < MaxRows THEN Len(table.rows) ELSE MaxRows,
           NEW made, made = Manifest(table, written),
           NEW all, all.written = written, all.devices = made.devices, all.errors = made.errors
    PROVE  RowsAreEntries(all, table, count)
<1> DEFINE Good == GoodEntries(table, written, count)
           Bad == BadEntries(table, written, count)
           id == [i \in 1..count |-> i]
           E == InOrder(Bad, count)
           es == Entries(table, written, count)
<1>1. Len(table.rows) \in Nat /\ MaxRows \in Nat
  BY LenProperties, ImportsAssumption DEF IsList
<1>2. /\ count \in Nat /\ count = IF Len(table.rows) > MaxRows THEN MaxRows ELSE Len(table.rows)
      /\ Len(table.rows) > MaxRows => count = MaxRows
  BY <1>1
<1>3. /\ Holds(table, written, count, made.devices, Good)
      /\ made.errors = IF Len(table.rows) > MaxRows THEN Append(E, MaxRows + 1) ELSE E
  BY <1>2, ManifestHeld
<1>4. /\ Good \subseteq 1..count /\ Bad \subseteq 1..count /\ Good = (1..count) \ Bad
      /\ \A i \in Bad : ~RowIsGood(table, table.rows[i], written)
      /\ \A i \in Good : RowIsGood(table, table.rows[i], written)
  BY DEF GoodEntries, BadEntries
<1> HIDE DEF Good, Bad
<1>5. E = Keep(id, Bad) /\ id = [i \in 1..count |-> i] /\ \A P : InOrder(P, count) = Keep(id, P)
  BY DEF InOrder
<1>6. /\ Keep(id, Bad) \in Seq(Bad)
      /\ \A i \in Bad : Upto(Bad, i) \in DOMAIN Keep(id, Bad) /\ Keep(id, Bad)[Upto(Bad, i)] = i
  BY ONLY <1>2, <1>4, <1>5, KeepNumbers
<1> HIDE DEF E, id
<1>7. /\ E \in Seq(Bad) /\ DOMAIN E = 1..Len(E) /\ Len(E) \in Nat
      /\ \A i \in DOMAIN E : E[i] \in Bad
      /\ \A i \in Bad : \E k \in DOMAIN E : E[k] = i
  <2>1. E \in Seq(Bad)
    BY <1>5, <1>6
  <2>2. DOMAIN E = 1..Len(E) /\ Len(E) \in Nat
    BY <2>1, LenProperties
  <2>3. \A i \in DOMAIN E : E[i] \in Bad
    BY <2>1, <2>2, ElementOfSeq
  <2>4. \A i \in Bad : Upto(Bad, i) \in DOMAIN E /\ E[Upto(Bad, i)] = i
    BY <1>5, <1>6
  <2> QED BY <2>1, <2>2, <2>3, <2>4
<1>8. /\ DOMAIN made.errors = 1..Len(made.errors)
      /\ \A i \in Bad : \E k \in DOMAIN made.errors : made.errors[k] = i
      /\ \A k \in DOMAIN made.errors :
            made.errors[k] \in Bad \/ (made.errors[k] = MaxRows + 1 /\ Len(table.rows) > MaxRows)
  <2>1. CASE Len(table.rows) > MaxRows
    <3>1. IsList(E)
      <4>1. E \in [1..Len(E) -> ToSet(E)]
        <5>1. E = [i \in 1..Len(E) |-> E[i]]
          BY <1>7, LenProperties
        <5>2. \A i \in 1..Len(E) : E[i] \in ToSet(E)
          BY <1>7 DEF ToSet
        <5> QED BY <5>1, <5>2
      <4> QED BY <1>7, <4>1, SeqDef DEF IsList
    <3>2. PICK e : e = Append(E, MaxRows + 1)
      OBVIOUS
    <3>3. made.errors = e
      BY <1>3, <2>1, <3>2
    <3>4. /\ IsList(e) /\ DOMAIN e = 1..(Len(E) + 1)
          /\ \A i \in DOMAIN E : e[i] = E[i]
          /\ e[Len(E) + 1] = MaxRows + 1
      BY <3>1, <3>2, ListWithOneMore
    <3>5. DOMAIN e = 1..Len(e)
      BY <3>4, LenProperties DEF IsList
    <3>6. \A k \in DOMAIN e : k \in DOMAIN E \/ k = Len(E) + 1
      BY <1>7, <3>4
    <3>7. DOMAIN E \subseteq DOMAIN e
      BY <1>7, <3>4
    <3> QED BY <1>7, <2>1, <3>3, <3>4, <3>5, <3>6, <3>7
  <2>2. CASE ~(Len(table.rows) > MaxRows)
    <3>1. made.errors = E
      BY <1>3, <2>2
    <3>2. /\ DOMAIN made.errors = 1..Len(made.errors)
          /\ \A i \in Bad : \E k \in DOMAIN made.errors : made.errors[k] = i
      BY <1>7, <3>1
    <3>3. \A k \in DOMAIN made.errors : made.errors[k] \in Bad
      BY <1>7, <3>1
    <3> QED BY <3>2, <3>3
  <2> QED BY <2>1, <2>2
<1> DEFINE good == Unreported(count, made.errors)
<1>9. good = Good
  <2>1. ASSUME NEW i \in 1..count PROVE Contains(made.errors, i) <=> i \in Bad
    <3>1. Len(table.rows) > MaxRows => i # MaxRows + 1
      BY <1>1, <1>2
    <3> QED BY <1>8, <3>1 DEF Contains
  <2> QED BY <1>4, <2>1 DEF Unreported
<1>10. ASSUME NEW i \in ToSet(made.errors)
       PROVE  \/ i = MaxRows + 1 /\ Len(table.rows) > MaxRows
              \/ i \in 1..count /\ ~RowIsGood(table, table.rows[i], written)
  <2>1. PICK k \in DOMAIN made.errors : i = made.errors[k]
    BY <1>10 DEF ToSet
  <2>2. i \in Bad \/ (i = MaxRows + 1 /\ Len(table.rows) > MaxRows)
    BY <1>8, <2>1
  <2> QED BY <1>4, <2>2
<1>11. \A c, d \in DOMAIN made.devices : made.devices[c].name = made.devices[d].name => c = d
  BY <1>3 DEF Holds
<1>12. {NameIn(table, i) : i \in Good} = {made.devices[d].name : d \in DOMAIN made.devices}
  BY <1>3 DEF Holds
<1>13. ASSUME NEW d \in DOMAIN made.devices, NEW rows, rows = InOrder(NamedRows(table, Good, made.devices[d].name), count)
       PROVE  made.devices[d].firmware = [i \in DOMAIN rows |-> EntryOf(table, table.rows[rows[i]], written)]
  <2> DEFINE P == NamedRows(table, Good, made.devices[d].name)
  <2>1. P \subseteq 1..count
    BY <1>4 DEF NamedRows
  <2>2. made.devices[d].firmware = Keep(es, P)
    BY <1>3 DEF Holds
  <2> HIDE DEF P
  <2>3. rows = Keep(id, P)
    BY <1>5, <1>13 DEF P
  <2>4. P \in Places /\ \A i \in P : id[i] = i
    BY <1>2, <1>5, <2>1, PlacesOf
  <2>5. Keep(es, P) = [k \in DOMAIN Keep(id, P) |-> es[Keep(id, P)[k]]]
    <3> HIDE DEF es
    <3> QED BY <2>4, KeepInOrder
  <2>6. ASSUME NEW k \in DOMAIN rows PROVE es[rows[k]] = EntryOf(table, table.rows[rows[k]], written)
    <3>1. Keep(id, P) \in Seq(P)
      BY <1>2, <1>5, <2>1, KeepNumbers
    <3>2. rows[k] \in 1..count
      BY <2>1, <2>3, <3>1, LenProperties, ElementOfSeq
    <3> QED BY <3>2 DEF Entries
  <2> HIDE DEF es
  <2> QED BY <2>2, <2>3, <2>5, <2>6
<1> HIDE DEF es
<1> HIDE DEF good
<1>15. good = Unreported(count, all.errors)
  BY DEF good
<1>16. \A i \in ToSet(all.errors) :
          \/ i = MaxRows + 1 /\ Len(table.rows) > MaxRows
          \/ i \in 1..count /\ ~Bundled(table, i, all.written)
  BY <1>10, GoodIsBundled
<1>20. \A i \in good : Bundled(table, i, all.written)
  BY <1>4, <1>9, GoodIsBundled
<1>17. \A c, d \in DOMAIN all.devices : all.devices[c].name = all.devices[d].name => c = d
  BY <1>11
<1>18. {NameIn(table, i) : i \in good} = {all.devices[d].name : d \in DOMAIN all.devices}
  BY <1>9, <1>12
<1>19. ASSUME NEW d \in DOMAIN all.devices
       PROVE  all.devices[d].firmware =
                  EntriesOf(table, InOrder(NamedRows(table, good, all.devices[d].name), count), all.written)
  <2>1. d \in DOMAIN made.devices /\ all.devices[d] = made.devices[d]
    OBVIOUS
  <2>2. PICK rows : rows = InOrder(NamedRows(table, Good, made.devices[d].name), count)
    OBVIOUS
  <2>3. made.devices[d].firmware = EntriesOf(table, rows, written)
    BY <1>13, <2>1, <2>2 DEF EntriesOf
  <2> QED BY <1>9, <2>1, <2>2, <2>3
<1> QED BY <1>15, <1>16, <1>17, <1>18, <1>19, <1>20 DEF RowsAreEntries

-----------------------------------------------------------------------------
(* The two imports. *)

LEMMA CsvTaskStep ==
    ASSUME TypedTask(task), ImportFromCsv
    PROVE  CsvIsExact'
<1>1. task.kind = "csv" /\ task' = task
  BY DEF ImportFromCsv, Makes
<1>2. PICK table, made : table = task.table /\ made = ImportCsv(table)
  OBVIOUS
<1>3. IsList(table.rows)
  BY <1>1, <1>2 DEF TypedTask
<1>4. It' = made /\ task'.table = table
  BY <1>1, <1>2 DEF ImportFromCsv, Makes, It
<1>5. CASE "name" \notin table.header
  <2>1. made = NoDevices(<<0>>)
    BY <1>2, <1>5 DEF ImportCsv
  <2> QED BY <1>4, <1>5, <2>1 DEF CsvIsExact
<1>6. CASE "name" \in table.header
  <2>1. PICK count, good : count = Len(table.rows) /\ good = InOrder(Unreported(count, made.errors), count)
    OBVIOUS
  <2>2. /\ \A i \in DOMAIN made.errors :
              made.errors[i] \in 1..count /\ ~CsvRowIsGood(table, table.rows[made.errors[i]])
        /\ \A i, j \in DOMAIN made.errors : i < j => made.errors[i] < made.errors[j]
        /\ made.devices = [i \in DOMAIN good |-> CsvDevice(table, table.rows[good[i]])]
    BY <1>2, <1>3, <1>6, <2>1, CsvHolds
  <2> QED BY <1>4, <1>6, <2>1, <2>2 DEF CsvIsExact
<1> QED BY <1>5, <1>6

LEMMA BundleTaskStep ==
    ASSUME TypedTask(task), ImportFromBundle
    PROVE  BundleIsExact'
<1>1. task.kind = "bundle" /\ task' = task
  BY DEF ImportFromBundle, Makes
<1>2. PICK bundle, table, extracted, made :
         /\ bundle = task.bundle /\ table = bundle.table
         /\ extracted = Extracted(bundle.members) /\ made = ImportBundle(bundle)
  OBVIOUS
<1>3. IsList(bundle.members) /\ IsList(table.rows)
  BY <1>1, <1>2 DEF TypedTask
<1>4. It' = made /\ task'.bundle.table = table
  BY <1>1, <1>2 DEF ImportFromBundle, Makes, It
<1>5. \A path \in extracted.written : Len(path) > Len(ExtractDir) /\ IsPrefix(ExtractDir, path)
  BY <1>2, <1>3, ExtractedInBundle DEF InBundle
<1>6. PICK read : read = Manifest(table, extracted.written)
  OBVIOUS
<1>7. \/ made = Raised({})
      \/ made = Raised(extracted.written)
      \/ made = [raised |-> FALSE, written |-> extracted.written,
                 devices |-> read.devices, errors |-> read.errors]
  BY <1>2, <1>6 DEF ImportBundle
<1>8. CASE made = Raised({}) \/ made = Raised(extracted.written)
  <2>1. /\ made.raised /\ made.devices = <<>>
        /\ \A path \in made.written : Len(path) > Len(ExtractDir) /\ IsPrefix(ExtractDir, path)
    BY <1>5, <1>8 DEF Raised
  <2> QED BY <1>4, <2>1 DEF BundleIsExact
<1>9. CASE made = [raised |-> FALSE, written |-> extracted.written,
                   devices |-> read.devices, errors |-> read.errors]
  <2>1. /\ ~made.raised /\ made.written = extracted.written
        /\ made.devices = read.devices /\ made.errors = read.errors
    BY <1>9
  <2>2. CASE {"device_name", "firmware_file"} \subseteq table.header
    <3>1. PICK count : count = IF Len(table.rows) < MaxRows THEN Len(table.rows) ELSE MaxRows
      OBVIOUS
    <3>2. RowsAreEntries(made, table, count)
      BY <1>3, <1>6, <2>1, <2>2, <3>1, BundleHolds
    <3> QED BY <1>4, <1>5, <2>1, <2>2, <3>1, <3>2 DEF BundleIsExact
  <2>3. CASE ~({"device_name", "firmware_file"} \subseteq table.header)
    <3>1. read.devices = <<>> /\ read.errors = <<0>>
      BY <1>6, <2>3 DEF Manifest, NoDevices
    <3> QED BY <1>4, <1>5, <2>1, <2>3, <3>1 DEF BundleIsExact
  <2> QED BY <2>2, <2>3
<1> QED BY <1>7, <1>8, <1>9

\* Every row of a table is a device or is reported; nothing of a bundle is
\* written outside its folder, and every row of its manifest is reported or names a
\* .bin file of the bundle and is an entry of the one device with its name, in the
\* order of the rows.
THEOREM ImportsStayExact == Spec => []ImportsAreExact
<1>1. Init => TasksAreTyped /\ ImportsAreExact
  BY NothingMade DEF ImportsAreExact, CsvIsExact, BundleIsExact, Made
<1>2. ASSUME TasksAreTyped, ImportsAreExact, [Next]_vars
      PROVE  TasksAreTyped' /\ ImportsAreExact'
  <2>1. TypedTask(task)
    BY <1>2, TaskIsTyped
  <2>2. TasksAreTyped'
    BY <1>2, TasksStay
  <2>3. CASE UNCHANGED vars
    <3>1. task' = task /\ result' = result
      BY <2>3 DEF vars
    <3>2. CsvIsExact'
      BY <1>2, <3>1 DEF ImportsAreExact, CsvIsExact, Made, It
    <3>3. BundleIsExact'
      BY <1>2, <3>1 DEF ImportsAreExact, BundleIsExact, Made, It
    <3> QED BY <2>2, <3>2, <3>3 DEF ImportsAreExact
  <2>4. CASE Next
    <3>1. task' = task
      BY <2>4, StepOfKind
    <3>2. CsvIsExact'
      <4>1. CASE task.kind = "csv"
        BY <2>1, <2>4, <4>1, StepOfKind, CsvTaskStep
      <4>2. CASE task.kind # "csv"
        BY <3>1, <4>2 DEF CsvIsExact, Made
      <4> QED BY <4>1, <4>2
    <3>3. BundleIsExact'
      <4>1. CASE task.kind = "bundle"
        BY <2>1, <2>4, <4>1, StepOfKind, BundleTaskStep
      <4>2. CASE task.kind # "bundle"
        BY <3>1, <4>2 DEF BundleIsExact, Made
      <4> QED BY <4>1, <4>2
    <3> QED BY <2>2, <3>2, <3>3 DEF ImportsAreExact
  <2> QED BY <1>2, <2>3, <2>4
<1> QED BY <1>1, <1>2, PTL DEF Spec

-----------------------------------------------------------------------------
(* Recent projects: the last use of each, the latest first. *)

\* g tells what the list is after the first projects.
RecentReads(paths, m, g) ==
    g = [i \in 0..m |-> IF i = 0 THEN <<>> ELSE AddRecent(g[i - 1], paths[i])]

LEMMA RecentReadsExist ==
    ASSUME NEW paths, NEW n \in Nat
    PROVE  \E g : RecentReads(paths, n, g)
<1> DEFINE S == {m \in Nat : \E g : RecentReads(paths, m, g)}
<1>1. 0 \in S
  <2>1. RecentReads(paths, 0, [i \in 0..0 |-> <<>>])
    BY DEF RecentReads
  <2> QED BY <2>1
<1>2. ASSUME NEW m \in S PROVE m + 1 \in S
  <2>1. PICK g : RecentReads(paths, m, g)
    OBVIOUS
  <2> DEFINE next == AddRecent(g[m], paths[m + 1])
             h == [i \in 0..(m + 1) |-> IF i = m + 1 THEN next ELSE g[i]]
             Step(i) == IF i = 0 THEN <<>> ELSE AddRecent(h[i - 1], paths[i])
  <2>2. \A i \in 0..m : h[i] = g[i]
    OBVIOUS
  <2>3. h[m + 1] = next
    OBVIOUS
  <2>4. \A i \in 0..m : g[i] = IF i = 0 THEN <<>> ELSE AddRecent(g[i - 1], paths[i])
    BY <2>1 DEF RecentReads
  <2>5. \A i \in 0..(m + 1) : h[i] = Step(i)
    <3>1. ASSUME NEW i \in 0..m PROVE h[i] = Step(i)
      <4>1. i # 0 => i - 1 \in 0..m /\ h[i - 1] = g[i - 1]
        BY <2>2
      <4> HIDE DEF h
      <4> QED BY <2>2, <2>4, <4>1
    <3>2. h[m + 1] = Step(m + 1)
      <4>1. m + 1 # 0 /\ (m + 1) - 1 = m /\ h[m] = g[m]
        BY <2>2
      <4> HIDE DEF h
      <4> QED BY <2>3, <4>1
    <3> HIDE DEF h, Step
    <3> QED BY <3>1, <3>2
  <2>6. h = [i \in 0..(m + 1) |-> Step(i)]
    <3>1. h = [i \in 0..(m + 1) |-> h[i]]
      OBVIOUS
    <3> HIDE DEF h, Step
    <3> QED BY <3>1, <2>5
  <2>7. RecentReads(paths, m + 1, h)
    <3> HIDE DEF h
    <3> QED BY <2>6 DEF RecentReads
  <2> HIDE DEF h
  <2> QED BY <2>7
<1>3. S \subseteq Nat
  OBVIOUS
<1> HIDE DEF S
<1>4. S = Nat
  BY <1>1, <1>2, <1>3, ByInduction
<1> QED BY <1>4 DEF S

\* A list is one if it is a function on its places.
LEMMA ListIs ==
    ASSUME NEW n \in Nat, NEW s, s = [i \in 1..n |-> s[i]]
    PROVE  IsList(s) /\ Len(s) = n /\ DOMAIN s = 1..n
<1>1. DOMAIN s = 1..n
  OBVIOUS
<1>2. \A i \in 1..n : s[i] \in ToSet(s)
  BY <1>1 DEF ToSet
<1>3. s \in [1..n -> ToSet(s)]
  BY <1>2
<1>4. s \in Seq(ToSet(s))
  BY <1>3, SeqDef
<1>5. Len(s) \in Nat /\ DOMAIN s = 1..Len(s)
  BY <1>4, LenProperties
<1>6. Len(s) = n
  BY <1>1, <1>5
<1> QED BY <1>1, <1>4, <1>6 DEF IsList

Behind(after, recents, places) ==
    \A x \in 1..Len(after) : x > 1 =>
        \E y \in places : Upto(places, y) = x - 1 /\ after[x] = recents[y]

\* The list with a path in front, cut off.
LEMMA RecentAdded ==
    ASSUME NEW recents, IsList(recents), NEW path, NEW places, NEW k, NEW after,
           places = {i \in DOMAIN recents : recents[i].file # path.file},
           k = Cardinality(places), after = AddRecent(recents, path)
    PROVE  /\ places \in Places /\ k \in Nat
           /\ IsList(after) /\ Len(after) = (IF k < MaxRecent THEN k + 1 ELSE MaxRecent)
           /\ DOMAIN after = 1..Len(after)
           /\ after[1] = path
           /\ Behind(after, recents, places)
<1> DEFINE others == Keep(recents, places)
           T == ToSet(recents) \cup {path}
           n == IF k < MaxRecent THEN k + 1 ELSE MaxRecent
<1>1. DOMAIN recents = 1..Len(recents) /\ Len(recents) \in Nat
  BY LenProperties DEF IsList
<1>2. places \in Places /\ k \in Nat
  BY <1>1, PlacesOf
<1>3. others \in Seq(T) /\ Len(others) = k /\ DOMAIN others = 1..k
  <2>1. \A i \in places : recents[i] \in T
    BY DEF ToSet
  <2> HIDE DEF T
  <2>2. others \in Seq(T) /\ Len(others) = k
    BY <1>2, <2>1, KeepType
  <2> HIDE DEF others
  <2> QED BY <2>2, LenProperties
<1>4. \A z \in 1..k : \E y \in places : Upto(places, y) = z /\ others[z] = recents[y]
  BY <1>2, KeepPlaces
<1>5. path \in T
  OBVIOUS
<1>6. after = SubSeq(<<path>> \o others, 1, n)
  BY <1>3 DEF AddRecent
<1> HIDE DEF T, others
<1>7. PICK all : all = <<path>> \o others
  OBVIOUS
<1>8. /\ all \in Seq(T) /\ Len(all) = k + 1 /\ all[1] = path
      /\ \A x \in 2..(k + 1) : all[x] = others[x - 1]
  <2>1. <<path>> \in Seq(T) /\ Len(<<path>>) = 1 /\ <<path>>[1] = path
    BY <1>5
  <2>2. Len(all) = 1 + k /\ all \in Seq(T)
    BY <1>3, <1>7, <2>1, ConcatProperties
  <2>3. \A x \in 1..(1 + k) : all[x] = IF x <= 1 THEN <<path>>[x] ELSE others[x - 1]
    BY <1>3, <1>7, <2>1, ConcatProperties
  <2>4. all[1] = path
    <3>1. 1 \in 1..(1 + k)
      BY <1>2
    <3> QED BY <2>1, <2>3, <3>1
  <2>5. ASSUME NEW x \in 2..(k + 1) PROVE all[x] = others[x - 1]
    <3>1. x \in 1..(1 + k) /\ ~(x <= 1)
      BY <1>2
    <3> QED BY <2>3, <3>1
  <2>6. Len(all) = k + 1
    BY <1>2, <2>2
  <2> QED BY <2>2, <2>4, <2>5, <2>6
<1>9. n \in 1..(k + 1) /\ MaxRecent \in Nat
  BY <1>2, FileAssumption
<1>10. Len(after) = n /\ after \in Seq(T) /\ \A x \in 1..n : after[x] = all[x]
  <2> HIDE DEF n
  <2>1. after = SubSeq(all, 1, n) /\ n <= Len(all) /\ 1 \in Nat /\ n \in Nat
    BY <1>2, <1>6, <1>7, <1>8, <1>9
  <2> QED BY <1>8, <1>9, <2>1
<1>11. DOMAIN after = 1..n
  BY <1>10, LenProperties
<1>12. IsList(after)
  <2> HIDE DEF n
  <2>1. after = [i \in 1..n |-> after[i]]
    BY <1>10, <1>11, LenProperties
  <2> QED BY <1>9, <2>1, ListIs
<1>13. after[1] = path
  BY <1>8, <1>9, <1>10
<1>14. ASSUME NEW x \in 1..n, x > 1
       PROVE  \E y \in places : Upto(places, y) = x - 1 /\ after[x] = recents[y]
  <2>1. x - 1 \in 1..k /\ x \in 2..(k + 1)
    BY <1>2, <1>9, <1>14
  <2>2. after[x] = others[x - 1]
    BY <1>8, <1>10, <2>1
  <2> QED BY <1>4, <2>1, <2>2
<1> HIDE DEF n
<1>15. Len(after) = (IF k < MaxRecent THEN k + 1 ELSE MaxRecent)
  BY <1>10 DEF n
<1>16. Behind(after, recents, places)
  BY <1>10, <1>14 DEF Behind, n
<1> QED BY <1>2, <1>10, <1>11, <1>12, <1>13, <1>15, <1>16

\* r is what is left of the first m projects: the last use of each.
IsLastOf(paths, m, i) == i \in 1..m /\ \A j \in (i + 1)..m : paths[j].file # paths[i].file

At(paths, r, at) == \A x \in DOMAIN r : r[x] = paths[at[x]]

Lists(at, i) == \E x \in DOMAIN at : at[x] = i

LatestFirst(at) == \A x, y \in DOMAIN at : x < y => at[x] > at[y]

AllOlder(at, i) == \A x \in DOMAIN at : at[x] > i

RecentHeld(paths, m, r, at) ==
    /\ IsList(r) /\ Len(r) <= MaxRecent
    /\ at = [x \in DOMAIN r |-> at[x]]
    /\ \A x \in DOMAIN r : IsLastOf(paths, m, at[x])
    /\ At(paths, r, at) /\ LatestFirst(at)
    /\ \A i \in 1..m : IsLastOf(paths, m, i) /\ ~Lists(at, i) => Len(r) = MaxRecent /\ AllOlder(at, i)

\* A set from which one element at most is missing
LEMMA OneMissing ==
    ASSUME NEW n \in Nat, NEW P, P \subseteq 1..n,
           \A x, y \in (1..n) \ P : x = y
    PROVE  Cardinality(P) \in Nat /\ Cardinality(P) <= n /\ n <= Cardinality(P) + 1
<1>1. IsFiniteSet(1..n) /\ Cardinality(1..n) = n
  <2>1. 1 \in Int /\ n \in Int
    OBVIOUS
  <2>2. IsFiniteSet(1..n) /\ Cardinality(1..n) = IF 1 > n THEN 0 ELSE n - 1 + 1
    BY <2>1, FS_Interval
  <2> QED BY <2>2
<1>2. Cardinality(P) \in Nat /\ Cardinality(P) <= n
  BY PlacesOf
<1>3. CASE P = 1..n
  BY <1>1, <1>3
<1>4. CASE P # 1..n
  <2>1. PICK x \in 1..n : x \notin P
    BY <1>4
  <2>2. P = (1..n) \ {x}
    BY <2>1
  <2>3. Cardinality((1..n) \ {x}) = Cardinality(1..n) - 1
    BY <1>1, FS_RemoveElement
  <2> QED BY <1>1, <2>2, <2>3
<1> QED BY <1>2, <1>3, <1>4

LEMMA RecentsGrow ==
    ASSUME NEW paths, NEW m \in Nat, NEW r, NEW at, RecentHeld(paths, m, r, at),
           NEW after, after = AddRecent(r, paths[m + 1])
    PROVE  \E new : RecentHeld(paths, m + 1, after, new)
<1>1. PICK path, P, k, n : /\ path = paths[m + 1]
                           /\ P = {x \in DOMAIN r : r[x].file # path.file}
                           /\ k = Cardinality(P)
                           /\ n = Len(after)
  OBVIOUS
<1>2. /\ IsList(r) /\ Len(r) <= MaxRecent /\ Len(r) \in Nat /\ DOMAIN r = 1..Len(r)
      /\ DOMAIN at = DOMAIN r
      /\ \A x \in DOMAIN r : IsLastOf(paths, m, at[x]) /\ r[x] = paths[at[x]]
      /\ LatestFirst(at)
      /\ \A i \in 1..m : IsLastOf(paths, m, i) /\ ~Lists(at, i) => Len(r) = MaxRecent /\ AllOlder(at, i)
  BY LenProperties DEF RecentHeld, At, IsList
<1>3. /\ P \in Places /\ k \in Nat /\ IsList(after)
      /\ n = (IF k < MaxRecent THEN k + 1 ELSE MaxRecent)
      /\ DOMAIN after = 1..n
      /\ after[1] = path
      /\ \A x \in 1..n : x > 1 => \E y \in P : Upto(P, y) = x - 1 /\ after[x] = r[y]
  <2>1. after = AddRecent(r, path)
    BY <1>1
  <2>2. IsList(r) /\ P = {x \in DOMAIN r : r[x].file # path.file} /\ k = Cardinality(P)
    BY <1>1, <1>2
  <2>3. /\ P \in Places /\ k \in Nat
        /\ IsList(after) /\ Len(after) = (IF k < MaxRecent THEN k + 1 ELSE MaxRecent)
        /\ DOMAIN after = 1..Len(after)
        /\ after[1] = path
        /\ Behind(after, r, P)
    BY ONLY <2>1, <2>2, RecentAdded
  <2>4. n = Len(after)
    BY <1>1
  <2> QED BY ONLY <2>3, <2>4 DEF Behind
<1>4. P \subseteq DOMAIN r /\ \A y \in DOMAIN r : y \in P <=> r[y].file # path.file
  BY <1>1
<1>5. \A y \in DOMAIN r : at[y] \in 1..m
  BY <1>2 DEF IsLastOf
<1>6. MaxRecent \in Nat /\ MaxRecent > 0
  BY FileAssumption
<1>7. n \in Nat /\ n >= 1 /\ n <= MaxRecent /\ n <= k + 1 /\ (n < MaxRecent => n = k + 1)
  BY <1>3, <1>6
<1> DEFINE Was(x) == CHOOSE y \in P : Upto(P, y) = x - 1 /\ after[x] = r[y]
           new == [x \in 1..n |-> IF x = 1 THEN m + 1 ELSE at[Was(x)]]
<1>8. \A x \in 1..n : x > 1 => Was(x) \in P /\ Upto(P, Was(x)) = x - 1 /\ after[x] = r[Was(x)]
  BY <1>3
<1>9. DOMAIN new = 1..n /\ new[1] = m + 1 /\ \A x \in 1..n : x > 1 => new[x] = at[Was(x)]
  BY <1>7
<1> HIDE DEF Was, new
\* Last uses of what is kept, and the new one
<1>10. ASSUME NEW i \in 1..m, IsLastOf(paths, m, i), paths[i].file # path.file
       PROVE  IsLastOf(paths, m + 1, i)
  <2>1. \A j \in (i + 1)..(m + 1) : j = m + 1 \/ j \in (i + 1)..m
    OBVIOUS
  <2> QED BY <1>1, <1>10, <2>1 DEF IsLastOf
<1>11. IsLastOf(paths, m + 1, m + 1)
  BY DEF IsLastOf
<1>12. ASSUME NEW x \in 1..n
       PROVE  IsLastOf(paths, m + 1, new[x]) /\ after[x] = paths[new[x]]
  <2>1. CASE x = 1
    BY <1>1, <1>3, <1>9, <1>11, <2>1
  <2>2. CASE x # 1
    <3>1. PICK y \in P : y = Was(x) /\ after[x] = r[y] /\ new[x] = at[y]
      BY <1>8, <1>9, <2>2
    <3>2. y \in DOMAIN r /\ IsLastOf(paths, m, at[y]) /\ r[y] = paths[at[y]] /\ at[y] \in 1..m
      BY <1>2, <1>4, <1>5
    <3>3. paths[at[y]].file # path.file
      BY <1>4, <3>2
    <3> QED BY <1>10, <3>1, <3>2, <3>3
  <2> QED BY <2>1, <2>2
<1>13. ASSUME NEW y \in P, NEW z \in P, Upto(P, y) < Upto(P, z)
       PROVE  at[y] > at[z]
  <2>1. y \in Nat /\ z \in Nat /\ y \in DOMAIN at /\ z \in DOMAIN at
    BY <1>2, <1>4
  <2>2. Upto(P, y) \in Nat /\ Upto(P, z) \in Nat
    BY <1>3, UptoProps
  <2>3. ~(z < y) /\ z # y
    <3>1. z < y => Upto(P, z) < Upto(P, y)
      BY <1>3, UptoProps
    <3>2. z = y => Upto(P, z) = Upto(P, y)
      OBVIOUS
    <3> QED BY <1>13, <2>2, <3>1, <3>2
  <2> QED BY <1>2, <2>1, <2>3 DEF LatestFirst
<1>14. ASSUME NEW x \in 1..n, NEW y \in 1..n, x < y
       PROVE  new[x] > new[y]
  <2>1. y > 1 /\ y - 1 \in Nat
    BY <1>7, <1>14
  <2>2. Was(y) \in P /\ Upto(P, Was(y)) = y - 1 /\ new[y] = at[Was(y)] /\ at[Was(y)] \in 1..m
    BY <1>4, <1>5, <1>8, <1>9, <2>1
  <2>3. CASE x = 1
    BY <1>9, <2>2, <2>3
  <2>4. CASE x # 1
    <3>1. Was(x) \in P /\ Upto(P, Was(x)) = x - 1 /\ new[x] = at[Was(x)]
      BY <1>8, <1>9, <2>4
    <3>2. x - 1 < y - 1
      BY <1>7, <1>14
    <3> QED BY <1>13, <2>2, <3>1, <3>2
  <2> QED BY <2>3, <2>4
\* One element at most has the file of the new one.
<1>15. Len(r) <= k + 1
  <2>1. ASSUME NEW x \in 1..Len(r), NEW y \in 1..Len(r), x \notin P, y \notin P, x < y
        PROVE  FALSE
    <3>1. r[x].file = path.file /\ r[y].file = path.file /\ x \in DOMAIN r /\ y \in DOMAIN r
      BY <1>2, <1>4, <2>1
    <3>2. at[x] > at[y] /\ at[x] \in 1..m /\ at[y] \in 1..m
      BY <1>2, <1>5, <2>1, <3>1 DEF LatestFirst
    <3>3. at[x] \in (at[y] + 1)..m
      BY <3>2
    <3>4. paths[at[x]].file # paths[at[y]].file
      BY <1>2, <3>1, <3>3 DEF IsLastOf
    <3> QED BY <1>2, <3>1, <3>4
  <2>2. ASSUME NEW x \in (1..Len(r)) \ P, NEW y \in (1..Len(r)) \ P PROVE x = y
    <3>1. ~(x < y) /\ ~(y < x)
      BY <2>1
    <3> QED BY <3>1, <1>2
  <2>3. P \subseteq 1..Len(r)
    BY <1>2, <1>4
  <2> QED BY <1>1, <1>2, <2>2, <2>3, OneMissing
<1>16. ASSUME NEW i \in 1..(m + 1), IsLastOf(paths, m + 1, i), ~Lists(new, i)
       PROVE  n = MaxRecent /\ AllOlder(new, i)
  <2>1. i # m + 1 /\ i \in 1..m
    BY <1>7, <1>9, <1>16 DEF Lists
  <2>2. IsLastOf(paths, m, i) /\ paths[i].file # path.file
    <3>1. \A j \in (i + 1)..m : j \in (i + 1)..(m + 1)
      OBVIOUS
    <3>2. m + 1 \in (i + 1)..(m + 1)
      BY <2>1
    <3> QED BY <1>1, <1>16, <2>1, <3>1, <3>2 DEF IsLastOf
  <2>3. CASE ~Lists(at, i)
    <3>1. Len(r) = MaxRecent /\ AllOlder(at, i)
      BY <1>2, <2>1, <2>2, <2>3
    <3>2. n = MaxRecent
      BY <1>3, <1>6, <1>7, <1>15, <3>1
    <3>3. ASSUME NEW x \in 1..n PROVE new[x] > i
      <4>1. CASE x = 1
        BY <1>9, <2>1, <4>1
      <4>2. CASE x # 1
        <5>1. Was(x) \in DOMAIN at /\ new[x] = at[Was(x)]
          BY <1>2, <1>4, <1>8, <1>9, <4>2
        <5> QED BY <3>1, <5>1 DEF AllOlder
      <4> QED BY <4>1, <4>2
    <3> QED BY <1>9, <3>2, <3>3 DEF AllOlder
  <2>4. CASE Lists(at, i)
    <3>1. PICK y \in DOMAIN r : at[y] = i
      BY <1>2, <2>4 DEF Lists
    <3>2. y \in P
      BY <1>2, <1>4, <2>2, <3>1
    <3>3. PICK u \in 1..k : u = Upto(P, y)
      BY <1>1, <1>3, <3>2, UptoProps
    <3>4. u + 1 > n
      <4>1. SUFFICES ASSUME u + 1 <= n PROVE FALSE
        BY <1>7
      <4>2. u + 1 \in 1..n /\ u + 1 > 1 /\ (u + 1) - 1 = u
        BY <4>1
      <4>3. Was(u + 1) \in P /\ Upto(P, Was(u + 1)) = u /\ new[u + 1] = at[Was(u + 1)]
        BY <1>8, <1>9, <4>2
      <4>4. u \in 1..Cardinality(P)
        BY <1>1
      <4>5. Was(u + 1) = y
        BY <1>3, <3>2, <3>3, <4>3, <4>4, UptoOnto
      <4> QED BY <1>9, <1>16, <3>1, <4>2, <4>3, <4>5 DEF Lists
    <3>5. n = MaxRecent /\ u \in Nat
      <4>1. u \in Nat /\ u <= k
        <5>1. k \in Nat
          BY <1>3
        <5> QED BY ONLY <3>3, <5>1
      <4> QED BY ONLY <1>3, <1>6, <1>7, <3>4, <4>1
    <3>6. ASSUME NEW x \in 1..n PROVE new[x] > i
      <4>1. CASE x = 1
        BY <1>9, <2>1, <4>1
      <4>2. CASE x # 1
        <5>1. Was(x) \in P /\ Upto(P, Was(x)) = x - 1 /\ new[x] = at[Was(x)]
          BY <1>8, <1>9, <4>2
        <5>2. x - 1 < u
          BY ONLY x \in 1..n, <1>7, <3>4, <3>5
        <5> QED BY <1>13, <3>1, <3>2, <3>3, <5>1, <5>2
      <4> QED BY <4>1, <4>2
    <3> QED BY <1>9, <3>5, <3>6 DEF AllOlder
  <2> QED BY <2>3, <2>4
<1>17. new = [x \in DOMAIN after |-> new[x]]
  BY <1>3 DEF new
<1>18. LatestFirst(new) /\ At(paths, after, new)
  BY <1>3, <1>9, <1>12, <1>14 DEF LatestFirst, At
<1>19. RecentHeld(paths, m + 1, after, new)
  BY <1>1, <1>3, <1>7, <1>12, <1>16, <1>17, <1>18 DEF RecentHeld
<1> QED BY <1>19

\* What is recent is the last use of each project, the latest first.
LEMMA RecentsHeld ==
    ASSUME NEW paths, IsList(paths)
    PROVE  \E at : RecentHeld(paths, Len(paths), RecentsAfter(paths), at)
<1>1. Len(paths) \in Nat
  BY LenProperties DEF IsList
<1>2. PICK count : count = Len(paths) /\ count \in Nat
  BY <1>1
<1> DEFINE g == CHOOSE g : RecentReads(paths, count, g)
<1>3. RecentReads(paths, count, g)
  BY <1>2, RecentReadsExist
<1>4. RecentsAfter(paths) = g[count]
  BY <1>2 DEF RecentsAfter, RecentReads
<1> HIDE DEF g
<1>5. /\ g[0] = <<>>
      /\ \A m \in Nat : m + 1 <= count => g[m + 1] = AddRecent(g[m], paths[m + 1])
  <2>1. g[0] = <<>>
    BY <1>2, <1>3 DEF RecentReads
  <2>2. ASSUME NEW m \in Nat, m + 1 <= count PROVE g[m + 1] = AddRecent(g[m], paths[m + 1])
    <3>1. m + 1 \in 0..count /\ m + 1 # 0 /\ (m + 1) - 1 = m
      BY <1>2, <2>2
    <3>2. g[m + 1] = IF m + 1 = 0 THEN <<>> ELSE AddRecent(g[(m + 1) - 1], paths[m + 1])
      BY <1>3, <3>1 DEF RecentReads
    <3> QED BY <3>1, <3>2
  <2> QED BY <2>1, <2>2
<1> DEFINE S == {m \in Nat : m <= count => \E at : RecentHeld(paths, m, g[m], at)}
<1>6. 0 \in S
  <2>1. PICK r : r = g[0] /\ r = <<>>
    BY <1>5
  <2>2. DOMAIN r = {} /\ Len(r) = 0 /\ DOMAIN r = 1..0 /\ r = [i \in 1..0 |-> r[i]]
    BY <2>1
  <2>3. IsList(r)
    BY ONLY <2>2, 0 \in Nat, ListIs
  <2>4. RecentHeld(paths, 0, r, <<>>)
    BY <2>1, <2>2, <2>3, FileAssumption DEF RecentHeld, At, LatestFirst
  <2> QED BY <2>1, <2>4
<1>7. ASSUME NEW m \in S PROVE m + 1 \in S
  <2>1. SUFFICES ASSUME m + 1 <= count PROVE \E at : RecentHeld(paths, m + 1, g[m + 1], at)
    OBVIOUS
  <2>2. PICK at : RecentHeld(paths, m, g[m], at)
    BY <1>2, <2>1
  <2>3. g[m + 1] = AddRecent(g[m], paths[m + 1])
    BY <1>5, <2>1
  <2> QED BY <2>2, <2>3, RecentsGrow
<1>8. S \subseteq Nat
  OBVIOUS
<1> HIDE DEF S
<1>9. S = Nat
  BY <1>6, <1>7, <1>8, ByInduction
<1>10. count \in S
  BY <1>2, <1>9
<1> QED BY <1>2, <1>4, <1>10 DEF S

LEMMA RecentTaskStep ==
    ASSUME TypedTask(task), UseProjects
    PROVE  RecentsAreLatest'
<1>1. task.kind = "recent" /\ task' = task /\ result' = <<RecentsAfter(task.paths)>>
  BY DEF UseProjects, Makes
<1>2. PICK paths, r : paths = task.paths /\ r = RecentsAfter(paths)
  OBVIOUS
<1>3. IsList(paths)
  BY <1>1, <1>2 DEF TypedTask
<1>4. It' = r /\ task'.paths = paths
  BY <1>1, <1>2 DEF It
<1>5. PICK at : RecentHeld(paths, Len(paths), r, at)
  BY <1>2, <1>3, RecentsHeld
<1>6. Len(paths) \in Nat /\ DOMAIN paths = 1..Len(paths)
  BY <1>3, LenProperties DEF IsList
<1>7. \A i : i \in LastUse(paths) <=> IsLastOf(paths, Len(paths), i)
  BY <1>6 DEF LastUse, IsLastOf
<1>8. /\ Len(r) <= MaxRecent /\ DOMAIN at = DOMAIN r
      /\ at \in [DOMAIN r -> LastUse(paths)]
  BY <1>5, <1>7 DEF RecentHeld
<1>9. \A i \in DOMAIN r : r[i] = paths[at[i]]
  BY <1>5 DEF RecentHeld, At
<1>10. \A i, j \in DOMAIN r : i < j => at[i] > at[j]
  BY <1>5, <1>8 DEF RecentHeld, LatestFirst
<1>11. ASSUME NEW u \in LastUse(paths) \ {at[i] : i \in DOMAIN r}
       PROVE  Len(r) = MaxRecent /\ \A i \in DOMAIN r : at[i] > u
  <2>1. u \in 1..Len(paths) /\ IsLastOf(paths, Len(paths), u)
    BY <1>7 DEF IsLastOf
  <2>2. ~Lists(at, u)
    BY <1>8, <1>11 DEF Lists
  <2>3. Len(r) = MaxRecent /\ AllOlder(at, u)
    BY <1>5, <2>1, <2>2 DEF RecentHeld
  <2> QED BY <1>8, <2>3 DEF AllOlder
<1> QED BY <1>4, <1>8, <1>9, <1>10, <1>11 DEF RecentsAreLatest

-----------------------------------------------------------------------------
(* Paths: what is taken apart at the folder is put together again. *)

\* How far two lists agree
Agree(s, t, m) == m <= Len(s) /\ m <= Len(t) /\ \A i \in 1..m : s[i] = t[i]

LEMMA StartOf ==
    ASSUME NEW s, IsList(s), NEW m \in Nat, m <= Len(s)
    PROVE  /\ IsList(SubSeq(s, 1, m)) /\ Len(SubSeq(s, 1, m)) = m
           /\ \A i \in 1..m : SubSeq(s, 1, m)[i] = s[i]
<1>1. s \in Seq(ToSet(s)) /\ Len(s) \in Nat
  BY LenProperties DEF IsList
<1>2. PICK T, a : T = ToSet(s) /\ a = SubSeq(s, 1, m)
  OBVIOUS
<1>3. a \in Seq(T) /\ Len(a) = m /\ \A i \in 1..m : a[i] = s[i]
  BY <1>1, <1>2
<1>4. DOMAIN a = 1..m /\ a = [i \in 1..m |-> a[i]]
  BY <1>3, LenProperties
<1> QED BY <1>2, <1>3, <1>4, ListIs

\* A start of both lists, and what makes it one
LEMMA PrefixAgrees ==
    ASSUME NEW s, IsList(s), NEW t, IsList(t), NEW m \in Nat, m <= Len(s)
    PROVE  IsPrefix(SubSeq(s, 1, m), t) <=> Agree(s, t, m)
<1>1. PICK a : a = SubSeq(s, 1, m)
  OBVIOUS
<1>2. IsList(a) /\ Len(a) = m /\ \A i \in 1..m : a[i] = s[i]
  BY <1>1, StartOf
<1>3. Len(t) \in Nat /\ Len(s) \in Nat
  BY LenProperties DEF IsList
<1>4. PICK b : b = SubSeq(a, 1, Len(a))
  OBVIOUS
<1>5. IsList(b) /\ Len(b) = m /\ \A i \in 1..m : b[i] = s[i]
  BY <1>2, <1>4, StartOf
<1>6. CASE m <= Len(t)
  <2>1. PICK c : c = SubSeq(t, 1, m)
    OBVIOUS
  <2>2. IsList(c) /\ Len(c) = m /\ \A i \in 1..m : c[i] = t[i]
    BY <1>6, <2>1, StartOf
  <2>3. b = [i \in 1..m |-> b[i]] /\ c = [i \in 1..m |-> c[i]]
    BY <1>5, <2>2, LenProperties DEF IsList
  <2>4. b = c <=> \A i \in 1..m : s[i] = t[i]
    <3>1. ASSUME b = c PROVE \A i \in 1..m : s[i] = t[i]
      BY <1>5, <2>2, <3>1
    <3>2. ASSUME \A i \in 1..m : s[i] = t[i] PROVE b = c
      <4>1. \A i \in 1..m : b[i] = c[i]
        BY <1>5, <2>2, <3>2
      <4> QED BY <2>3, <4>1
    <3> QED BY <3>1, <3>2
  <2> QED BY <1>1, <1>2, <1>4, <1>6, <2>1, <2>4 DEF IsPrefix, Agree
<1>7. CASE ~(m <= Len(t))
  BY <1>1, <1>2, <1>7 DEF IsPrefix, Agree
<1> QED BY <1>6, <1>7

\* The common part of two lists is the longest start they agree on.
LEMMA CommonIs ==
    ASSUME NEW s, IsList(s), NEW t, IsList(t)
    PROVE  /\ Common(s, t) \in Nat /\ Agree(s, t, Common(s, t))
           /\ \A m \in Nat : Agree(s, t, m) => m <= Common(s, t)
<1> DEFINE C == CommonPrefixes({s, t})
           U == UNION {Prefixes(seq) : seq \in {s, t}}
           longest == CHOOSE l \in C : \A other \in C : Len(other) <= Len(l)
<1>1. Len(s) \in Nat /\ Len(t) \in Nat
  BY LenProperties DEF IsList
<1>2. C = {p \in U : \A q \in {s, t} : IsPrefix(p, q)}
  BY DEF CommonPrefixes
<1>3. \A p : p \in U <=> p \in Prefixes(s) \/ p \in Prefixes(t)
  OBVIOUS
<1> HIDE DEF U, C
<1>4. ASSUME NEW p \in C
      PROVE  Len(p) \in Nat /\ Agree(s, t, Len(p))
  <2>1. IsPrefix(p, s) /\ IsPrefix(p, t)
    BY <1>2
  <2>2. CASE p \in Prefixes(s)
    <3>1. PICK m \in 0..Len(s) : p = SubSeq(s, 1, m)
      BY <2>2 DEF Prefixes
    <3>2. Len(p) = m /\ m \in Nat /\ m <= Len(s)
      BY <1>1, <3>1, StartOf
    <3> QED BY <2>1, <3>1, <3>2, PrefixAgrees
  <2>3. CASE p \in Prefixes(t)
    <3>1. PICK m \in 0..Len(t) : p = SubSeq(t, 1, m)
      BY <2>3 DEF Prefixes
    <3>2. Len(p) = m /\ m \in Nat /\ m <= Len(t)
      BY <1>1, <3>1, StartOf
    <3>3. Agree(t, s, m)
      BY <2>1, <3>1, <3>2, PrefixAgrees
    <3> QED BY <3>2, <3>3 DEF Agree
  <2> QED BY <1>2, <1>3, <2>2, <2>3
<1>5. ASSUME NEW m \in Nat, Agree(s, t, m)
      PROVE  SubSeq(s, 1, m) \in C /\ Len(SubSeq(s, 1, m)) = m
  <2>1. m <= Len(s) /\ m \in 0..Len(s)
    BY <1>1, <1>5 DEF Agree
  <2>2. SubSeq(s, 1, m) \in Prefixes(s)
    BY <2>1 DEF Prefixes
  <2>3. Agree(s, s, m)
    BY <1>1, <2>1 DEF Agree
  <2>4. IsPrefix(SubSeq(s, 1, m), s) /\ IsPrefix(SubSeq(s, 1, m), t)
    BY <1>5, <2>1, <2>3, PrefixAgrees
  <2> QED BY <1>2, <1>3, <2>1, <2>2, <2>4, StartOf
<1>6. \E l \in C : \A other \in C : Len(other) <= Len(l)
  <2> DEFINE Short == {k \in Nat : \A p \in C : Len(p) <= k}
  <2>1. Len(s) \in Short
    BY <1>1, <1>4 DEF Agree
  <2>2. PICK k \in Short : \A j \in Short : k <= j
    <3>1. Short \in SUBSET Nat /\ Short # {}
      BY <2>1
    <3> HIDE DEF Short
    <3> QED BY <3>1, LeastNat
  <2>3. \E p \in C : Len(p) = k
    <3>1. SUFFICES ASSUME \A p \in C : Len(p) # k PROVE FALSE
      OBVIOUS
    <3>2. Agree(s, t, 0)
      BY <1>1 DEF Agree
    <3>3. PICK z \in C : Len(z) = 0
      BY <1>5, <3>2
    <3>4. k \in Nat /\ k > 0 /\ k - 1 \in Nat
      BY <3>1, <3>3
    <3>5. k - 1 \in Short
      <4>1. ASSUME NEW p \in C PROVE Len(p) <= k - 1
        BY <1>4, <3>1, <3>4
      <4> QED BY <3>4, <4>1
    <3> HIDE DEF Short
    <3> QED BY <2>2, <3>4, <3>5
  <2>4. \A p \in C : Len(p) <= k
    OBVIOUS
  <2> QED BY <2>3, <2>4
<1>7. longest \in C /\ \A other \in C : Len(other) <= Len(longest)
  BY <1>6
<1>8. Common(s, t) = Len(longest)
  BY DEF Common, LongestCommonPrefix, C
<1> HIDE DEF longest
<1>9. ASSUME NEW m \in Nat, Agree(s, t, m) PROVE m <= Common(s, t)
  BY <1>5, <1>7, <1>8, <1>9
<1> QED BY <1>4, <1>7, <1>8, <1>9

\* One list behind another
JoinedAt(u, s, t) == \A i \in 1..Len(u) : u[i] = IF i <= Len(s) THEN s[i] ELSE t[i - Len(s)]

LEMMA Joined ==
    ASSUME NEW s, IsList(s), NEW t, IsList(t), NEW u, u = s \o t
    PROVE  /\ IsList(u) /\ Len(u) = Len(s) + Len(t) /\ Len(s) \in Nat /\ Len(t) \in Nat
           /\ JoinedAt(u, s, t)
<1>1. PICK S, T : S = ToSet(s) /\ T = ToSet(s) \cup ToSet(t)
  OBVIOUS
<1>2. Len(s) \in Nat /\ Len(t) \in Nat /\ DOMAIN s = 1..Len(s) /\ DOMAIN t = 1..Len(t)
  BY LenProperties DEF IsList
<1>3. s \in Seq(T)
  <2>1. \A i \in 1..Len(s) : s[i] \in T
    BY <1>1, <1>2 DEF ToSet
  <2>2. s = [i \in 1..Len(s) |-> s[i]]
    BY <1>2, LenProperties DEF IsList
  <2> QED BY <1>2, <2>1, <2>2, SeqDef
<1>4. t \in Seq(T)
  <2>1. \A i \in 1..Len(t) : t[i] \in T
    BY <1>1, <1>2 DEF ToSet
  <2>2. t = [i \in 1..Len(t) |-> t[i]]
    BY <1>2, LenProperties DEF IsList
  <2> QED BY <1>2, <2>1, <2>2, SeqDef
<1>5. /\ u \in Seq(T) /\ Len(u) = Len(s) + Len(t)
      /\ \A i \in 1..Len(u) : u[i] = IF i <= Len(s) THEN s[i] ELSE t[i - Len(s)]
  <2>1. /\ s \o t \in Seq(T) /\ Len(s \o t) = Len(s) + Len(t)
        /\ \A i \in 1..(Len(s) + Len(t)) : (s \o t)[i] = IF i <= Len(s) THEN s[i] ELSE t[i - Len(s)]
    BY ONLY <1>3, <1>4, ConcatProperties
  <2> QED BY <2>1
<1>6. IsList(u)
  <2>1. Len(u) \in Nat /\ u = [i \in 1..Len(u) |-> u[i]]
    BY <1>5, LenProperties
  <2> QED BY <2>1, ListIs
<1> QED BY <1>2, <1>5, <1>6 DEF JoinedAt

LEMMA RestOf ==
    ASSUME NEW s, IsList(s), NEW m \in Nat, m <= Len(s)
    PROVE  /\ IsList(SubSeq(s, m + 1, Len(s))) /\ Len(SubSeq(s, m + 1, Len(s))) = Len(s) - m
           /\ \A i \in 1..(Len(s) - m) : SubSeq(s, m + 1, Len(s))[i] = s[m + i]
<1>1. s \in Seq(ToSet(s)) /\ Len(s) \in Nat
  BY LenProperties DEF IsList
<1>2. PICK T, a, n : T = ToSet(s) /\ a = SubSeq(s, m + 1, Len(s)) /\ n = Len(s)
  OBVIOUS
<1>3. a \in Seq(T) /\ Len(a) = n - m /\ \A i \in 1..(n - m) : a[i] = s[m + i]
  BY <1>1, <1>2
<1>4. n - m \in Nat /\ DOMAIN a = 1..(n - m) /\ a = [i \in 1..(n - m) |-> a[i]]
  BY <1>1, <1>2, <1>3, LenProperties
<1>5. IsList(a)
  BY <1>4, ListIs
<1> QED BY <1>2, <1>3, <1>5

\* Taken apart and put together again
LEMMA StartAndRest ==
    ASSUME NEW s, IsList(s), NEW t, IsList(t), NEW m \in Nat, Agree(s, t, m)
    PROVE  SubSeq(t, 1, m) \o SubSeq(s, m + 1, Len(s)) = s
<1>1. PICK a, b, u : a = SubSeq(t, 1, m) /\ b = SubSeq(s, m + 1, Len(s)) /\ u = a \o b
  OBVIOUS
<1>2. /\ m <= Len(s) /\ m <= Len(t) /\ Len(s) \in Nat /\ \A i \in 1..m : s[i] = t[i]
  BY LenProperties DEF IsList, Agree
<1>3. IsList(a) /\ Len(a) = m /\ \A i \in 1..m : a[i] = t[i]
  BY <1>1, <1>2, StartOf
<1>4. IsList(b) /\ Len(b) = Len(s) - m /\ \A i \in 1..(Len(s) - m) : b[i] = s[m + i]
  BY <1>1, <1>2, RestOf
<1>5. /\ IsList(u) /\ Len(u) = Len(a) + Len(b)
      /\ \A i \in 1..Len(u) : u[i] = IF i <= Len(a) THEN a[i] ELSE b[i - Len(a)]
  <2>1. u = a \o b
    BY <1>1
  <2>2. IsList(u) /\ Len(u) = Len(a) + Len(b) /\ JoinedAt(u, a, b)
    BY ONLY <1>3, <1>4, <2>1, Joined
  <2> QED BY <2>2 DEF JoinedAt
<1>6. Len(u) = Len(s)
  BY <1>2, <1>3, <1>4, <1>5
<1>7. ASSUME NEW i \in 1..Len(s) PROVE u[i] = s[i]
  <2>1. CASE i <= m
    BY <1>2, <1>3, <1>5, <1>6, <2>1
  <2>2. CASE ~(i <= m)
    <3>1. i - m \in 1..(Len(s) - m) /\ m + (i - m) = i
      BY <1>2, <2>2
    <3> QED BY <1>3, <1>4, <1>5, <1>6, <2>2, <3>1
  <2> QED BY <2>1, <2>2
<1>8. u = [i \in 1..Len(s) |-> u[i]] /\ s = [i \in 1..Len(s) |-> s[i]]
  BY <1>5, <1>6, LenProperties DEF IsList
<1> QED BY <1>1, <1>7, <1>8

AbsoluteAt(drive, names) == [drive |-> drive, names |-> names]

LEMMA PathKinds ==
    /\ \A p : AbsolutePath(p) => IsAbsolute(p) /\ p # <<>>
    /\ \A p : RelativePath(p) => ~IsAbsolute(p) /\ p # <<>>
    /\ ~IsAbsolute(<<>>)
<1>1. "drive" # "up" /\ "drive" # "names"
  OBVIOUS
<1>2. DOMAIN <<>> = {}
  OBVIOUS
<1> QED BY <1>1, <1>2 DEF AbsolutePath, RelativePath, IsAbsolute

LEMMA AbsoluteMade ==
    ASSUME NEW names, IsList(names), NEW drive
    PROVE  AbsolutePath(AbsoluteAt(drive, names))
<1>1. PICK p : p = AbsoluteAt(drive, names)
  OBVIOUS
<1>2. DOMAIN p = {"drive", "names"} /\ p.names = names /\ p.drive = drive
  BY <1>1 DEF AbsoluteAt
<1>3. p = [drive |-> p.drive, names |-> p.names]
  BY <1>1, <1>2 DEF AbsoluteAt
<1> QED BY <1>1, <1>2, <1>3 DEF AbsolutePath

LEMMA RelativeMade ==
    ASSUME NEW names, IsList(names), NEW up \in Nat, NEW p, p = [up |-> up, names |-> names]
    PROVE  RelativePath(p)
<1>1. DOMAIN p = {"up", "names"} /\ p.names = names /\ p.up = up
  OBVIOUS
<1> QED BY <1>1 DEF RelativePath

\* A path in the file is taken apart where it leaves the folder of the file.
LEMMA RelPathIs ==
    ASSUME NEW path, AbsolutePath(path), NEW base, AbsolutePath(base), path.drive = base.drive,
           NEW n, n = Common(path.names, base.names), NEW rel, rel = RelPath(path, base)
    PROVE  /\ RelativePath(rel)
           /\ rel.up = Len(base.names) - n /\ rel.names = SubSeq(path.names, n + 1, Len(path.names))
<1>1. PICK s, t : s = path.names /\ t = base.names
  OBVIOUS
<1>2. IsList(s) /\ IsList(t) /\ Len(s) \in Nat /\ Len(t) \in Nat
  BY <1>1, LenProperties DEF AbsolutePath, IsList
<1>3. n \in Nat /\ n <= Len(s) /\ n <= Len(t)
  BY <1>1, <1>2, CommonIs DEF Agree
<1>4. PICK rest : rest = SubSeq(s, n + 1, Len(s))
  OBVIOUS
<1>5. IsList(rest)
  BY <1>2, <1>3, <1>4, RestOf
<1>6. rel = [up |-> Len(t) - n, names |-> rest]
  BY <1>1, <1>4 DEF RelPath
<1>7. PICK up \in Nat : up = Len(t) - n
  BY <1>2, <1>3
<1>8. RelativePath(rel)
  BY <1>5, <1>6, <1>7, RelativeMade
<1>9. rel.up = Len(t) - n /\ rel.names = rest
  BY <1>6
<1> QED BY <1>1, <1>4, <1>8, <1>9

LEMMA ResolveIs ==
    ASSUME NEW base, AbsolutePath(base), NEW rel, RelativePath(rel), NEW made, made = Resolve(base, rel)
    PROVE  AbsolutePath(made)
<1>1. PICK t, above : t = base.names /\ above = IF rel.up > Len(t) THEN 0 ELSE Len(t) - rel.up
  OBVIOUS
<1>2. IsList(t) /\ Len(t) \in Nat /\ IsList(rel.names) /\ rel.up \in Nat
  BY <1>1, LenProperties DEF AbsolutePath, RelativePath, IsList
<1>3. above \in Nat /\ above <= Len(t)
  BY <1>1, <1>2
<1>4. PICK a, u, drive : a = SubSeq(t, 1, above) /\ u = a \o rel.names /\ drive = base.drive
  OBVIOUS
<1>5. IsList(a)
  BY <1>2, <1>3, <1>4, StartOf
<1>6. IsList(u)
  BY <1>2, <1>4, <1>5, Joined
<1>7. made = AbsoluteAt(drive, u)
  BY <1>1, <1>4, PathKinds DEF Resolve, AbsoluteAt
<1> QED BY <1>6, <1>7, AbsoluteMade

\* What becomes of a path that is saved in one folder and opened in another
BackPath(path, base, place) ==
    LET kept == PathInFile(path, base)
    IN  IF kept = <<>> THEN <<>> ELSE Resolve(place, kept)

LEMMA NoPathBack ==
    ASSUME NEW base, NEW place
    PROVE  BackPath(<<>>, base, place) = <<>> /\ PathInFile(<<>>, base) = <<>>
  BY DEF BackPath, PathInFile

LEMMA OtherDriveBack ==
    ASSUME NEW path, AbsolutePath(path), NEW base, path.drive # base.drive, NEW place
    PROVE  BackPath(path, base, place) = path
  BY PathKinds DEF BackPath, PathInFile, RelPath, Resolve

\* What is left of a folder so many parents up
Remaining(place, up) ==
    SubSeq(place.names, 1, IF up > Len(place.names) THEN 0 ELSE Len(place.names) - up)

Landing(path, base, place) ==
    LET n == Common(path.names, base.names)
    IN  AbsoluteAt(place.drive,
            Remaining(place, Len(base.names) - n) \o SubSeq(path.names, n + 1, Len(path.names)))

LEMMA SameDriveBack ==
    ASSUME NEW path, AbsolutePath(path), NEW base, AbsolutePath(base), path.drive = base.drive,
           NEW place, AbsolutePath(place)
    PROVE  BackPath(path, base, place) = Landing(path, base, place)
<1>1. PICK rel, n, rest : /\ rel = RelPath(path, base) /\ n = Common(path.names, base.names)
                          /\ rest = SubSeq(path.names, n + 1, Len(path.names))
  OBVIOUS
<1>2. RelativePath(rel) /\ rel.up = Len(base.names) - n /\ rel.names = rest
  BY <1>1, RelPathIs
<1>3. PathInFile(path, base) = rel /\ rel # <<>> /\ ~IsAbsolute(rel)
  BY <1>1, <1>2, PathKinds DEF PathInFile
<1>4. BackPath(path, base, place) = Resolve(place, rel)
  BY <1>3 DEF BackPath
<1>5. Resolve(place, rel) = AbsoluteAt(place.drive, Remaining(place, Len(base.names) - n) \o rest)
  BY <1>2, <1>3 DEF Resolve, AbsoluteAt, Remaining
<1> QED BY <1>1, <1>4, <1>5 DEF Landing

\* In its own folder a project keeps its paths.
LEMMA BackInPlace ==
    ASSUME NEW path, path = <<>> \/ AbsolutePath(path), NEW base, AbsolutePath(base)
    PROVE  BackPath(path, base, base) = path
<1>1. CASE path = <<>>
  BY <1>1, NoPathBack
<1>2. CASE AbsolutePath(path) /\ path.drive # base.drive
  BY <1>2, OtherDriveBack
<1>3. CASE AbsolutePath(path) /\ path.drive = base.drive
  <2>1. PICK s, t, n, rest : /\ s = path.names /\ t = base.names /\ n = Common(s, t)
                             /\ rest = SubSeq(s, n + 1, Len(s))
    OBVIOUS
  <2>2. IsList(s) /\ IsList(t) /\ Len(s) \in Nat /\ Len(t) \in Nat
    BY <1>3, <2>1, LenProperties DEF AbsolutePath, IsList
  <2>3. n \in Nat /\ Agree(s, t, n) /\ n <= Len(t)
    BY <2>1, <2>2, CommonIs DEF Agree
  <2>4. Remaining(base, Len(t) - n) = SubSeq(t, 1, n)
    BY <2>1, <2>2, <2>3 DEF Remaining
  <2>5. BackPath(path, base, base) = AbsoluteAt(base.drive, Remaining(base, Len(t) - n) \o rest)
    <3>1. BackPath(path, base, base) = Landing(path, base, base)
      BY <1>3, SameDriveBack
    <3> QED BY <2>1, <3>1 DEF Landing
  <2>7. SubSeq(t, 1, n) \o rest = s
    BY <2>1, <2>2, <2>3, StartAndRest
  <2>8. AbsoluteAt(base.drive, s) = path
    BY <1>3, <2>1 DEF AbsoluteAt, AbsolutePath
  <2> QED BY <2>4, <2>5, <2>7, <2>8
<1> QED BY <1>1, <1>2, <1>3

\* What is below a folder moves with it.
LEMMA BackBelow ==
    ASSUME NEW path, AbsolutePath(path), NEW base, AbsolutePath(base), NEW place, AbsolutePath(place),
           Below(path, base)
    PROVE  BackPath(path, base, place) =
               AbsoluteAt(place.drive, place.names \o SubSeq(path.names, Len(base.names) + 1, Len(path.names)))
<1>1. PICK s, t, n, rest : /\ s = path.names /\ t = base.names /\ n = Common(s, t)
                           /\ rest = SubSeq(s, n + 1, Len(s))
  OBVIOUS
<1>2. IsList(s) /\ IsList(t) /\ Len(s) \in Nat /\ Len(t) \in Nat
  BY <1>1, LenProperties DEF AbsolutePath, IsList
<1>3. n \in Nat /\ n <= Len(t) /\ \A m \in Nat : Agree(s, t, m) => m <= n
  BY <1>1, <1>2, CommonIs DEF Agree
<1>4. path.drive = base.drive /\ IsPrefix(t, s)
  BY <1>1 DEF Below
<1>5. Agree(s, t, Len(t))
  <2>1. PICK m \in Nat : m = Len(t)
    BY <1>2
  <2>2. PICK a : a = SubSeq(t, 1, m)
    OBVIOUS
  <2>3. IsList(a) /\ Len(a) = m /\ \A i \in 1..m : a[i] = t[i]
    BY <1>2, <2>1, <2>2, StartOf
  <2>4. a = [i \in 1..m |-> a[i]] /\ t = [i \in 1..m |-> t[i]]
    BY <1>2, <2>1, <2>3, LenProperties DEF IsList
  <2>5. a = t
    BY <2>3, <2>4
  <2>6. IsPrefix(a, s) /\ m <= Len(t)
    BY <1>4, <2>1, <2>5
  <2>7. Agree(t, s, m)
    BY <1>2, <2>2, <2>6, PrefixAgrees
  <2> QED BY <2>1, <2>7 DEF Agree
<1>6. n = Len(t)
  BY <1>2, <1>3, <1>5
<1>7. PICK u, m : u = place.names /\ m = Len(u)
  OBVIOUS
<1>8. IsList(u) /\ m \in Nat
  BY <1>7, LenProperties DEF AbsolutePath, IsList
<1>9. Len(t) - n = 0
  BY <1>2, <1>6
<1>10. Remaining(place, 0) = SubSeq(u, 1, m)
  BY <1>7, <1>8 DEF Remaining
<1>11. SubSeq(u, 1, m) = u
  <2>1. PICK a : a = SubSeq(u, 1, m)
    OBVIOUS
  <2>2. IsList(a) /\ Len(a) = m /\ \A i \in 1..m : a[i] = u[i]
    BY <1>7, <1>8, <2>1, StartOf
  <2>3. a = [i \in 1..m |-> a[i]] /\ u = [i \in 1..m |-> u[i]]
    BY <1>7, <1>8, <2>2, LenProperties DEF IsList
  <2> QED BY <2>1, <2>2, <2>3
<1>12. BackPath(path, base, place) = AbsoluteAt(place.drive, Remaining(place, Len(t) - n) \o rest)
  <2>1. BackPath(path, base, place) = Landing(path, base, place)
    BY <1>4, SameDriveBack
  <2> QED BY <1>1, <2>1 DEF Landing
<1>13. Remaining(place, Len(t) - n) = u /\ rest = SubSeq(s, Len(t) + 1, Len(s))
  BY <1>1, <1>6, <1>9, <1>10, <1>11
<1> QED BY <1>1, <1>7, <1>12, <1>13

\* Every path whose place is determined is where it should be.
LEMMA BackWhereItBelongs ==
    ASSUME NEW path, path = <<>> \/ AbsolutePath(path), NEW base, AbsolutePath(base),
           NEW place, AbsolutePath(place), Determined(path, base, place)
    PROVE  BackPath(path, base, place) = MovedAlong(path, base, place)
<1>1. CASE path = <<>> \/ base = place
  BY <1>1, NoPathBack, BackInPlace DEF MovedAlong
<1>2. CASE path # <<>> /\ base # place
  <2>1. AbsolutePath(path) /\ IsAbsolute(path)
    BY <1>2, PathKinds
  <2>2. CASE Below(path, base)
    <3>1. MovedAlong(path, base, place) =
             AbsoluteAt(place.drive, place.names \o SubSeq(path.names, Len(base.names) + 1, Len(path.names)))
      BY <1>2, <2>1, <2>2 DEF MovedAlong, AbsoluteAt
    <3> QED BY <2>1, <2>2, <3>1, BackBelow
  <2>3. CASE ~Below(path, base)
    <3>1. path.drive # base.drive
      BY <1>2, <2>3 DEF Determined
    <3> QED BY <1>2, <2>1, <2>3, <3>1, OtherDriveBack DEF MovedAlong
  <2> QED BY <2>2, <2>3
<1> QED BY <1>1, <1>2

-----------------------------------------------------------------------------
(* Files: what is written is read again. *)

\* An entry and a device as they are in the file, and as they come back
RowInFile(row, base) == [t |-> "object", path |-> PathInFile(row.path, base), address |-> row.address]

RowsInFile(rows, base) == [i \in DOMAIN rows |-> RowInFile(rows[i], base)]

DeviceInFile(device, base) ==
    [t |-> "object",
     id |-> device.id,
     tags |-> List(device.tags),
     security |-> [t |-> "object", value |-> device.security],
     firmware |-> List(RowsInFile(device.firmware, base))]

RowBack(row, base, place) == [path |-> BackPath(row.path, base, place), address |-> row.address]

RowsBack(rows, base, place) == [i \in DOMAIN rows |-> RowBack(rows[i], base, place)]

DeviceBack(device, base, place) ==
    [id |-> device.id, tags |-> device.tags, security |-> device.security,
     firmware |-> RowsBack(device.firmware, base, place)]

LEMMA RowFields ==
    ASSUME NEW row, NEW base
    PROVE  /\ RowInFile(row, base).t = "object"
           /\ RowInFile(row, base).path = PathInFile(row.path, base)
           /\ RowInFile(row, base).address = row.address
  BY DEF RowInFile

Relative(device, base) ==
    [device EXCEPT !.firmware = [i \in DOMAIN @ |-> RelativeEntry(@[i], base)]]

LEMMA RelativeRow ==
    ASSUME NEW row, SavedRow(row), NEW base
    PROVE  EntryDict(RelativeEntry(row, base)) = RowInFile(row, base)
<1>1. PICK p, kept, address : p = row.path /\ kept = PathInFile(p, base) /\ address = row.address
  OBVIOUS
<1>2. row = [path |-> p, address |-> address]
  BY <1>1 DEF SavedRow
<1>3. RelativeEntry(row, base) = [path |-> kept, address |-> address]
  BY <1>1, <1>2 DEF RelativeEntry
<1> QED BY <1>1, <1>3 DEF EntryDict, RowInFile

LEMMA DictIs ==
    ASSUME NEW device, SavedDevice(device), NEW base
    PROVE  DeviceDict(Relative(device, base)) = DeviceInFile(device, base)
<1>1. PICK rows, kept, id, tags, security, is :
         /\ rows = device.firmware /\ id = device.id /\ tags = device.tags /\ security = device.security
         /\ kept = [i \in DOMAIN rows |-> RelativeEntry(rows[i], base)]
         /\ is = Relative(device, base)
  OBVIOUS
<1>2. device = [id |-> id, tags |-> tags, security |-> security, firmware |-> rows]
  BY <1>1 DEF SavedDevice
<1>3. is = [id |-> id, tags |-> tags, security |-> security, firmware |-> kept]
  <2>1. is = [device EXCEPT !.firmware =
                 [i \in DOMAIN device.firmware |-> RelativeEntry(device.firmware[i], base)]]
    BY <1>1 DEF Relative
  <2>2. kept = [i \in DOMAIN device.firmware |-> RelativeEntry(device.firmware[i], base)]
    BY <1>1
  <2>3. is = [device EXCEPT !.firmware = kept]
    BY ONLY <2>1, <2>2
  <2> QED BY ONLY <1>2, <2>3
<1>4. \A i \in DOMAIN rows : SavedRow(rows[i])
  BY <1>1 DEF SavedDevice
<1>5. DOMAIN kept = DOMAIN rows /\ \A i \in DOMAIN rows : EntryDict(kept[i]) = RowInFile(rows[i], base)
  <2>1. DOMAIN kept = DOMAIN rows
    BY <1>1
  <2>2. ASSUME NEW i \in DOMAIN rows PROVE EntryDict(kept[i]) = RowInFile(rows[i], base)
    <3>1. kept[i] = RelativeEntry(rows[i], base)
      BY <1>1
    <3> QED BY <1>4, <3>1, RelativeRow
  <2> QED BY <2>1, <2>2
<1>6. [i \in DOMAIN kept |-> EntryDict(kept[i])] = RowsInFile(rows, base)
  BY <1>5 DEF RowsInFile
<1>7. is.id = id /\ is.tags = tags /\ is.security = security /\ is.firmware = kept
  BY <1>3
<1> QED BY <1>1, <1>6, <1>7 DEF DeviceDict, DeviceInFile

FileOf(items) == [t |-> "object", version |-> AppVersion, devices |-> List(items)]

DevicesInFile(devices, base) == [d \in DOMAIN devices |-> DeviceInFile(devices[d], base)]

LEMMA WrittenIs ==
    ASSUME NEW devices, \A d \in DOMAIN devices : SavedDevice(devices[d]), NEW base
    PROVE  Written([devices |-> devices], base) = FileOf(DevicesInFile(devices, base))
<1>1. PICK kept : kept = Relativize(devices, base)
  OBVIOUS
<1>2. DOMAIN kept = DOMAIN devices /\ \A d \in DOMAIN devices : kept[d] = Relative(devices[d], base)
  BY <1>1 DEF Relativize, Relative
<1>3. \A d \in DOMAIN devices : DeviceDict(kept[d]) = DeviceInFile(devices[d], base)
  BY <1>2, DictIs
<1>4. [d \in DOMAIN kept |-> DeviceDict(kept[d])] = DevicesInFile(devices, base)
  BY <1>2, <1>3 DEF DevicesInFile
<1>5. Written([devices |-> devices], base) =
         [t |-> "object", version |-> AppVersion, devices |-> List([d \in DOMAIN kept |-> DeviceDict(kept[d])])]
  BY <1>1 DEF Written
<1> QED BY <1>4, <1>5 DEF FileOf

\* Whatever is written can be read, and makes the device again.
LEMMA DeviceReads ==
    ASSUME NEW device, SavedDevice(device), NEW base, NEW place, NEW default,
           NEW dict, dict = DeviceInFile(device, base)
    PROVE  DeviceReadable(dict) /\ DeviceOf(dict, place, default) = DeviceBack(device, base, place)
<1>1. PICK items : items = RowsInFile(device.firmware, base)
  OBVIOUS
<1>2. /\ dict.t = "object" /\ dict.id = device.id /\ dict.tags = List(device.tags)
      /\ dict.security = [t |-> "object", value |-> device.security]
      /\ dict.firmware = List(items)
  BY <1>1 DEF DeviceInFile
<1>3. \A l : List(l).t = "list" /\ ItemsOf(List(l)) = l /\ Iterable(List(l))
  BY DEF List, ItemsOf, Iterable
<1>4. /\ DOMAIN items = DOMAIN device.firmware
      /\ \A i \in DOMAIN items : items[i] = RowInFile(device.firmware[i], base)
  BY <1>1 DEF RowsInFile
<1>5. DeviceReadable(dict)
  <2>1. \A i \in DOMAIN items : items[i].t = "object"
    BY <1>4, RowFields
  <2>2. TagsReadable(dict.tags)
    BY <1>2, <1>3 DEF TagsReadable
  <2>3. dict.security.t = "object"
    BY <1>2
  <2>4. ItemsOf(dict.firmware) = items /\ Iterable(dict.firmware)
    BY <1>2, <1>3
  <2> QED BY <1>2, <2>1, <2>2, <2>3, <2>4 DEF DeviceReadable
<1>6. TagsOf(dict.tags) = device.tags
  BY <1>2, <1>3 DEF TagsOf
<1>7. ASSUME NEW i \in DOMAIN items, NEW row, row = items[i]
      PROVE  [path |-> IF row.path = <<>> THEN <<>> ELSE Resolve(place, row.path), address |-> row.address] =
                 RowBack(device.firmware[i], base, place)
  <2>1. row.path = PathInFile(device.firmware[i].path, base) /\ row.address = device.firmware[i].address
    BY <1>4, <1>7, RowFields
  <2> QED BY <2>1 DEF RowBack, BackPath
<1>8. [i \in DOMAIN items |-> LET row == items[i]
                              IN  [path |-> IF row.path = <<>> THEN <<>> ELSE Resolve(place, row.path),
                                   address |-> row.address]] = RowsBack(device.firmware, base, place)
  BY <1>4, <1>7 DEF RowsBack
<1>9. DeviceOf(dict, place, default) =
         [id |-> device.id, tags |-> device.tags, security |-> device.security,
          firmware |-> [i \in DOMAIN items |->
                           LET row == items[i]
                           IN  [path |-> IF row.path = <<>> THEN <<>> ELSE Resolve(place, row.path),
                                address |-> row.address]]]
  <2>1. ItemsOf(dict.firmware) = items
    BY <1>2, <1>3
  <2>2. dict.security.t = "object" /\ dict.security.value = device.security
    BY <1>2
  <2> QED BY <1>2, <1>6, <2>1, <2>2 DEF DeviceOf
<1> QED BY <1>5, <1>8, <1>9 DEF DeviceBack

LEMMA NotNewer == ~Newer(AppVersion, AppVersion)
<1>1. \A i \in 1..Len(AppVersion) : AppVersion[i] \in Nat
  BY FileAssumption, LenProperties, ElementOfSeq
<1>2. Len(AppVersion) \in Nat
  BY FileAssumption, LenProperties
<1> QED BY <1>1, <1>2 DEF Newer

LEMMA FileIsLarge ==
    ASSUME NEW devices, IsList(devices), \A d \in DOMAIN devices : SavedDevice(devices[d]), NEW base
    PROVE  TooLarge(FileOf(DevicesInFile(devices, base))) <=> ~WithinLimits(devices)
<1>1. PICK raw, items : items = DevicesInFile(devices, base) /\ raw = FileOf(items)
  OBVIOUS
<1>2. raw.devices.t = "list" /\ raw.devices.items = items
  BY <1>1 DEF FileOf, List
<1>3. /\ Len(devices) \in Nat /\ DOMAIN devices = 1..Len(devices)
      /\ DOMAIN items = DOMAIN devices /\ \A d \in DOMAIN devices : items[d] = DeviceInFile(devices[d], base)
  BY <1>1, LenProperties DEF IsList, DevicesInFile
<1>4. Len(items) = Len(devices)
  <2>1. items = [d \in 1..Len(devices) |-> items[d]]
    BY <1>1, <1>3 DEF DevicesInFile
  <2> QED BY <1>3, <2>1, ListIs
<1>5. ASSUME NEW d \in DOMAIN devices
      PROVE  /\ items[d].t = "object" /\ items[d].firmware.t = "list"
             /\ Len(items[d].firmware.items) = Len(devices[d].firmware) /\ Len(devices[d].firmware) \in Nat
  <2>1. PICK rows, kept : rows = devices[d].firmware /\ kept = RowsInFile(rows, base)
    OBVIOUS
  <2>2. items[d].t = "object" /\ items[d].firmware = List(kept)
    BY <1>3, <2>1 DEF DeviceInFile
  <2>3. IsList(rows) /\ Len(rows) \in Nat /\ DOMAIN rows = 1..Len(rows)
    BY <2>1, LenProperties DEF SavedDevice, IsList
  <2>4. kept = [i \in 1..Len(rows) |-> kept[i]]
    BY <2>1, <2>3 DEF RowsInFile
  <2>5. Len(kept) = Len(rows)
    BY <2>3, <2>4, ListIs
  <2> QED BY <2>1, <2>2, <2>3, <2>5 DEF List
<1>6. MaxDevices \in Nat /\ MaxEntries \in Nat
  BY FileAssumption
<1>7. TooLarge(raw) <=> ~WithinLimits(devices)
  <2>1. Len(items) > MaxDevices <=> ~(Len(devices) <= MaxDevices)
    BY <1>3, <1>4, <1>6
  <2>2. (\E i \in DOMAIN items : /\ items[i].t = "object" /\ items[i].firmware.t = "list"
                                 /\ Len(items[i].firmware.items) > MaxEntries)
           <=> ~(\A d \in DOMAIN devices : Len(devices[d].firmware) <= MaxEntries)
    BY <1>3, <1>5, <1>6
  <2> QED BY <1>2, <2>1, <2>2 DEF TooLarge, WithinLimits
<1> QED BY <1>1, <1>7

DevicesBack(devices, base, place) == [d \in DOMAIN devices |-> DeviceBack(devices[d], base, place)]

Opened(devices) == [ok |-> TRUE, warned |-> FALSE, devices |-> devices]

\* What is saved within the limits opens again, device by device.
Opens(devices, base) == WithinLimits(devices) /\ Fits(devices, base)

LEMMA LoadsWritten ==
    ASSUME NEW devices, IsList(devices), \A d \in DOMAIN devices : SavedDevice(devices[d]),
           NEW base, NEW place, NEW default,
           NEW made, made = Load(SavedFile([devices |-> devices], base), place, default)
    PROVE  /\ Opens(devices, base) => made = Opened(DevicesBack(devices, base, place))
           /\ ~Opens(devices, base) => made = Failure
<1>1. PICK raw, items : items = DevicesInFile(devices, base) /\ raw = FileOf(items)
  OBVIOUS
<1>0. raw = Written([devices |-> devices], base)
  BY <1>1, WrittenIs
<1>2. /\ Encodable(raw) => made = Load(raw, place, default)
      /\ ~Encodable(raw) => made = Load([t |-> "nothing"], place, default)
  BY <1>0 DEF SavedFile
<1>10. Fits(devices, base) <=> Encodable(raw) /\ ~(Bytes(raw) > MaxFileSize)
  BY <1>0 DEF Fits
<1>3. TooLarge(raw) <=> ~WithinLimits(devices)
  BY <1>1, FileIsLarge
<1>4. /\ raw.t = "object" /\ raw.version = AppVersion /\ raw.devices = List(items)
  BY <1>1 DEF FileOf
<1>5. Iterable(raw.devices) /\ ItemsOf(raw.devices) = items
  BY <1>4 DEF List, Iterable, ItemsOf
<1>6. DOMAIN items = DOMAIN devices /\ \A d \in DOMAIN devices : items[d] = DeviceInFile(devices[d], base)
  BY <1>1 DEF DevicesInFile
<1>7. \A d \in DOMAIN devices :
         /\ DeviceReadable(items[d])
         /\ DeviceOf(items[d], place, default) = DeviceBack(devices[d], base, place)
  BY <1>6, DeviceReads
<1>8. CASE Opens(devices, base)
  <2>0. WithinLimits(devices) /\ made = Load(raw, place, default) /\ ~(Bytes(raw) > MaxFileSize)
    BY <1>2, <1>8, <1>10 DEF Opens
  <2>1. made = [ok |-> TRUE, warned |-> Newer(AppVersion, AppVersion),
                devices |-> [i \in DOMAIN items |-> DeviceOf(items[i], place, default)]]
    BY <2>0, <1>3, <1>4, <1>5, <1>6, <1>7 DEF Load
  <2>2. [i \in DOMAIN items |-> DeviceOf(items[i], place, default)] = DevicesBack(devices, base, place)
    BY <1>6, <1>7 DEF DevicesBack
  <2>3. Newer(AppVersion, AppVersion) = FALSE
    BY NotNewer DEF Newer
  <2> QED BY <1>8, <2>1, <2>2, <2>3 DEF Opened, Failure
<1>9. CASE ~Opens(devices, base)
  <2>1. CASE ~Encodable(raw)
    <3>1. [t |-> "nothing"].t # "object"
      OBVIOUS
    <3> QED BY <1>2, <1>9, <2>1, <3>1 DEF Load
  <2>2. CASE Encodable(raw)
    <3>1. TooLarge(raw) \/ Bytes(raw) > MaxFileSize
      BY <1>3, <1>9, <1>10, <2>2 DEF Opens
    <3> QED BY <1>2, <1>9, <2>2, <3>1 DEF Load
  <2> QED BY <2>1, <2>2
<1> QED BY <1>8, <1>9

-----------------------------------------------------------------------------
(* Files: what is read can be written. *)

\* What is read is a device that can be saved, whatever was in the file.
LEMMA RowReads ==
    ASSUME NEW row, row.t = "object", ReadRow(row), NEW base, AbsolutePath(base),
           NEW made, made = [path |-> IF row.path = <<>> THEN <<>> ELSE Resolve(base, row.path),
                             address |-> row.address]
    PROVE  SavedRow(made)
<1>1. made.address = row.address /\ made = [path |-> made.path, address |-> made.address]
  OBVIOUS
<1>2. made.path = IF row.path = <<>> THEN <<>> ELSE Resolve(base, row.path)
  OBVIOUS
<1>3. row.path = <<>> \/ AbsolutePath(row.path) \/ RelativePath(row.path)
  BY DEF ReadRow
<1>4. CASE row.path = <<>>
  BY <1>1, <1>2, <1>4 DEF SavedRow
<1>5. CASE AbsolutePath(row.path)
  BY <1>1, <1>2, <1>5, PathKinds DEF SavedRow, Resolve
<1>6. CASE RelativePath(row.path)
  BY <1>1, <1>2, <1>6, PathKinds, ResolveIs DEF SavedRow
<1> QED BY <1>3, <1>4, <1>5, <1>6

NoRows == <<>>

LEMMA NoRowsIs == IsList(NoRows) /\ Len(NoRows) = 0 /\ DOMAIN NoRows = 1..0
<1>1. NoRows = [i \in 1..0 |-> NoRows[i]] /\ 0 \in Nat
  BY DEF NoRows
<1> QED BY <1>1, ListIs

LEMMA ItemsAre ==
    ASSUME NEW field
    PROVE  /\ field.t = "list" => ItemsOf(field) = field.items
           /\ field.t # "list" => ItemsOf(field) = NoRows
  BY DEF ItemsOf, NoRows

LEMMA DeviceReadIn ==
    ASSUME NEW device, ReadDevice(device), DeviceReadable(device),
           NEW base, AbsolutePath(base), NEW default, NEW made, made = DeviceOf(device, base, default)
    PROVE  /\ SavedDevice(made)
           /\ Len(made.firmware) = Len(ItemsOf(device.firmware))
<1>1. PICK items, rows : /\ items = ItemsOf(device.firmware)
                         /\ rows = [i \in DOMAIN items |->
                                      LET row == items[i]
                                      IN  [path |-> IF row.path = <<>> THEN <<>> ELSE Resolve(base, row.path),
                                           address |-> row.address]]
  OBVIOUS
<1>2. device.t = "object" /\ \A i \in DOMAIN items : items[i].t = "object"
  BY <1>1 DEF DeviceReadable
<1>3. IsList(items) /\ \A i \in DOMAIN items : ReadRow(items[i])
  <2>1. CASE device.firmware.t = "list"
    BY <1>1, <1>2, <2>1, ItemsAre DEF ReadDevice
  <2>2. CASE device.firmware.t # "list"
    BY <1>1, <2>2, ItemsAre, NoRowsIs
  <2> QED BY <2>1, <2>2
<1>4. Len(items) \in Nat /\ DOMAIN items = 1..Len(items)
  BY <1>3, LenProperties DEF IsList
<1>5. ASSUME NEW i \in DOMAIN items PROVE SavedRow(rows[i])
  <2>1. PICK row : row = items[i]
    OBVIOUS
  <2>2. rows[i] = [path |-> IF row.path = <<>> THEN <<>> ELSE Resolve(base, row.path), address |-> row.address]
    BY <1>1, <2>1
  <2> QED BY <1>2, <1>3, <2>1, <2>2, RowReads
<1>6. IsList(rows) /\ Len(rows) = Len(items) /\ DOMAIN rows = DOMAIN items
  <2>1. DOMAIN rows = 1..Len(items) /\ rows = [i \in 1..Len(items) |-> rows[i]]
    BY <1>1, <1>4
  <2> QED BY <1>4, <2>1, ListIs
<1>7. PICK id, tags, security : made = [id |-> id, tags |-> tags, security |-> security, firmware |-> rows]
  BY <1>1 DEF DeviceOf
<1>8. /\ made.firmware = rows
      /\ made = [id |-> made.id, tags |-> made.tags, security |-> made.security, firmware |-> made.firmware]
  BY <1>7
<1> QED BY <1>1, <1>5, <1>6, <1>8 DEF SavedDevice

LEMMA FileReadIn ==
    ASSUME NEW raw, ReadFile(raw), NEW base, AbsolutePath(base), NEW default,
           NEW made, made = Load(raw, base, default), made.ok
    PROVE  /\ IsList(made.devices) /\ \A d \in DOMAIN made.devices : SavedDevice(made.devices[d])
           /\ WithinLimits(made.devices)
<1>1. PICK items, devices : /\ items = ItemsOf(raw.devices)
                            /\ devices = [i \in DOMAIN items |-> DeviceOf(items[i], base, default)]
  OBVIOUS
<1>2. made # Failure
  BY DEF Failure
<1>3. /\ raw.t = "object" /\ ~TooLarge(raw) /\ \A i \in DOMAIN items : DeviceReadable(items[i])
      /\ made = [ok |-> TRUE, warned |-> Newer(raw.version, AppVersion), devices |-> devices]
  BY <1>1, <1>2 DEF Load
<1>4. PICK warned : made = [ok |-> TRUE, warned |-> warned, devices |-> devices]
  BY <1>3
<1>5. made.devices = devices
  BY <1>4
<1>6. IsList(items) /\ \A i \in DOMAIN items : ReadDevice(items[i])
  <2>1. CASE raw.devices.t = "list"
    BY <1>1, <1>3, <2>1, ItemsAre DEF ReadFile
  <2>2. CASE raw.devices.t # "list"
    BY <1>1, <2>2, ItemsAre, NoRowsIs
  <2> QED BY <2>1, <2>2
<1>7. Len(items) \in Nat /\ DOMAIN items = 1..Len(items)
  BY <1>6, LenProperties DEF IsList
<1>8. IsList(devices) /\ Len(devices) = Len(items) /\ DOMAIN devices = DOMAIN items
  <2>1. DOMAIN devices = 1..Len(items) /\ devices = [i \in 1..Len(items) |-> devices[i]]
    BY <1>1, <1>7
  <2> QED BY <1>7, <2>1, ListIs
<1>9. ASSUME NEW d \in DOMAIN devices
      PROVE  /\ SavedDevice(devices[d])
             /\ Len(devices[d].firmware) = Len(ItemsOf(items[d].firmware))
  <2>1. d \in DOMAIN items /\ devices[d] = DeviceOf(items[d], base, default)
    BY <1>1, <1>8
  <2> QED BY <1>3, <1>6, <2>1, DeviceReadIn
<1>10. MaxDevices \in Nat /\ MaxEntries \in Nat
  BY FileAssumption
<1>11. Len(devices) <= MaxDevices
  <2>1. CASE raw.devices.t = "list"
    BY <1>1, <1>3, <1>7, <1>8, <1>10, <2>1, ItemsAre DEF TooLarge
  <2>2. CASE raw.devices.t # "list"
    BY <1>1, <1>8, <1>10, <2>2, ItemsAre, NoRowsIs
  <2> QED BY <2>1, <2>2
<1>12. ASSUME NEW d \in DOMAIN devices PROVE Len(devices[d].firmware) <= MaxEntries
  <2>1. CASE items[d].firmware.t = "list"
    <3>1. raw.devices.t = "list"
      BY <1>1, <1>8, <1>12, ItemsAre, NoRowsIs
    <3>2. items = raw.devices.items /\ d \in DOMAIN items /\ items[d].t = "object"
      BY <1>1, <1>3, <1>8, <3>1, ItemsAre DEF DeviceReadable
    <3>3. ~(Len(items[d].firmware.items) > MaxEntries)
      BY <1>3, <2>1, <3>1, <3>2 DEF TooLarge
    <3>4. Len(devices[d].firmware) = Len(items[d].firmware.items)
      BY <1>9, <2>1, ItemsAre
    <3>5. Len(devices[d].firmware) \in Nat
      BY <1>9, LenProperties DEF SavedDevice, IsList
    <3> QED BY <1>10, <3>3, <3>4, <3>5
  <2>2. CASE items[d].firmware.t # "list"
    BY <1>9, <1>10, <2>2, ItemsAre, NoRowsIs
  <2> QED BY <2>1, <2>2
<1> QED BY <1>5, <1>8, <1>9, <1>11, <1>12 DEF WithinLimits

LEMMA RowBackFields ==
    ASSUME NEW row, NEW base, NEW place
    PROVE  /\ RowBack(row, base, place).path = BackPath(row.path, base, place)
           /\ RowBack(row, base, place).address = row.address
  BY DEF RowBack

\* In its own folder a project comes back as it was.
LEMMA DeviceBackInPlace ==
    ASSUME NEW device, SavedDevice(device), NEW base, AbsolutePath(base)
    PROVE  DeviceBack(device, base, base) = device
<1>1. PICK rows : rows = device.firmware
  OBVIOUS
<1>2. /\ device = [id |-> device.id, tags |-> device.tags, security |-> device.security, firmware |-> rows]
      /\ IsList(rows) /\ \A i \in DOMAIN rows : SavedRow(rows[i])
  BY <1>1 DEF SavedDevice
<1>3. ASSUME NEW i \in DOMAIN rows PROVE RowBack(rows[i], base, base) = rows[i]
  <2>1. PICK row : row = rows[i]
    OBVIOUS
  <2>2. BackPath(row.path, base, base) = row.path /\ row = [path |-> row.path, address |-> row.address]
    BY <1>2, <2>1, BackInPlace DEF SavedRow
  <2> QED BY <2>1, <2>2 DEF RowBack
<1>4. RowsBack(rows, base, base) = rows
  <2>1. rows = [i \in DOMAIN rows |-> rows[i]]
    BY <1>2, LenProperties DEF IsList
  <2>2. RowsBack(rows, base, base) = [i \in DOMAIN rows |-> rows[i]]
    BY <1>3 DEF RowsBack
  <2> QED BY <2>1, <2>2
<1> QED BY <1>1, <1>2, <1>4 DEF DeviceBack

LEMMA DevicesBackInPlace ==
    ASSUME NEW devices, IsList(devices), \A d \in DOMAIN devices : SavedDevice(devices[d]),
           NEW base, AbsolutePath(base)
    PROVE  DevicesBack(devices, base, base) = devices
<1>1. devices = [d \in DOMAIN devices |-> devices[d]]
  BY LenProperties DEF IsList
<1>2. DevicesBack(devices, base, base) = [d \in DOMAIN devices |-> devices[d]]
  BY DeviceBackInPlace DEF DevicesBack
<1> QED BY <1>1, <1>2

LEMMA ProjectTaskStep ==
    ASSUME TypedTask(task), SaveAndOpen
    PROVE  SavedOpensAgain'
<1>1. task.kind = "project" /\ task' = task
  BY DEF SaveAndOpen, Makes
<1>2. PICK devices, base, place, made :
         /\ devices = task.devices /\ base = task.base /\ place = task.place
         /\ made = Load(SavedFile([devices |-> devices], base), place, DefaultSecurity)
  OBVIOUS
<1>3. It' = made /\ task'.devices = devices /\ task'.base = base /\ task'.place = place
  BY <1>1, <1>2 DEF SaveAndOpen, Makes, It
<1>4. /\ AbsolutePath(base) /\ AbsolutePath(place)
      /\ IsList(devices) /\ \A d \in DOMAIN devices : SavedDevice(devices[d])
  BY <1>1, <1>2 DEF TypedTask
<1>5. /\ Opens(devices, base) => made = Opened(DevicesBack(devices, base, place))
      /\ ~Opens(devices, base) => made = Failure
  BY <1>2, <1>4, LoadsWritten
<1>6. CASE ~Opens(devices, base)
  <2>1. (WithinLimits(devices) /\ Fits(devices, base)) = FALSE
    BY <1>6 DEF Opens
  <2>2. made.ok = FALSE
    BY <1>5, <1>6 DEF Failure
  <2> QED BY <1>3, <2>1, <2>2 DEF SavedOpensAgain
<1>7. CASE Opens(devices, base)
  <2>7. (WithinLimits(devices) /\ Fits(devices, base)) = TRUE
    BY <1>7 DEF Opens
  <2>1. PICK back : back = DevicesBack(devices, base, place)
    OBVIOUS
  <2>2. made.ok /\ ~made.warned /\ made.devices = back /\ made.ok = TRUE
    BY <1>5, <1>7, <2>1 DEF Opened
  <2>3. /\ Len(devices) \in Nat /\ DOMAIN devices = 1..Len(devices)
        /\ DOMAIN back = DOMAIN devices /\ back = [d \in 1..Len(devices) |-> back[d]]
        /\ \A d \in DOMAIN devices : back[d] = DeviceBack(devices[d], base, place)
    BY <1>4, <2>1, LenProperties DEF IsList, DevicesBack
  <2>4. Len(back) = Len(devices)
    BY <2>3, ListIs
  <2>5. ASSUME NEW d \in DOMAIN back, NEW was, was = devices[d], NEW is, is = back[d]
        PROVE  /\ is.id = was.id /\ is.tags = was.tags /\ is.security = was.security
               /\ Len(is.firmware) = Len(was.firmware)
               /\ \A i \in DOMAIN is.firmware :
                     /\ is.firmware[i].address = was.firmware[i].address
                     /\ Determined(was.firmware[i].path, base, place) =>
                           is.firmware[i].path = MovedAlong(was.firmware[i].path, base, place)
    <3>1. PICK rows : rows = RowsBack(was.firmware, base, place)
      OBVIOUS
    <3>2. is = DeviceBack(was, base, place)
      BY <2>3, <2>5
    <3>3. is.id = was.id /\ is.tags = was.tags /\ is.security = was.security /\ is.firmware = rows
      BY <3>1, <3>2 DEF DeviceBack
    <3>4. /\ SavedDevice(was) /\ IsList(was.firmware)
          /\ Len(was.firmware) \in Nat /\ DOMAIN was.firmware = 1..Len(was.firmware)
      BY <1>4, <2>3, <2>5, LenProperties DEF SavedDevice, IsList
    <3>5. /\ DOMAIN rows = DOMAIN was.firmware
          /\ \A i \in DOMAIN rows : rows[i] = RowBack(was.firmware[i], base, place)
          /\ rows = [i \in 1..Len(was.firmware) |-> rows[i]]
      BY <3>1, <3>4 DEF RowsBack
    <3>6. Len(rows) = Len(was.firmware)
      BY <3>4, <3>5, ListIs
    <3>7. ASSUME NEW i \in DOMAIN rows
          PROVE  /\ rows[i].address = was.firmware[i].address
                 /\ Determined(was.firmware[i].path, base, place) =>
                       rows[i].path = MovedAlong(was.firmware[i].path, base, place)
      <4>1. PICK path : path = was.firmware[i].path
        OBVIOUS
      <4>2. rows[i].path = BackPath(path, base, place) /\ rows[i].address = was.firmware[i].address
        <5>1. PICK row : row = was.firmware[i]
          OBVIOUS
        <5>2. rows[i] = RowBack(row, base, place)
          BY <3>5, <5>1
        <5>3. rows[i].path = BackPath(row.path, base, place) /\ rows[i].address = row.address
          BY ONLY <5>2, RowBackFields
        <5> QED BY <4>1, <5>1, <5>3
      <4>3. path = <<>> \/ AbsolutePath(path)
        BY <3>4, <3>5, <4>1 DEF SavedDevice, SavedRow
      <4> QED BY <1>4, <4>1, <4>2, <4>3, BackWhereItBelongs
    <3> QED BY <3>3, <3>6, <3>7
  <2>6. SavedIsOpened'
    BY <1>3, <2>2, <2>4, <2>5 DEF SavedIsOpened
  <2> QED BY <1>3, <2>2, <2>6, <2>7 DEF SavedOpensAgain
<1> QED BY <1>6, <1>7

LEMMA FileTaskStep ==
    ASSUME TypedTask(task), OpenFile
    PROVE  OpenedIsStable'
<1>1. task.kind = "file" /\ task' = task
  BY DEF OpenFile, Makes
<1>2. PICK raw, base, first : raw = task.raw /\ base = task.base /\ first = Load(raw, base, DefaultSecurity)
  OBVIOUS
<1>3. PICK second : second = IF first.ok
                            THEN Load(SavedFile([devices |-> first.devices], base), base, DefaultSecurity)
                            ELSE Failure
  OBVIOUS
<1>4. It' = [first |-> first, second |-> second]
  BY <1>1, <1>2, <1>3 DEF OpenFile, Makes, It
<1>5. It'.first = first /\ It'.second = second
  BY <1>4
<1>6. AbsolutePath(base) /\ ReadFile(raw)
  BY <1>1, <1>2 DEF TypedTask
<1>7. CASE first.ok
  <2>1. PICK devices : devices = first.devices
    OBVIOUS
  <2>2. /\ IsList(devices) /\ \A d \in DOMAIN devices : SavedDevice(devices[d])
        /\ WithinLimits(devices)
    <3>1. /\ IsList(first.devices) /\ \A d \in DOMAIN first.devices : SavedDevice(first.devices[d])
          /\ WithinLimits(first.devices)
      BY ONLY <1>2, <1>6, <1>7, FileReadIn
    <3> QED BY ONLY <2>1, <3>1
  <2>3. second = Load(SavedFile([devices |-> devices], base), base, DefaultSecurity)
    BY <1>3, <1>7, <2>1
  <2>4. /\ Opens(devices, base) => second = Opened(devices)
        /\ ~Opens(devices, base) => second = Failure
    BY <1>6, <2>2, <2>3, LoadsWritten, DevicesBackInPlace
  <2>5. /\ second.ok = Fits(devices, base)
        /\ second.ok => ~second.warned /\ second.devices = devices
    <3>1. CASE Opens(devices, base)
      <4>1. second.ok = TRUE /\ second.warned = FALSE /\ second.devices = devices
        BY <2>4, <3>1 DEF Opened
      <4>2. Fits(devices, base) = TRUE
        BY <3>1 DEF Opens, Fits
      <4> QED BY <4>1, <4>2
    <3>2. CASE ~Opens(devices, base)
      <4>1. second.ok = FALSE
        BY <2>4, <3>2 DEF Failure
      <4>2. Fits(devices, base) = FALSE
        BY <2>2, <3>2 DEF Opens, Fits
      <4> QED BY <4>1, <4>2
    <3> QED BY <3>1, <3>2
  <2>6. ASSUME NEW d \in DOMAIN devices, NEW i \in DOMAIN devices[d].firmware
        PROVE  devices[d].firmware[i].path = <<>> \/ IsAbsolute(devices[d].firmware[i].path)
    BY <2>2, PathKinds DEF SavedDevice, SavedRow
  <2>8. task'.base = base
    BY <1>1, <1>2
  <2>9. Fits(devices, base) = Fits(It'.first.devices, task'.base)
    BY <1>5, <2>1, <2>8
  <2> QED BY <1>5, <2>1, <2>2, <2>5, <2>6, <2>9 DEF OpenedIsStable, WithinLimits
<1>8. CASE ~first.ok
  BY <1>5, <1>8 DEF OpenedIsStable
<1> QED BY <1>7, <1>8

-----------------------------------------------------------------------------
(* Projects and their files. *)

\* A saved project opens again if it and its file are within the limits, wherever
\* it has been moved; whatever is opened stays as it is; the recent projects are those that were used last.
THEOREM ProjectAlwaysSurvives == Spec => []ProjectSurvives
<1>1. Init => TasksAreTyped /\ ProjectSurvives
  BY NothingMade DEF ProjectSurvives, SavedOpensAgain, OpenedIsStable, RecentsAreLatest, Made
<1>2. ASSUME TasksAreTyped, ProjectSurvives, [Next]_vars
      PROVE  TasksAreTyped' /\ ProjectSurvives'
  <2>1. TypedTask(task)
    BY <1>2, TaskIsTyped
  <2>2. TasksAreTyped'
    BY <1>2, TasksStay
  <2>3. CASE UNCHANGED vars
    <3>1. task' = task /\ result' = result
      BY <2>3 DEF vars
    <3>2. SavedOpensAgain'
      BY <1>2, <3>1 DEF ProjectSurvives, SavedOpensAgain, SavedIsOpened, Made, It
    <3>3. OpenedIsStable'
      BY <1>2, <3>1 DEF ProjectSurvives, OpenedIsStable, Made, It
    <3>4. RecentsAreLatest'
      BY <1>2, <3>1 DEF ProjectSurvives, RecentsAreLatest, Made, It
    <3> QED BY <2>2, <3>2, <3>3, <3>4 DEF ProjectSurvives
  <2>4. CASE Next
    <3>1. task' = task
      BY <2>4, StepOfKind
    <3>2. SavedOpensAgain'
      <4>1. CASE task.kind = "project"
        BY <2>1, <2>4, <4>1, StepOfKind, ProjectTaskStep
      <4>2. CASE task.kind # "project"
        BY <3>1, <4>2 DEF SavedOpensAgain, Made
      <4> QED BY <4>1, <4>2
    <3>3. OpenedIsStable'
      <4>1. CASE task.kind = "file"
        BY <2>1, <2>4, <4>1, StepOfKind, FileTaskStep
      <4>2. CASE task.kind # "file"
        BY <3>1, <4>2 DEF OpenedIsStable, Made
      <4> QED BY <4>1, <4>2
    <3>4. RecentsAreLatest'
      <4>1. CASE task.kind = "recent"
        BY <2>1, <2>4, <4>1, StepOfKind, RecentTaskStep
      <4>2. CASE task.kind # "recent"
        BY <3>1, <4>2 DEF RecentsAreLatest, Made
      <4> QED BY <4>1, <4>2
    <3> QED BY <2>2, <3>2, <3>3, <3>4 DEF ProjectSurvives
  <2> QED BY <1>2, <2>3, <2>4
<1> QED BY <1>1, <1>2, PTL DEF Spec
=============================================================================
