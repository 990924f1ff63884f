------------------------ MODULE SerialMonitor_proofs ------------------------
(***************************************************************************)
(* Proofs about SerialMonitor, for any ports, devices and amounts of data: *)
(* a window shows what its reader does, both directions of a connection    *)
(* are kept whole, and no upload starts on a port a window reads.          *)
(***************************************************************************)
EXTENDS SerialMonitor, SequenceTheorems, TLAPS

\* Windows, buttons and readers.  A window whose reader is gone has no signal
\* left to deliver, for finished is the last; a reader that has not reached
\* its loop has posted nothing, so its window is still connecting.
Linked(p) ==
    /\ reader[p] => p \in windows
    /\ reader[p] <=> thread[p] # "none"
    /\ reader[p] <=> button[p] # "Connect"
    /\ button[p] = "Disconnect" => thread[p] \in {"looping", "ended"}
    /\ button[p] = "Disconnecting" => ~running[p]
    /\ thread[p] \in {"none", "opening", "opened"} => inbox[p] = <<>>
    /\ thread[p] \in {"opening", "opened"} => button[p] = "Connecting"
    /\ \A i \in 1..Len(inbox[p]) :
          inbox[p][i].kind = "finished" => i = Len(inbox[p]) /\ thread[p] = "ended"

\* The numbers from one to the last, in order.
EndsAt(s, last) == \A i \in 1..Len(s) : s[i] = last - Len(s) + i

Heard(p) ==
    \E heard \in 0..chunks[p] :
        /\ EndsAt(shown[p] \o pending[p], heard)
        /\ DataIs(inbox[p], heard + 1, chunks[p])

\* The first k numbers, in order.
Numbers(k) == [i \in 1..k |-> i]

Sent(p) == written[p] \o taken[p] \o outgoing[p] = Numbers(sends[p])

\* Nothing is held back but under Pause.
HeldByPause(p) == ~paused[p] => pending[p] = <<>>

PortInv(p) == Linked(p) /\ Heard(p) /\ Sent(p) /\ HeldByPause(p)

MonitorInv == TypeOK /\ \A p \in Ports : PortInv(p)

-----------------------------------------------------------------------------
(* Signals and numbered sequences. *)

LEMMA SignalProps ==
    /\ \A s \in Signals : /\ s.kind \in {"opened", "error", "finished", "data"}
                          /\ s.kind = "data" => s.chunk \in 1..MaxChunks
    /\ \A kind \in {"opened", "error", "finished"} :
          Signal(kind) \in Signals /\ Signal(kind).kind = kind
    /\ \A n \in 1..MaxChunks :
          Data(n) \in Signals /\ Data(n).kind = "data" /\ Data(n).chunk = n
<1>1. \A kind : Signal(kind).kind = kind
  BY DEF Signal
<1>2. \A n : Data(n).kind = "data" /\ Data(n).chunk = n
  BY DEF Data
<1>3. /\ \A kind \in {"opened", "error", "finished"} : Signal(kind) \in Signals
      /\ \A n \in 1..MaxChunks : Data(n) \in Signals
  BY DEF Signals
<1>4. ASSUME NEW s \in Signals
      PROVE  /\ s.kind \in {"opened", "error", "finished", "data"}
             /\ s.kind = "data" => s.chunk \in 1..MaxChunks
  <2>1. s \in {Signal("opened"), Signal("error"), Signal("finished")}
        \/ \E n \in 1..MaxChunks : s = Data(n)
    BY DEF Signals
  <2>2. ASSUME NEW n \in 1..MaxChunks, s = Data(n)
        PROVE  s.kind = "data" /\ s.chunk \in 1..MaxChunks
    BY <1>2, <2>2
  <2>3. ASSUME s \in {Signal("opened"), Signal("error"), Signal("finished")}
        PROVE  s.kind \in {"opened", "error", "finished"} /\ s.kind # "data"
    BY <1>1, <2>3
  <2> QED BY <2>1, <2>2, <2>3
<1> QED BY <1>1, <1>2, <1>3, <1>4

LEMMA DataQuiet ==
    ASSUME NEW q \in Seq(Signals), NEW t \in Seq(Signals), NEW first, NEW last,
           DataIs(q, first, last), \A i \in 1..Len(t) : t[i].kind # "data"
    PROVE  DataIs(q \o t, first, last)
<1> DEFINE c == q \o t
<1>1. /\ Len(q) \in Nat /\ Len(t) \in Nat /\ Len(c) = Len(q) + Len(t)
      /\ \A i \in 1..(Len(q) + Len(t)) : c[i] = IF i <= Len(q) THEN q[i] ELSE t[i - Len(q)]
  BY ConcatProperties, LenProperties
<1> HIDE DEF c
<1>2. \A i \in 1..Len(c) : i \in 1..Len(q) \/ (~(i <= Len(q)) /\ i - Len(q) \in 1..Len(t))
  BY ONLY <1>1
<1>3. \A i \in 1..Len(q) : i \in 1..Len(c) /\ c[i] = q[i]
  BY ONLY <1>1
<1>4. {i \in 1..Len(c) : c[i].kind = "data"} = {i \in 1..Len(q) : q[i].kind = "data"}
  BY <1>1, <1>2, <1>3
<1> DEFINE data == {i \in 1..Len(q) : q[i].kind = "data"}
<1>5. \A i \in data : c[i] = q[i]
  BY <1>3
<1>6. /\ {q[i].chunk : i \in data} = first..last
      /\ \A i, j \in data : i < j => q[i].chunk < q[j].chunk
  BY DEF DataIs
<1>7. {c[i].chunk : i \in data} = {q[i].chunk : i \in data}
  BY <1>5
<1>8. \A i, j \in data : i < j => c[i].chunk < c[j].chunk
  BY <1>5, <1>6
<1> QED BY <1>4, <1>6, <1>7, <1>8 DEF DataIs, c

LEMMA DataMore ==
    ASSUME NEW q \in Seq(Signals), NEW first \in Nat, NEW last \in Nat, first <= last + 1,
           last + 1 \in 1..MaxChunks, DataIs(q, first, last)
    PROVE  DataIs(q \o <<Data(last + 1)>>, first, last + 1)
<1> DEFINE s == Data(last + 1)
           h == <<s>>
           c == q \o h
           n == Len(q)
<1>1. s \in Signals /\ s.kind = "data" /\ s.chunk = last + 1
  BY SignalProps
<1> HIDE DEF s
<1>2. h \in Seq(Signals) /\ Len(h) = 1 /\ h[1] = s
  BY <1>1
<1> HIDE DEF h
<1>3. /\ n \in Nat /\ Len(c) = n + 1 /\ c[n + 1] = s
      /\ \A i \in 1..n : c[i] = q[i]
  <2>1. /\ Len(c) = n + Len(h)
        /\ \A i \in 1..(n + Len(h)) : c[i] = IF i <= n THEN q[i] ELSE h[i - n]
    BY <1>2, ConcatProperties
  <2>2. n \in Nat
    BY LenProperties
  <2>6. Len(c) = n + 1
    BY ONLY <1>2, <2>1
  <2> HIDE DEF c, n
  <2>3. \A i \in 1..(n + 1) : c[i] = IF i <= n THEN q[i] ELSE h[i - n]
    BY ONLY <1>2, <2>1
  <2>4. n + 1 \in 1..(n + 1) /\ ~(n + 1 <= n) /\ n + 1 - n = 1
        /\ \A i \in 1..n : i \in 1..(n + 1) /\ i <= n
    BY ONLY <2>2
  <2>5. c[n + 1] = s /\ \A i \in 1..n : c[i] = q[i]
    BY ONLY <1>2, <2>2, <2>3, <2>4
  <2> QED BY ONLY <2>2, <2>5, <2>6
<1> HIDE DEF c
<1> DEFINE data == {i \in 1..n : q[i].kind = "data"}
           more == {i \in 1..(n + 1) : c[i].kind = "data"}
<1>4. more = data \cup {n + 1} /\ n + 1 \notin data
  <2>1. \A i : i \in 1..(n + 1) <=> i \in 1..n \/ i = n + 1
    BY ONLY <1>3
  <2>2. n + 1 \notin 1..n
    BY ONLY <1>3
  <2> QED BY <1>1, <1>3, <2>1, <2>2
<1>5. /\ {q[i].chunk : i \in data} = first..last
      /\ \A i, j \in data : i < j => q[i].chunk < q[j].chunk
  BY DEF DataIs
<1>6. \A i \in data : c[i] = q[i] /\ q[i].chunk \in first..last /\ i \in 1..n
  BY <1>3, <1>5
<1> HIDE DEF data, more
<1>7. {c[i].chunk : i \in more} = first..(last + 1)
  <2>1. {c[i].chunk : i \in more} = {q[i].chunk : i \in data} \cup {last + 1}
    BY <1>1, <1>3, <1>4, <1>6
  <2>2. first..(last + 1) = (first..last) \cup {last + 1}
    OBVIOUS
  <2> QED BY <1>5, <2>1, <2>2
<1>8. ASSUME NEW i \in more, NEW j \in more, i < j PROVE c[i].chunk < c[j].chunk
  <2>1. i \in data
    BY <1>3, <1>4, <1>6, <1>8
  <2>2. CASE j \in data
    BY <1>5, <1>6, <1>8, <2>1, <2>2
  <2>3. CASE j = n + 1
    <3>1. c[i].chunk \in first..last /\ c[j].chunk = last + 1
      BY <1>1, <1>3, <1>6, <2>1, <2>3
    <3> QED BY <3>1
  <2> QED BY <1>4, <2>2, <2>3
<1> QED BY <1>3, <1>7, <1>8 DEF DataIs, more, c, h, s, n

LEMMA DataHead ==
    ASSUME NEW q \in Seq(Signals), q # <<>>, NEW first \in Nat, NEW last \in Nat,
           DataIs(q, first, last)
    PROVE  /\ Head(q).kind # "data" => DataIs(Tail(q), first, last)
           /\ Head(q).kind = "data" =>
                 /\ Head(q).chunk = first /\ first <= last
                 /\ DataIs(Tail(q), first + 1, last)
<1> DEFINE t == Tail(q)
           n == Len(q)
           data == {i \in 1..n : q[i].kind = "data"}
           rest == {i \in 1..(n - 1) : t[i].kind = "data"}
<1>1. /\ n \in Nat \ {0} /\ Head(q) = q[1] /\ Len(t) = n - 1
      /\ \A i \in 1..(n - 1) : t[i] = q[i + 1]
  BY HeadTailProperties, EmptySeq, LenProperties
<1>2. /\ {q[i].chunk : i \in data} = first..last
      /\ \A i, j \in data : i < j => q[i].chunk < q[j].chunk
  BY DEF DataIs
<1> HIDE DEF t, n
<1>3. \A i : i \in rest <=> i \in Int /\ i + 1 \in data /\ i + 1 # 1
  <2>1. \A i : i \in 1..(n - 1) <=> i \in Int /\ i + 1 \in 1..n /\ i + 1 # 1
    BY ONLY <1>1
  <2> QED BY <1>1, <2>1
<1>4. \A i \in data : i \in 1..n /\ (i # 1 => i - 1 \in rest /\ t[i - 1] = q[i])
  <2>1. \A i \in 1..n : i # 1 => i - 1 \in 1..(n - 1) /\ (i - 1) + 1 = i
    BY ONLY <1>1
  <2> QED BY <1>1, <2>1
<1>5. \A i \in rest : t[i] = q[i + 1] /\ i \in 1..(n - 1) /\ i + 1 \in data
  BY <1>1, <1>3
<1> HIDE DEF data, rest
<1>6. \A i, j \in rest : i < j => t[i].chunk < t[j].chunk
  <2>1. \A i, j \in rest : i < j => i + 1 < j + 1
    BY ONLY <1>1, <1>5
  <2> QED BY <1>2, <1>5, <2>1
<1>7. {t[i].chunk : i \in rest} = {q[i].chunk : i \in data \ {1}}
  <2>1. ASSUME NEW i \in rest PROVE t[i].chunk \in {q[k].chunk : k \in data \ {1}}
    BY <1>3, <1>5, <2>1
  <2>2. ASSUME NEW k \in data \ {1} PROVE q[k].chunk \in {t[i].chunk : i \in rest}
    BY <1>4, <2>2
  <2> QED BY <2>1, <2>2
<1>8. CASE q[1].kind # "data"
  <2>1. 1 \notin data
    BY <1>8 DEF data
  <2>2. {t[i].chunk : i \in rest} = first..last
    BY <1>2, <1>7, <2>1
  <2> QED BY <1>1, <1>6, <1>8, <2>2 DEF DataIs, t, rest
<1>9. CASE q[1].kind = "data"
  <2>1. 1 \in data
    <3>1. 1 \in 1..n
      BY <1>1
    <3> QED BY <1>9, <3>1 DEF data
  <2>2. q[1].chunk \in first..last
    BY <1>2, <2>1
  <2>3. \A k \in data \ {1} : q[1].chunk < q[k].chunk /\ q[k].chunk \in first..last
    <3>1. \A k \in data \ {1} : 1 < k
      BY <1>1, <1>4
    <3> QED BY <1>2, <2>1, <3>1
  <2>4. q[1].chunk = first /\ first <= last
    <3>1. first \in first..last
      BY <2>2
    <3>2. PICK k \in data : q[k].chunk = first
      BY <1>2, <3>1
    <3>3. k = 1
      <4>1. k # 1 => q[1].chunk < first
        BY <2>3, <3>2
      <4> QED BY <2>2, <4>1
    <3> QED BY <2>2, <3>2, <3>3
  <2>5. {q[k].chunk : k \in data \ {1}} = (first + 1)..last
    <3>1. ASSUME NEW k \in data \ {1} PROVE q[k].chunk \in (first + 1)..last
      <4>1. first < q[k].chunk /\ q[k].chunk \in first..last
        BY <2>3, <2>4
      <4> QED BY <4>1
    <3>2. ASSUME NEW c \in (first + 1)..last PROVE c \in {q[k].chunk : k \in data \ {1}}
      <4>1. c \in first..last /\ c # first
        OBVIOUS
      <4>2. PICK k \in data : q[k].chunk = c
        BY <1>2, <4>1
      <4> QED BY <2>4, <4>1, <4>2
    <3> QED BY <3>1, <3>2
  <2>6. {t[i].chunk : i \in rest} = (first + 1)..last
    BY <1>7, <2>5
  <2> QED BY <1>1, <1>6, <1>9, <2>4, <2>6 DEF DataIs, t, rest
<1> QED BY <1>8, <1>9

LEMMA NoData == ASSUME NEW last \in Nat PROVE DataIs(<<>>, last + 1, last)
<1>1. Len(<<>>) = 0 /\ 1..0 = {} /\ (last + 1)..last = {}
  BY EmptySeq
<1> QED BY <1>1 DEF DataIs

LEMMA AppendProps ==
    ASSUME NEW S, NEW s \in Seq(S), NEW e \in S
    PROVE  /\ Append(s, e) \in Seq(S) /\ Len(s) \in Nat /\ Len(Append(s, e)) = Len(s) + 1
           /\ Append(s, e)[Len(s) + 1] = e /\ \A i \in 1..Len(s) : Append(s, e)[i] = s[i]
BY AppendProperties, LenProperties

LEMMA ConcatAppend ==
    ASSUME NEW S, NEW a \in Seq(S), NEW b \in Seq(S), NEW e \in S
    PROVE  a \o Append(b, e) = Append(a \o b, e)
<1> DEFINE l == Append(b, e)
           c == a \o b
           x == a \o l
           y == Append(c, e)
<1>1. /\ l \in Seq(S) /\ Len(b) \in Nat /\ Len(l) = Len(b) + 1 /\ l[Len(b) + 1] = e
      /\ \A i \in 1..Len(b) : l[i] = b[i]
  BY AppendProps
<1>2. /\ c \in Seq(S) /\ Len(a) \in Nat /\ Len(c) = Len(a) + Len(b)
      /\ \A i \in 1..(Len(a) + Len(b)) : c[i] = IF i <= Len(a) THEN a[i] ELSE b[i - Len(a)]
  BY ConcatProperties, LenProperties
<1> HIDE DEF l, c
<1>3. /\ x \in Seq(S) /\ Len(x) = Len(a) + Len(l)
      /\ \A i \in 1..(Len(a) + Len(l)) : x[i] = IF i <= Len(a) THEN a[i] ELSE l[i - Len(a)]
  BY <1>1, ConcatProperties
<1>4. /\ y \in Seq(S) /\ Len(y) = Len(c) + 1 /\ y[Len(c) + 1] = e
      /\ \A i \in 1..Len(c) : y[i] = c[i]
  BY <1>2, AppendProps
<1> HIDE DEF x, y
<1>5. Len(x) = Len(y)
  BY ONLY <1>1, <1>2, <1>3, <1>4
<1>6. ASSUME NEW i \in 1..Len(x) PROVE x[i] = y[i]
  <2>1. CASE i = Len(c) + 1
    <3>1. ~(i <= Len(a)) /\ i - Len(a) = Len(b) + 1 /\ i \in 1..(Len(a) + Len(l))
      BY ONLY <1>1, <1>2, <1>3, <2>1
    <3> QED BY <1>1, <1>3, <1>4, <2>1, <3>1
  <2>2. CASE i # Len(c) + 1 /\ i <= Len(a)
    <3>1. i \in 1..Len(c) /\ i \in 1..(Len(a) + Len(b)) /\ i \in 1..(Len(a) + Len(l))
      BY ONLY <1>1, <1>2, <1>3, <2>2
    <3> QED BY <1>2, <1>3, <1>4, <2>2, <3>1
  <2>3. CASE i # Len(c) + 1 /\ ~(i <= Len(a))
    <3>1. /\ i \in 1..Len(c) /\ i \in 1..(Len(a) + Len(b)) /\ i \in 1..(Len(a) + Len(l))
          /\ i - Len(a) \in 1..Len(b)
      BY ONLY <1>1, <1>2, <1>3, <2>3
    <3> QED BY <1>1, <1>2, <1>3, <1>4, <2>3, <3>1
  <2> QED BY <2>1, <2>2, <2>3
<1>7. x = y
  BY <1>3, <1>4, <1>5, <1>6, SeqEqual
<1> QED BY <1>7 DEF x, y, l, c

LEMMA HeadMoves ==
    ASSUME NEW S, NEW a \in Seq(S), NEW b \in Seq(S), b # <<>>
    PROVE  Append(a, Head(b)) \o Tail(b) = a \o b
<1> DEFINE l == Append(a, Head(b))
           t == Tail(b)
           x == l \o t
           y == a \o b
<1>1. /\ Head(b) \in S /\ Head(b) = b[1] /\ t \in Seq(S) /\ Len(b) \in Nat \ {0}
      /\ Len(t) = Len(b) - 1 /\ \A i \in 1..(Len(b) - 1) : t[i] = b[i + 1]
  BY HeadTailProperties, EmptySeq
<1>2. /\ l \in Seq(S) /\ Len(a) \in Nat /\ Len(l) = Len(a) + 1 /\ l[Len(a) + 1] = b[1]
      /\ \A i \in 1..Len(a) : l[i] = a[i]
  BY <1>1, AppendProps
<1> HIDE DEF l, t
<1>3. /\ x \in Seq(S) /\ Len(x) = Len(l) + Len(t)
      /\ \A i \in 1..(Len(l) + Len(t)) : x[i] = IF i <= Len(l) THEN l[i] ELSE t[i - Len(l)]
  BY <1>1, <1>2, ConcatProperties
<1>4. /\ y \in Seq(S) /\ Len(y) = Len(a) + Len(b)
      /\ \A i \in 1..(Len(a) + Len(b)) : y[i] = IF i <= Len(a) THEN a[i] ELSE b[i - Len(a)]
  BY ConcatProperties
<1> HIDE DEF x, y
<1>5. Len(x) = Len(y)
  BY ONLY <1>1, <1>2, <1>3, <1>4
<1>6. ASSUME NEW i \in 1..Len(x) PROVE x[i] = y[i]
  <2>1. CASE i <= Len(a)
    <3>1. i \in 1..Len(a) /\ i <= Len(l) /\ i \in 1..(Len(a) + Len(b)) /\ i \in 1..(Len(l) + Len(t))
      BY ONLY <1>1, <1>2, <1>3, <2>1
    <3> QED BY <1>2, <1>3, <1>4, <2>1, <3>1
  <2>2. CASE i = Len(a) + 1
    <3>1. /\ ~(i <= Len(a)) /\ i <= Len(l) /\ i - Len(a) = 1 /\ i \in 1..(Len(a) + Len(b))
          /\ i \in 1..(Len(l) + Len(t))
      BY ONLY <1>1, <1>2, <1>3, <2>2
    <3> QED BY <1>2, <1>3, <1>4, <2>2, <3>1
  <2>3. CASE ~(i <= Len(a)) /\ i # Len(a) + 1
    <3>1. /\ ~(i <= Len(l)) /\ i \in 1..(Len(a) + Len(b)) /\ i \in 1..(Len(l) + Len(t))
          /\ i - Len(l) \in 1..(Len(b) - 1) /\ (i - Len(l)) + 1 = i - Len(a)
      BY ONLY <1>1, <1>2, <1>3, <2>3
    <3> QED BY <1>1, <1>3, <1>4, <2>3, <3>1
  <2> QED BY <2>1, <2>2, <2>3
<1>7. x = y
  BY <1>3, <1>4, <1>5, <1>6, SeqEqual
<1> QED BY <1>7 DEF x, y, l, t

LEMMA NextNumber ==
    ASSUME NEW k \in Nat
    PROVE  Append(Numbers(k), k + 1) = Numbers(k + 1)
<1> DEFINE s == [i \in 1..k |-> i]
           t == [i \in 1..(k + 1) |-> i]
           a == Append(s, k + 1)
<1>1. s \in Seq(Nat) /\ Len(s) = k /\ \A i \in 1..k : s[i] = i
  OBVIOUS
<1>2. t \in Seq(Nat) /\ Len(t) = k + 1 /\ \A i \in 1..(k + 1) : t[i] = i
  OBVIOUS
<1> HIDE DEF s, t
<1>3. k + 1 \in Nat
  OBVIOUS
<1>4. /\ a \in Seq(Nat) /\ Len(a) = k + 1 /\ a[k + 1] = k + 1
      /\ \A i \in 1..k : a[i] = s[i]
  BY <1>1, <1>3, AppendProps
<1> HIDE DEF a
<1>5. \A i \in 1..(k + 1) : a[i] = t[i]
  <2>1. \A i \in 1..(k + 1) : i \in 1..k \/ i = k + 1
    OBVIOUS
  <2> QED BY <1>1, <1>2, <1>4, <2>1
<1>6. a = t
  BY <1>2, <1>4, <1>5, SeqEqual
<1> QED BY <1>6 DEF a, s, t, Numbers

LEMMA NoNumbers == <<>> \o <<>> \o <<>> = Numbers(0)
<1>1. <<>> \in Seq(Nat) /\ Numbers(0) \in Seq(Nat) /\ Len(Numbers(0)) = 0
  BY DEF Numbers
<1>2. Numbers(0) = <<>>
  BY <1>1, EmptySeq
<1> QED BY <1>1, <1>2, ConcatEmptySeq

LEMMA EndsAppend ==
    ASSUME NEW s \in Seq(1..MaxChunks), NEW last \in Nat, last + 1 \in 1..MaxChunks,
           EndsAt(s, last)
    PROVE  EndsAt(Append(s, last + 1), last + 1)
<1> DEFINE a == Append(s, last + 1)
<1>1. /\ Len(s) \in Nat /\ Len(a) = Len(s) + 1 /\ a[Len(s) + 1] = last + 1
      /\ \A i \in 1..Len(s) : a[i] = s[i]
  BY AppendProps
<1> HIDE DEF a
<1>2. ASSUME NEW i \in 1..Len(a) PROVE a[i] = (last + 1) - Len(a) + i
  <2>1. CASE i = Len(s) + 1
    <3>1. (last + 1) - Len(a) + i = last + 1
      BY ONLY <1>1, <2>1
    <3> QED BY <1>1, <2>1, <3>1
  <2>2. CASE i # Len(s) + 1
    <3>1. i \in 1..Len(s) /\ (last + 1) - Len(a) + i = last - Len(s) + i
      BY ONLY <1>1, <2>2
    <3> QED BY <1>1, <3>1 DEF EndsAt
  <2> QED BY <2>1, <2>2
<1> QED BY <1>2 DEF EndsAt, a

\* The next chunk joins those that are held back, or those that are shown.
LEMMA EndsGrow ==
    ASSUME NEW a \in Seq(1..MaxChunks), NEW b \in Seq(1..MaxChunks), NEW last \in Nat,
           last + 1 \in 1..MaxChunks, EndsAt(a \o b, last)
    PROVE  /\ EndsAt(a \o Append(b, last + 1), last + 1)
           /\ b = <<>> => EndsAt(Append(a, last + 1) \o b, last + 1)
<1>1. a \o b \in Seq(1..MaxChunks)
  BY ConcatProperties
<1>2. EndsAt(Append(a \o b, last + 1), last + 1)
  BY <1>1, EndsAppend
<1>3. a \o Append(b, last + 1) = Append(a \o b, last + 1)
  BY ConcatAppend
<1>4. ASSUME b = <<>> PROVE Append(a, last + 1) \o b = Append(a \o b, last + 1)
  <2>1. Append(a, last + 1) \in Seq(1..MaxChunks)
    BY AppendProps
  <2> QED BY <1>4, <2>1, ConcatEmptySeq
<1> QED BY <1>2, <1>3, <1>4

LEMMA EndsSuffix ==
    ASSUME NEW a \in Seq(1..MaxChunks), NEW b \in Seq(1..MaxChunks), NEW last \in Nat,
           EndsAt(a \o b, last)
    PROVE  EndsAt(b, last)
<1> DEFINE c == a \o b
<1>1. /\ Len(a) \in Nat /\ Len(b) \in Nat /\ Len(c) = Len(a) + Len(b)
      /\ \A i \in 1..(Len(a) + Len(b)) : c[i] = IF i <= Len(a) THEN a[i] ELSE b[i - Len(a)]
  BY ConcatProperties, LenProperties
<1>2. \A i \in 1..Len(c) : c[i] = last - Len(c) + i
  BY DEF EndsAt
<1> HIDE DEF c
<1>3. ASSUME NEW i \in 1..Len(b) PROVE b[i] = last - Len(b) + i
  <2>1. /\ Len(a) + i \in 1..Len(c) /\ Len(a) + i \in 1..(Len(a) + Len(b))
        /\ ~(Len(a) + i <= Len(a)) /\ (Len(a) + i) - Len(a) = i
        /\ last - Len(c) + (Len(a) + i) = last - Len(b) + i
    BY ONLY <1>1
  <2> QED BY <1>1, <1>2, <2>1
<1> QED BY <1>3 DEF EndsAt

LEMMA EndsEmpty == ASSUME NEW last PROVE EndsAt(<<>> \o <<>>, last) /\ EndsAt(<<>>, last)
<1>1. <<>> \o <<>> = <<>> /\ Len(<<>>) = 0 /\ 1..0 = {}
  BY EmptySeq, ConcatEmptySeq
<1> QED BY <1>1 DEF EndsAt

-----------------------------------------------------------------------------
(* Types. *)

\* What a reader posts joins the signals that wait.
LEMMA PostType ==
    ASSUME TypeOK, NEW p \in Ports, NEW t \in Seq(Signals), Post(p, t)
    PROVE  /\ inbox' \in [Ports -> Seq(Signals)]
           /\ inbox'[p] = inbox[p] \o t
           /\ \A q \in Ports : q # p => inbox'[q] = inbox[q]
<1>1. inbox[p] \o t \in Seq(Signals)
  BY ConcatProperties DEF TypeOK
<1> QED BY <1>1 DEF Post, TypeOK

\* What the window hears leaves the rest waiting.
LEMMA ReceiveType ==
    ASSUME TypeOK, NEW p \in Ports, NEW kind, Receive(p, kind)
    PROVE  /\ inbox' \in [Ports -> Seq(Signals)]
           /\ inbox[p] \in Seq(Signals) /\ inbox[p] # <<>>
           /\ Head(inbox[p]) \in Signals /\ Head(inbox[p]).kind = kind
           /\ inbox'[p] = Tail(inbox[p])
           /\ \A q \in Ports : q # p => inbox'[q] = inbox[q]
<1>1. Tail(inbox[p]) \in Seq(Signals) /\ Head(inbox[p]) \in Signals
  BY HeadTailProperties DEF TypeOK, Receive
<1> QED BY <1>1 DEF Receive, TypeOK

\* The signals the reader posts.
LEMMA Posted ==
    ASSUME NEW a \in Signals, NEW b \in Signals
    PROVE  /\ <<a>> \in Seq(Signals) /\ Len(<<a>>) = 1 /\ <<a>>[1] = a
           /\ <<a, b>> \in Seq(Signals) /\ Len(<<a, b>>) = 2
           /\ <<a, b>>[1] = a /\ <<a, b>>[2] = b
OBVIOUS

LEMMA MonitorTypes == TypeOK /\ [Next]_vars => TypeOK'
<1> SUFFICES ASSUME TypeOK, [Next]_vars PROVE TypeOK'
  OBVIOUS
<1> USE MonitorAssumption DEF windowVars, threadVars, strayVars, stopVars, uploadVars
<1>1. ASSUME NEW p \in Ports, OpenWindow(p) PROVE TypeOK'
  BY <1>1 DEF OpenWindow, TypeOK
<1>2. ASSUME NEW p \in Ports, Connect(p) PROVE TypeOK'
  <2>1. <<>> \in Seq(1..MaxSends) /\ 0 \in 0..MaxSends
    OBVIOUS
  <2> QED BY <1>2, <2>1 DEF Connect, ConnectLabel, TypeOK
<1>3. ASSUME NEW p \in Ports, Disconnect(p) PROVE TypeOK'
  BY <1>3 DEF Disconnect, TypeOK
<1>4. ASSUME NEW p \in Ports, Forget(p),
             UNCHANGED uploadVars,
             stray' \in [Ports -> {"none", "opening", "opened", "looping"}],
             strayRuns' \in [Ports -> BOOLEAN],
             stopping' \in Ports \cup {NoPort}, closing' \in BOOLEAN
      PROVE  TypeOK'
  <2>1. /\ <<>> \in Seq(1..MaxSends) /\ 0 \in 0..MaxSends
        /\ <<>> \in Seq(1..MaxChunks) /\ 0 \in 0..MaxChunks /\ <<>> \in Seq(Signals)
    OBVIOUS
  <2> QED BY <1>4, <2>1 DEF Forget, TypeOK
<1>5. ASSUME NEW p \in Ports, CloseIdle(p) PROVE TypeOK'
  <2>1. Forget(p) /\ UNCHANGED <<stray, strayRuns, stopping, closing, com, busy>>
    BY <1>5 DEF CloseIdle
  <2> QED BY <1>4, <2>1 DEF TypeOK
<1>6. ASSUME NEW p \in Ports, CloseConnected(p) PROVE TypeOK'
  BY <1>6 DEF CloseConnected, TypeOK
<1>7. ASSUME StopReturns PROVE TypeOK'
  <2>1. stopping \in Ports /\ stopping' = NoPort /\ closing' = FALSE /\ UNCHANGED uploadVars
    BY <1>7 DEF StopReturns, Responsive, TypeOK
  <2>2. CASE closing
    <3>1. Forget(stopping)
      BY <1>7, <2>2 DEF StopReturns
    <3>2. /\ stray' \in [Ports -> {"none", "opening", "opened", "looping"}]
          /\ strayRuns' \in [Ports -> BOOLEAN]
      <4>1. CASE thread[stopping] = "ended"
        BY <1>7, <2>2, <4>1 DEF StopReturns, TypeOK
      <4>2. CASE thread[stopping] # "ended"
        <5>1. /\ stray' = [stray EXCEPT ![stopping] = thread[stopping]]
              /\ strayRuns' = [strayRuns EXCEPT ![stopping] = running[stopping]]
          BY <1>7, <2>2, <4>2 DEF StopReturns
        <5>2. /\ thread[stopping] \in {"none", "opening", "opened", "looping"}
              /\ running[stopping] \in BOOLEAN
          BY <2>1, <4>2 DEF TypeOK
        <5> QED BY <5>1, <5>2 DEF TypeOK
      <4> QED BY <4>1, <4>2
    <3> QED BY <1>4, <2>1, <3>1, <3>2
  <2>3. CASE ~closing
    BY <1>7, <2>1, <2>3 DEF StopReturns, TypeOK
  <2> QED BY <2>2, <2>3
<1>8. ASSUME NEW p \in Ports, PressPause(p) PROVE TypeOK'
  <2>1. shown[p] \o pending[p] \in Seq(1..MaxChunks) /\ <<>> \in Seq(1..MaxChunks)
    BY ConcatProperties DEF TypeOK
  <2>2. /\ paused' \in [Ports -> BOOLEAN]
        /\ shown' \in [Ports -> Seq(1..MaxChunks)]
        /\ pending' \in [Ports -> Seq(1..MaxChunks)]
    BY <1>8, <2>1 DEF PressPause, TogglePause, TypeOK
  <2> QED BY <1>8, <2>2 DEF PressPause, TypeOK
<1>9. ASSUME NEW p \in Ports, Clear(p) PROVE TypeOK'
  <2>1. <<>> \in Seq(1..MaxChunks)
    OBVIOUS
  <2> QED BY <1>9, <2>1 DEF Clear, TypeOK
<1>10. ASSUME NEW p \in Ports, Send(p) PROVE TypeOK'
  <2>1. /\ sends' = [sends EXCEPT ![p] = sends[p] + 1]
        /\ outgoing' = [outgoing EXCEPT ![p] = Append(outgoing[p], sends'[p])]
        /\ sends[p] < MaxSends
    BY <1>10 DEF Send
  <2>2. sends[p] \in 0..MaxSends
    BY DEF TypeOK
  <2>3. sends[p] + 1 \in 0..MaxSends /\ sends[p] + 1 \in 1..MaxSends
    BY ONLY <2>1, <2>2, MonitorAssumption
  <2>4. sends' \in [Ports -> 0..MaxSends] /\ sends'[p] = sends[p] + 1
    BY <2>1, <2>3 DEF TypeOK
  <2>5. Append(outgoing[p], sends'[p]) \in Seq(1..MaxSends)
    BY <2>3, <2>4, AppendProperties DEF TypeOK
  <2>6. outgoing' \in [Ports -> Seq(1..MaxSends)]
    BY <2>1, <2>5 DEF TypeOK
  <2> QED BY <1>10, <2>4, <2>6 DEF Send, TypeOK
<1>11. ASSUME NEW p \in Ports, Deliver(p) PROVE TypeOK'
  <2>1. CASE DeliverData(p)
    <3>1. /\ inbox' \in [Ports -> Seq(Signals)]
          /\ Head(inbox[p]).chunk \in 1..MaxChunks
      <4>1. Receive(p, "data")
        BY <2>1 DEF DeliverData
      <4> QED BY <4>1, ReceiveType, SignalProps
    <3>2. /\ Append(shown[p], Head(inbox[p]).chunk) \in Seq(1..MaxChunks)
          /\ Append(pending[p], Head(inbox[p]).chunk) \in Seq(1..MaxChunks)
      BY <3>1, AppendProperties DEF TypeOK
    <3>3. shown' \in [Ports -> Seq(1..MaxChunks)] /\ pending' \in [Ports -> Seq(1..MaxChunks)]
      <4>1. CASE paused[p]
        <5>1. pending' = [pending EXCEPT ![p] = Append(@, Head(inbox[p]).chunk)] /\ shown' = shown
          BY <2>1, <4>1 DEF DeliverData
        <5> QED BY ONLY TypeOK, <3>2, <5>1 DEF TypeOK
      <4>2. CASE ~paused[p]
        <5>1. shown' = [shown EXCEPT ![p] = Append(@, Head(inbox[p]).chunk)] /\ pending' = pending
          BY <2>1, <4>2 DEF DeliverData
        <5> QED BY ONLY TypeOK, <3>2, <5>1 DEF TypeOK
      <4> QED BY <4>1, <4>2
    <3>4. UNCHANGED <<windows, reader, button, paused, thread, running, chunks, outgoing,
                      taken, written, sends, stray, strayRuns, stopping, closing, com, busy>>
      BY <2>1 DEF DeliverData
    <3> QED BY <3>1, <3>3, <3>4 DEF TypeOK
  <2>2. CASE DeliverOpened(p)
    BY <2>2, ReceiveType DEF DeliverOpened, TypeOK
  <2>3. CASE DeliverError(p)
    BY <2>3, ReceiveType DEF DeliverError, TypeOK
  <2>4. CASE DeliverFinished(p)
    BY <2>4, ReceiveType DEF DeliverFinished, TypeOK
  <2> QED BY <1>11, <2>1, <2>2, <2>3, <2>4 DEF Deliver
<1>12. ASSUME NEW p \in Ports, OpenPort(p) PROVE TypeOK'
  <2>1. inbox' \in [Ports -> Seq(Signals)]
    BY <1>12, SignalProps, Posted, PostType DEF OpenPort, TypeOK
  <2> QED BY <1>12, <2>1 DEF OpenPort, TypeOK
<1>13. ASSUME NEW p \in Ports, StartLoop(p) PROVE TypeOK'
  <2>1. inbox' \in [Ports -> Seq(Signals)]
    BY <1>13, SignalProps, Posted, PostType DEF StartLoop
  <2> QED BY <1>13, <2>1 DEF StartLoop, TypeOK
<1>14. ASSUME NEW p \in Ports, Take(p) PROVE TypeOK'
  <2>1. <<>> \in Seq(1..MaxSends)
    OBVIOUS
  <2> QED BY <1>14, <2>1 DEF Take, TakeWrites, TypeOK
<1>15. ASSUME NEW p \in Ports, Write(p) PROVE TypeOK'
  <2>1. Head(taken[p]) \in 1..MaxSends /\ Tail(taken[p]) \in Seq(1..MaxSends)
    BY <1>15, HeadTailProperties DEF Write, InWrite, TypeOK
  <2>2. Append(written[p], Head(taken[p])) \in Seq(1..MaxSends)
    BY <2>1, AppendProperties DEF TypeOK
  <2> QED BY <1>15, <2>1, <2>2 DEF Write, InWrite, TypeOK
<1>16. ASSUME NEW p \in Ports, Read(p) PROVE TypeOK'
  <2>1. chunks' = [chunks EXCEPT ![p] = chunks[p] + 1] /\ chunks[p] < MaxChunks
    BY <1>16 DEF Read
  <2>2. chunks[p] \in 0..MaxChunks
    BY DEF TypeOK
  <2>3. chunks[p] + 1 \in 0..MaxChunks /\ chunks[p] + 1 \in 1..MaxChunks
    BY ONLY <2>1, <2>2, MonitorAssumption
  <2>4. chunks' \in [Ports -> 0..MaxChunks] /\ chunks'[p] = chunks[p] + 1
    BY <2>1, <2>3 DEF TypeOK
  <2>5. Data(chunks'[p]) \in Signals
    BY <2>3, <2>4, SignalProps
  <2>6. inbox' \in [Ports -> Seq(Signals)]
    BY <1>16, <2>5, Posted, PostType DEF Read
  <2> QED BY <1>16, <2>4, <2>6 DEF Read, TypeOK
<1>17. ASSUME NEW p \in Ports, LeaveLoop(p) PROVE TypeOK'
  <2>1. inbox' \in [Ports -> Seq(Signals)]
    BY <1>17, SignalProps, Posted, PostType DEF LeaveLoop
  <2> QED BY <1>17, <2>1 DEF LeaveLoop, TypeOK
<1>18. ASSUME NEW p \in Ports, StrayStep(p) PROVE TypeOK'
  <2>1. UNCHANGED <<windowVars, threadVars, stopVars, uploadVars>>
    BY <1>18 DEF StrayStep
  <2>2. /\ stray' \in [Ports -> {"none", "opening", "opened", "looping"}]
        /\ strayRuns' \in [Ports -> BOOLEAN]
    <3>1. CASE /\ \E s \in {"opened", "none"} : stray' = [stray EXCEPT ![p] = s]
               /\ UNCHANGED strayRuns
      BY <3>1 DEF TypeOK
    <3>2. CASE /\ stray' = [stray EXCEPT ![p] = "looping"]
               /\ strayRuns' = [strayRuns EXCEPT ![p] = TRUE]
      BY <3>2 DEF TypeOK
    <3>3. CASE /\ stray' = [stray EXCEPT ![p] = "none"]
               /\ strayRuns' = [strayRuns EXCEPT ![p] = FALSE]
      BY <3>3 DEF TypeOK
    <3> QED BY <1>18, <3>1, <3>2, <3>3 DEF StrayStep
  <2> QED BY <2>1, <2>2 DEF TypeOK
<1>19. ASSUME NEW devices \in SUBSET Devices, StartUpload(devices) PROVE TypeOK'
  BY <1>19 DEF StartUpload, TypeOK
<1>20. ASSUME NEW d \in Devices, EndUpload(d) PROVE TypeOK'
  BY <1>20 DEF EndUpload, TypeOK
<1>21. ASSUME NEW d \in Devices, NEW p \in Ports \cup {NoPort}, SetPort(d, p) PROVE TypeOK'
  BY <1>21 DEF SetPort, TypeOK
<1>22. CASE UNCHANGED vars
  BY <1>22 DEF vars, TypeOK
<1> QED
  BY <1>1, <1>2, <1>3, <1>5, <1>6, <1>7, <1>8, <1>9, <1>10, <1>11, <1>12, <1>13, <1>14,
     <1>15, <1>16, <1>17, <1>18, <1>19, <1>20, <1>21, <1>22 DEF Next

-----------------------------------------------------------------------------
(* What a step of one port leaves alone. *)

\* Nothing the invariant says about port p is disturbed.
LinkStays(p) ==
    /\ p \in windows => p \in windows'
    /\ reader'[p] = reader[p]
    /\ button'[p] = button[p]
    /\ thread'[p] = thread[p]
    /\ running'[p] = running[p]
    /\ inbox'[p] = inbox[p]

HeardStays(p) ==
    /\ shown'[p] = shown[p]
    /\ pending'[p] = pending[p]
    /\ inbox'[p] = inbox[p]
    /\ chunks'[p] = chunks[p]

SentStays(p) ==
    /\ outgoing'[p] = outgoing[p]
    /\ taken'[p] = taken[p]
    /\ written'[p] = written[p]
    /\ sends'[p] = sends[p]

PauseStays(p) == paused'[p] = paused[p] /\ pending'[p] = pending[p]

Stays(p) == LinkStays(p) /\ HeardStays(p) /\ SentStays(p) /\ PauseStays(p)

LEMMA StaysTrue ==
    ASSUME NEW p \in Ports
    PROVE  /\ Linked(p) /\ LinkStays(p) => Linked(p)'
           /\ Heard(p) /\ HeardStays(p) => Heard(p)'
           /\ Sent(p) /\ SentStays(p) => Sent(p)'
           /\ HeldByPause(p) /\ PauseStays(p) => HeldByPause(p)'
<1>1. Linked(p) /\ LinkStays(p) => Linked(p)'
  BY DEF Linked, LinkStays
<1>2. Heard(p) /\ HeardStays(p) => Heard(p)'
  BY DEF Heard, HeardStays
<1>3. Sent(p) /\ SentStays(p) => Sent(p)'
  BY DEF Sent, SentStays
<1>4. HeldByPause(p) /\ PauseStays(p) => HeldByPause(p)'
  BY DEF HeldByPause, PauseStays
<1> QED BY <1>1, <1>2, <1>3, <1>4

\* The steps of the window and the reader of port q.
PortStep(q) ==
    \/ OpenWindow(q) \/ Connect(q) \/ Disconnect(q) \/ CloseIdle(q) \/ CloseConnected(q)
    \/ PressPause(q) \/ Clear(q) \/ Send(q) \/ Deliver(q) \/ OpenPort(q) \/ StartLoop(q)
    \/ Take(q) \/ Write(q) \/ Read(q) \/ LeaveLoop(q)

LEMMA ForgetStays ==
    ASSUME TypeOK, NEW q, NEW p \in Ports, p # q, Forget(q)
    PROVE  Stays(p)
BY DEF TypeOK, Forget, Stays, LinkStays, HeardStays, SentStays, PauseStays

LEMMA OthersStay ==
    ASSUME TypeOK, NEW q \in Ports, PortStep(q), NEW p \in Ports, p # q
    PROVE  Stays(p)
<1> USE DEF windowVars, threadVars, Stays, LinkStays, HeardStays, SentStays, PauseStays
<1>1. CASE OpenWindow(q)
  BY <1>1 DEF OpenWindow, TypeOK
<1>2. CASE Connect(q)
  BY <1>2 DEF Connect, TypeOK
<1>3. CASE Disconnect(q)
  BY <1>3 DEF Disconnect, TypeOK
<1>4. CASE CloseIdle(q)
  BY <1>4, ForgetStays DEF CloseIdle
<1>5. CASE CloseConnected(q)
  BY <1>5 DEF CloseConnected, TypeOK
<1>6. CASE PressPause(q)
  BY <1>6 DEF PressPause, TogglePause, TypeOK
<1>7. CASE Clear(q)
  BY <1>7 DEF Clear, TypeOK
<1>8. CASE Send(q)
  BY <1>8 DEF Send, TypeOK
<1>9. CASE Deliver(q)
  <2>1. CASE DeliverData(q)
    <3>1. shown'[p] = shown[p] /\ pending'[p] = pending[p]
      BY <2>1 DEF DeliverData, TypeOK
    <3> QED BY <2>1, <3>1 DEF DeliverData, Receive, TypeOK
  <2>2. CASE DeliverOpened(q)
    BY <2>2 DEF DeliverOpened, Receive, TypeOK
  <2>3. CASE DeliverError(q)
    BY <2>3 DEF DeliverError, Receive, TypeOK
  <2>4. CASE DeliverFinished(q)
    BY <2>4 DEF DeliverFinished, Receive, TypeOK
  <2> QED BY <1>9, <2>1, <2>2, <2>3, <2>4 DEF Deliver
<1>10. CASE OpenPort(q)
  BY <1>10 DEF OpenPort, Post, TypeOK
<1>11. CASE StartLoop(q)
  BY <1>11 DEF StartLoop, Post, TypeOK
<1>12. CASE Take(q)
  BY <1>12 DEF Take, TakeWrites, TypeOK
<1>13. CASE Write(q)
  BY <1>13 DEF Write, InWrite, TypeOK
<1>14. CASE Read(q)
  BY <1>14 DEF Read, Post, TypeOK
<1>15. CASE LeaveLoop(q)
  BY <1>15 DEF LeaveLoop, Post, TypeOK
<1> QED
  BY <1>1, <1>2, <1>3, <1>4, <1>5, <1>6, <1>7, <1>8, <1>9, <1>10, <1>11, <1>12, <1>13, <1>14,
     <1>15 DEF PortStep

\* A window that goes leaves nothing behind that the invariant speaks of.
LEMMA Forgotten ==
    ASSUME TypeOK, NEW p \in Ports, Forget(p)
    PROVE  PortInv(p)'
<1>1. /\ reader'[p] = FALSE /\ button'[p] = "Connect" /\ paused'[p] = FALSE
      /\ shown'[p] = <<>> /\ pending'[p] = <<>> /\ thread'[p] = "none"
      /\ running'[p] = FALSE /\ inbox'[p] = <<>> /\ chunks'[p] = 0
      /\ outgoing'[p] = <<>> /\ taken'[p] = <<>> /\ written'[p] = <<>> /\ sends'[p] = 0
  BY DEF Forget, TypeOK
<1>2. Linked(p)'
  <2>1. Len(<<>>) = 0 /\ 1..0 = {}
    BY EmptySeq
  <2> QED BY <1>1, <2>1 DEF Linked
<1>3. Heard(p)'
  <2>1. 0 \in 0..chunks'[p]
    BY <1>1
  <2>2. EndsAt(shown'[p] \o pending'[p], 0)
    BY <1>1, EndsEmpty
  <2>3. DataIs(inbox'[p], 0 + 1, chunks'[p])
    BY <1>1, NoData
  <2> QED BY <2>1, <2>2, <2>3 DEF Heard
<1>4. Sent(p)'
  BY <1>1, NoNumbers DEF Sent
<1>5. HeldByPause(p)'
  BY <1>1 DEF HeldByPause
<1> QED BY <1>2, <1>3, <1>4, <1>5 DEF PortInv

-----------------------------------------------------------------------------
(* Windows, buttons and readers. *)

\* finished is posted once and last.
LEMMA PostLast ==
    ASSUME NEW q \in Seq(Signals), NEW t \in Seq(Signals),
           \A i \in 1..Len(q) : q[i].kind # "finished"
    PROVE  /\ (\A i \in 1..Len(t) : t[i].kind = "finished" => i = Len(t)) =>
                 \A i \in 1..Len(q \o t) :
                    (q \o t)[i].kind = "finished" => i = Len(q \o t)
           /\ (\A i \in 1..Len(t) : t[i].kind # "finished") =>
                 \A i \in 1..Len(q \o t) : (q \o t)[i].kind # "finished"
<1> DEFINE c == q \o t
<1>1. /\ Len(q) \in Nat /\ Len(t) \in Nat /\ Len(c) = Len(q) + Len(t)
      /\ \A i \in 1..(Len(q) + Len(t)) : c[i] = IF i <= Len(q) THEN q[i] ELSE t[i - Len(q)]
  BY ConcatProperties, LenProperties
<1> HIDE DEF c
<1>2. ASSUME NEW i \in 1..Len(c), c[i].kind = "finished"
      PROVE  i - Len(q) \in 1..Len(t) /\ t[i - Len(q)].kind = "finished"
  <2>1. i \in 1..(Len(q) + Len(t))
    BY <1>1
  <2>2. ~(i <= Len(q))
    <3>1. i <= Len(q) => i \in 1..Len(q)
      BY ONLY <1>1, <2>1
    <3> QED BY <1>1, <1>2, <2>1, <3>1
  <2>3. i - Len(q) \in 1..Len(t)
    BY ONLY <1>1, <2>1, <2>2
  <2> QED BY <1>1, <1>2, <2>1, <2>2, <2>3
<1>3. ASSUME \A i \in 1..Len(t) : t[i].kind = "finished" => i = Len(t),
             NEW i \in 1..Len(c), c[i].kind = "finished"
      PROVE  i = Len(c)
  <2>1. i - Len(q) = Len(t)
    BY <1>2, <1>3
  <2>2. i \in 1..(Len(q) + Len(t))
    BY <1>1
  <2> QED BY ONLY <1>1, <2>1, <2>2
<1>4. ASSUME \A i \in 1..Len(t) : t[i].kind # "finished",
             NEW i \in 1..Len(c)
      PROVE  c[i].kind # "finished"
  BY <1>2, <1>4
<1> QED BY <1>3, <1>4 DEF c

LEMMA TailLast ==
    ASSUME NEW q \in Seq(Signals), q # <<>>,
           \A i \in 1..Len(q) : q[i].kind = "finished" => i = Len(q)
    PROVE  /\ \A i \in 1..Len(Tail(q)) : Tail(q)[i].kind = "finished" => i = Len(Tail(q))
           /\ (\A i \in 1..Len(q) : q[i].kind # "finished") =>
                 \A i \in 1..Len(Tail(q)) : Tail(q)[i].kind # "finished"
           /\ Head(q).kind = "finished" => Tail(q) = <<>> /\ q[1].kind = "finished"
                                              /\ 1 \in 1..Len(q)
<1> DEFINE t == Tail(q)
           n == Len(q)
<1>1. /\ n \in Nat \ {0} /\ Head(q) = q[1] /\ t \in Seq(Signals) /\ Len(t) = n - 1
      /\ \A i \in 1..(n - 1) : t[i] = q[i + 1]
  BY HeadTailProperties, EmptySeq, LenProperties
<1> HIDE DEF t, n
<1>2. \A i \in 1..(n - 1) : i + 1 \in 1..n /\ (i + 1 = n => i = n - 1)
  BY ONLY <1>1
<1>3. \A i \in 1..n : q[i].kind = "finished" => i = n
  BY DEF n
<1>4. \A i \in 1..Len(t) : t[i].kind = "finished" => i = Len(t)
  BY <1>1, <1>2, <1>3
<1>5. (\A i \in 1..n : q[i].kind # "finished") => \A i \in 1..Len(t) : t[i].kind # "finished"
  BY <1>1, <1>2
<1>6. ASSUME Head(q).kind = "finished" PROVE t = <<>> /\ q[1].kind = "finished" /\ 1 \in 1..n
  <2>1. 1 \in 1..n
    BY ONLY <1>1
  <2>2. n = 1
    BY <1>1, <1>3, <1>6, <2>1
  <2>3. Len(t) = 0
    BY ONLY <1>1, <2>2
  <2> QED BY <1>1, <1>6, <2>1, <2>3, EmptySeq
<1> QED BY <1>4, <1>5, <1>6 DEF t, n

LEMMA LinkedStep ==
    ASSUME TypeOK, NEW p \in Ports, Linked(p), PortStep(p)
    PROVE  Linked(p)'
<1> USE DEF windowVars, threadVars, LinkStays
<1> DEFINE q == inbox[p]
<1>q. q \in Seq(Signals) /\ \A i \in 1..Len(q) : q[i].kind = "finished" => i = Len(q)
  BY DEF TypeOK, Linked
<1>e. \A s : s = <<>> => 1..Len(s) = {}
  BY EmptySeq
<1>a. CASE LinkStays(p)
  BY <1>a, StaysTrue
<1>1. CASE OpenWindow(p)
  BY <1>1, <1>a DEF OpenWindow
<1>2. CASE Connect(p)
  <2>1. /\ p \in windows' /\ reader'[p] = TRUE /\ button'[p] = "Connecting"
        /\ thread'[p] = "opening" /\ running'[p] = FALSE /\ inbox'[p] = inbox[p]
    BY <1>2 DEF Connect, ConnectLabel, TypeOK
  <2>2. inbox[p] = <<>>
    BY <1>2 DEF Connect, Linked
  <2> QED BY <1>e, <2>1, <2>2 DEF Linked
<1>3. CASE Disconnect(p)
  <2>1. /\ p \in windows' /\ reader'[p] = reader[p] /\ button'[p] = "Disconnecting"
        /\ thread'[p] = thread[p] /\ running'[p] = FALSE /\ inbox'[p] = inbox[p]
        /\ button[p] = "Disconnect"
    BY <1>3 DEF Disconnect, TypeOK
  <2> QED BY <2>1 DEF Linked
<1>4. CASE CloseIdle(p)
  BY <1>4, Forgotten DEF CloseIdle, PortInv
<1>5. CASE CloseConnected(p)
  <2>1. /\ p \in windows' /\ reader'[p] = reader[p] /\ button'[p] = button[p]
        /\ thread'[p] = thread[p] /\ running'[p] = FALSE /\ inbox'[p] = inbox[p]
    BY <1>5 DEF CloseConnected, TypeOK
  <2> QED BY <2>1 DEF Linked
<1>6. CASE PressPause(p)
  BY <1>6, <1>a DEF PressPause
<1>7. CASE Clear(p)
  BY <1>7, <1>a DEF Clear
<1>8. CASE Send(p)
  BY <1>8, <1>a DEF Send
<1>9. CASE Deliver(p)
  <2>1. ASSUME NEW kind, Receive(p, kind)
        PROVE  /\ inbox'[p] = Tail(q) /\ q # <<>> /\ Head(q).kind = kind
               /\ thread[p] \in {"looping", "ended"}
               /\ \A i \in 1..Len(Tail(q)) :
                     Tail(q)[i].kind = "finished" => i = Len(Tail(q)) /\ thread[p] = "ended"
    <3>1. inbox'[p] = Tail(q) /\ q # <<>> /\ Head(q).kind = kind
      BY <2>1, ReceiveType
    <3>2. thread[p] \in {"looping", "ended"}
      BY <3>1 DEF Linked, TypeOK
    <3>3. \A i \in 1..Len(Tail(q)) : Tail(q)[i].kind = "finished" => i = Len(Tail(q))
      BY <1>q, <3>1, TailLast
    <3>4. thread[p] # "ended" => \A i \in 1..Len(Tail(q)) : Tail(q)[i].kind # "finished"
      BY <1>q, <3>1, TailLast DEF Linked
    <3> QED BY <3>1, <3>2, <3>3, <3>4
  <2> HIDE DEF q
  <2>2. CASE DeliverData(p) \/ DeliverError(p)
    <3>1. \E kind : Receive(p, kind)
      BY <2>2 DEF DeliverData, DeliverError
    <3>2. UNCHANGED <<windows, reader, button, thread, running>>
      BY <2>2 DEF DeliverData, DeliverError
    <3> QED BY <2>1, <3>1, <3>2 DEF Linked
  <2>3. CASE DeliverOpened(p)
    <3>1. Receive(p, "opened")
      BY <2>3 DEF DeliverOpened
    <3>2. UNCHANGED <<windows, reader, thread, running>> /\ button'[p] = "Disconnect"
      BY <2>3 DEF DeliverOpened, TypeOK
    <3> QED BY <2>1, <3>1, <3>2 DEF Linked
  <2>4. CASE DeliverFinished(p)
    <3>1. Receive(p, "finished")
      BY <2>4 DEF DeliverFinished
    <3>2. /\ windows' = windows /\ reader'[p] = FALSE /\ button'[p] = "Connect"
          /\ thread'[p] = "none" /\ running' = running
      BY <2>4 DEF DeliverFinished, TypeOK
    <3>3. inbox'[p] = <<>>
      BY <1>q, <2>1, <3>1, TailLast DEF q
    <3> QED BY <1>e, <3>2, <3>3 DEF Linked
  <2> QED BY <1>9, <2>2, <2>3, <2>4 DEF Deliver
<1>10. CASE OpenPort(p)
  <2>1. /\ windows' = windows /\ reader' = reader /\ button' = button /\ running' = running
        /\ thread[p] = "opening"
    BY <1>10 DEF OpenPort
  <2>2. CASE thread'[p] = "opened" /\ inbox' = inbox
    BY <2>1, <2>2 DEF Linked
  <2>3. CASE thread'[p] = "ended" /\ Post(p, <<Signal("error"), Signal("finished")>>)
    <3>1. \A i \in 1..Len(inbox'[p]) : inbox'[p][i].kind = "finished" => i = Len(inbox'[p])
      <4> DEFINE t == <<Signal("error"), Signal("finished")>>
      <4>1. t \in Seq(Signals) /\ Len(t) = 2 /\ t[1].kind = "error"
        BY SignalProps, Posted
      <4>2. inbox'[p] = q \o t
        BY <2>3, <4>1, PostType
      <4> HIDE DEF t
      <4>3. \A i \in 1..Len(t) : t[i].kind = "finished" => i = Len(t)
        BY <4>1
      <4>4. \A i \in 1..Len(q) : q[i].kind # "finished"
        BY <2>1 DEF Linked
      <4> QED BY <1>q, <4>1, <4>2, <4>3, <4>4, PostLast
    <3> QED BY <2>1, <2>3, <3>1 DEF Linked
  <2> QED BY <1>10, <2>2, <2>3 DEF OpenPort, TypeOK
<1>11. CASE StartLoop(p)
  <2>1. /\ windows' = windows /\ reader' = reader /\ button' = button /\ running'[p] = TRUE
        /\ thread[p] = "opened" /\ thread'[p] = "looping"
    BY <1>11 DEF StartLoop, TypeOK
  <2>2. \A i \in 1..Len(inbox'[p]) : inbox'[p][i].kind # "finished"
    <3> DEFINE t == <<Signal("opened")>>
    <3>1. t \in Seq(Signals) /\ Len(t) = 1 /\ t[1].kind = "opened"
      BY SignalProps, Posted
    <3>2. inbox'[p] = q \o t
      BY <1>11, <3>1, PostType DEF StartLoop
    <3> HIDE DEF t
    <3>3. \A i \in 1..Len(t) : t[i].kind # "finished"
      BY <3>1
    <3>4. \A i \in 1..Len(q) : q[i].kind # "finished"
      BY <2>1 DEF Linked
    <3> QED BY <1>q, <3>1, <3>2, <3>3, <3>4, PostLast
  <2> QED BY <2>1, <2>2 DEF Linked
<1>12. CASE Take(p)
  BY <1>12, <1>a DEF Take
<1>13. CASE Write(p)
  BY <1>13, <1>a DEF Write, InWrite
<1>14. CASE Read(p)
  <2>1. UNCHANGED <<windows, reader, button, thread, running>> /\ thread[p] = "looping"
    BY <1>14 DEF Read
  <2>2. \A i \in 1..Len(inbox'[p]) : inbox'[p][i].kind # "finished"
    <3> DEFINE t == <<Data(chunks[p] + 1)>>
    <3>0. chunks'[p] = chunks[p] + 1 /\ Post(p, t)
      BY <1>14 DEF Read, TypeOK
    <3>5. chunks[p] + 1 \in 1..MaxChunks
      <4>1. chunks[p] \in 0..MaxChunks /\ chunks[p] < MaxChunks
        BY <1>14 DEF Read, TypeOK
      <4> QED BY ONLY <4>1, MonitorAssumption DEF MonitorAssumption
    <3>1. t \in Seq(Signals) /\ Len(t) = 1 /\ t[1].kind = "data"
      BY <3>5, SignalProps, Posted
    <3>2. inbox'[p] = q \o t
      BY <3>0, <3>1, PostType
    <3> HIDE DEF t
    <3>3. \A i \in 1..Len(t) : t[i].kind # "finished"
      BY <3>1
    <3>4. \A i \in 1..Len(q) : q[i].kind # "finished"
      BY <2>1 DEF Linked
    <3> QED BY <1>q, <3>1, <3>2, <3>3, <3>4, PostLast
  <2> QED BY <2>1, <2>2 DEF Linked
<1>15. CASE LeaveLoop(p)
  <2>1. /\ windows' = windows /\ reader' = reader /\ button' = button /\ running' = running
        /\ thread[p] = "looping" /\ thread'[p] = "ended"
    BY <1>15 DEF LeaveLoop, TypeOK
  <2>2. \A i \in 1..Len(q) : q[i].kind # "finished"
    BY <2>1 DEF Linked
  <2>3. ASSUME NEW t \in Seq(Signals), Post(p, t),
               \A i \in 1..Len(t) : t[i].kind = "finished" => i = Len(t)
        PROVE  Linked(p)'
    <3>1. inbox'[p] = q \o t
      BY <2>3, PostType
    <3>2. \A i \in 1..Len(inbox'[p]) : inbox'[p][i].kind = "finished" => i = Len(inbox'[p])
      BY <1>q, <2>2, <2>3, <3>1, PostLast
    <3> QED BY <2>1, <3>2 DEF Linked
  <2>4. CASE Post(p, <<Signal("finished")>>)
    <3> DEFINE t == <<Signal("finished")>>
    <3>1. t \in Seq(Signals) /\ Len(t) = 1
      BY SignalProps, Posted
    <3>2. Post(p, t)
      BY <2>4
    <3> HIDE DEF t
    <3>3. \A i \in 1..Len(t) : t[i].kind = "finished" => i = Len(t)
      BY <3>1
    <3> QED BY <2>3, <3>1, <3>2, <3>3
  <2>5. CASE Post(p, <<Signal("error"), Signal("finished")>>)
    <3> DEFINE t == <<Signal("error"), Signal("finished")>>
    <3>1. t \in Seq(Signals) /\ Len(t) = 2 /\ t[1].kind = "error"
      BY SignalProps, Posted
    <3>2. Post(p, t)
      BY <2>5
    <3> HIDE DEF t
    <3>3. \A i \in 1..Len(t) : t[i].kind = "finished" => i = Len(t)
      BY <3>1
    <3> QED BY <2>3, <3>1, <3>2, <3>3
  <2> QED BY <1>15, <2>4, <2>5 DEF LeaveLoop
<1> QED
  BY <1>1, <1>2, <1>3, <1>4, <1>5, <1>6, <1>7, <1>8, <1>9, <1>10, <1>11, <1>12, <1>13, <1>14,
     <1>15 DEF PortStep

-----------------------------------------------------------------------------
(* Data. *)

LEMMA HeardStep ==
    ASSUME TypeOK, NEW p \in Ports, Heard(p), HeldByPause(p), PortStep(p)
    PROVE  Heard(p)' /\ HeldByPause(p)'
<1> USE DEF windowVars, threadVars
<1> DEFINE q == inbox[p]
           top == chunks[p]
<1>q. /\ q \in Seq(Signals) /\ shown[p] \in Seq(1..MaxChunks) /\ pending[p] \in Seq(1..MaxChunks)
      /\ top \in Nat /\ top <= MaxChunks /\ MaxChunks \in Nat
  BY MonitorAssumption DEF TypeOK
<1>0. PICK heard \in 0..top :
         /\ EndsAt(shown[p] \o pending[p], heard)
         /\ DataIs(q, heard + 1, top)
  BY DEF Heard
<1>h. heard \in Nat /\ heard + 1 \in Nat /\ heard <= top
  BY ONLY <1>q, <1>0
<1> HIDE DEF q, top
<1>a. CASE UNCHANGED <<shown, pending, paused, inbox, chunks>>
  BY <1>a, StaysTrue DEF HeardStays, PauseStays
<1>b. ASSUME UNCHANGED <<shown, pending, paused, chunks>>, DataIs(inbox'[p], heard + 1, top)
      PROVE  Heard(p)' /\ HeldByPause(p)'
  BY <1>0, <1>b DEF Heard, HeldByPause, top
<1>c. ASSUME UNCHANGED <<shown, pending, paused, chunks>>, NEW t \in Seq(Signals), Post(p, t),
             \A i \in 1..Len(t) : t[i].kind # "data"
      PROVE  Heard(p)' /\ HeldByPause(p)'
  <2>1. inbox'[p] = q \o t
    BY <1>c, PostType DEF q
  <2>2. DataIs(q \o t, heard + 1, top)
    BY <1>q, <1>0, <1>c, DataQuiet
  <2> QED BY <1>b, <1>c, <2>1, <2>2
<1>d. ASSUME UNCHANGED <<shown, pending, paused, chunks>>, NEW kind, kind # "data",
             Receive(p, kind)
      PROVE  Heard(p)' /\ HeldByPause(p)'
  <2>1. inbox'[p] = Tail(q) /\ q # <<>> /\ Head(q).kind # "data"
    BY <1>d, ReceiveType DEF q
  <2>2. DataIs(Tail(q), heard + 1, top)
    BY <1>q, <1>0, <1>h, <2>1, DataHead
  <2> QED BY <1>b, <1>d, <2>1, <2>2
<1>1. CASE OpenWindow(p)
  BY <1>1, <1>a DEF OpenWindow
<1>2. CASE Connect(p)
  BY <1>2, <1>a DEF Connect
<1>3. CASE Disconnect(p)
  BY <1>3, <1>a DEF Disconnect
<1>4. CASE CloseIdle(p)
  BY <1>4, Forgotten DEF CloseIdle, PortInv
<1>5. CASE CloseConnected(p)
  BY <1>5, <1>a DEF CloseConnected
<1>6. CASE PressPause(p)
  <2>1. /\ inbox' = inbox /\ chunks' = chunks
        /\ paused'[p] = ~paused[p]
        /\ shown'[p] = IF paused[p] THEN shown[p] \o pending[p] ELSE shown[p]
        /\ pending'[p] = IF paused[p] THEN <<>> ELSE pending[p]
    BY <1>6 DEF PressPause, TogglePause, TypeOK
  <2>2. shown'[p] \o pending'[p] = shown[p] \o pending[p]
    <3>1. CASE paused[p]
      <4>1. shown[p] \o pending[p] \in Seq(1..MaxChunks)
        BY <1>q, ConcatProperties
      <4> QED BY <2>1, <3>1, <4>1, ConcatEmptySeq
    <3>2. CASE ~paused[p]
      BY <2>1, <3>2
    <3> QED BY <3>1, <3>2
  <2>3. Heard(p)'
    BY <1>0, <2>1, <2>2 DEF Heard, q, top
  <2>4. HeldByPause(p)'
    <3>1. CASE paused[p]
      BY <2>1, <3>1 DEF HeldByPause
    <3>2. CASE ~paused[p]
      BY <2>1, <3>2 DEF HeldByPause
    <3> QED BY <3>1, <3>2
  <2> QED BY <2>3, <2>4
<1>7. CASE Clear(p)
  <2>1. /\ inbox' = inbox /\ chunks' = chunks /\ paused' = paused /\ pending' = pending
        /\ shown'[p] = <<>>
    BY <1>7 DEF Clear, TypeOK
  <2>2. EndsAt(pending[p], heard)
    BY <1>q, <1>0, <1>h, EndsSuffix
  <2>3. <<>> \o pending[p] = pending[p]
    BY <1>q, ConcatEmptySeq
  <2>4. EndsAt(shown'[p] \o pending'[p], heard)
    BY <2>1, <2>2, <2>3
  <2>5. Heard(p)'
    BY <1>0, <2>1, <2>4 DEF Heard, q, top
  <2> QED BY <2>1, <2>5 DEF HeldByPause
<1>8. CASE Send(p)
  BY <1>8, <1>a DEF Send
<1>9. CASE Deliver(p)
  <2>1. CASE DeliverData(p)
    <3>1. Receive(p, "data") /\ paused' = paused /\ chunks' = chunks
      BY <2>1 DEF DeliverData
    <3> DEFINE n == heard + 1
    <3>2. inbox'[p] = Tail(q) /\ q # <<>> /\ Head(q).kind = "data"
      BY <3>1, ReceiveType DEF q
    <3>3. Head(q).chunk = n /\ n <= top /\ DataIs(Tail(q), n + 1, top)
      BY <1>q, <1>0, <1>h, <3>2, DataHead
    <3>4. n \in 0..top /\ n \in 1..MaxChunks
      BY ONLY <1>q, <1>h, <3>3
    <3>5. /\ EndsAt(shown[p] \o Append(pending[p], n), n)
          /\ pending[p] = <<>> => EndsAt(Append(shown[p], n) \o pending[p], n)
      BY <1>q, <1>0, <1>h, <3>4, EndsGrow
    <3> HIDE DEF n
    <3>6. EndsAt(shown'[p] \o pending'[p], n) /\ (~paused[p] => pending'[p] = <<>>)
      <4>1. CASE paused[p]
        <5>1. pending'[p] = Append(pending[p], n) /\ shown' = shown
          BY <2>1, <3>3, <4>1 DEF DeliverData, TypeOK, q
        <5> QED BY <3>5, <4>1, <5>1
      <4>2. CASE ~paused[p]
        <5>1. shown'[p] = Append(shown[p], n) /\ pending' = pending
          BY <2>1, <3>3, <4>2 DEF DeliverData, TypeOK, q
        <5>2. pending[p] = <<>>
          BY <4>2 DEF HeldByPause
        <5> QED BY <3>5, <5>1, <5>2
      <4> QED BY <4>1, <4>2
    <3>7. Heard(p)'
      BY <3>1, <3>2, <3>3, <3>4, <3>6 DEF Heard, top
    <3> QED BY <3>1, <3>6, <3>7 DEF HeldByPause
  <2>2. CASE DeliverOpened(p)
    BY <2>2, <1>d DEF DeliverOpened
  <2>3. CASE DeliverError(p)
    BY <2>3, <1>d DEF DeliverError
  <2>4. CASE DeliverFinished(p)
    BY <2>4, <1>d DEF DeliverFinished
  <2> QED BY <1>9, <2>1, <2>2, <2>3, <2>4 DEF Deliver
<1>10. CASE OpenPort(p)
  <2>1. UNCHANGED <<shown, pending, paused, chunks>>
    BY <1>10 DEF OpenPort
  <2>2. CASE UNCHANGED inbox
    BY <1>a, <2>1, <2>2
  <2>3. CASE Post(p, <<Signal("error"), Signal("finished")>>)
    <3> DEFINE t == <<Signal("error"), Signal("finished")>>
    <3>1. t \in Seq(Signals) /\ Len(t) = 2 /\ t[1].kind = "error" /\ t[2].kind = "finished"
      BY SignalProps, Posted
    <3>2. Post(p, t)
      BY <2>3
    <3> HIDE DEF t
    <3>3. \A i \in 1..Len(t) : t[i].kind # "data"
      BY <3>1
    <3> QED BY <1>c, <2>1, <3>1, <3>2, <3>3
  <2> QED BY <1>10, <2>2, <2>3 DEF OpenPort
<1>11. CASE StartLoop(p)
  <2> DEFINE t == <<Signal("opened")>>
  <2>1. UNCHANGED <<shown, pending, paused, chunks>> /\ Post(p, t)
    BY <1>11 DEF StartLoop
  <2>2. t \in Seq(Signals) /\ Len(t) = 1 /\ t[1].kind = "opened"
    BY SignalProps, Posted
  <2> HIDE DEF t
  <2>3. \A i \in 1..Len(t) : t[i].kind # "data"
    BY <2>2
  <2> QED BY <1>c, <2>1, <2>2, <2>3
<1>12. CASE Take(p)
  BY <1>12, <1>a DEF Take
<1>13. CASE Write(p)
  BY <1>13, <1>a DEF Write, InWrite
<1>14. CASE Read(p)
  <2> DEFINE t == <<Data(top + 1)>>
  <2>1. UNCHANGED <<shown, pending, paused>> /\ chunks'[p] = top + 1 /\ top < MaxChunks
    BY <1>14 DEF Read, TypeOK, top
  <2>2. Post(p, t)
    BY <1>14, <2>1 DEF Read
  <2>3. top + 1 \in 1..MaxChunks /\ heard + 1 <= top + 1 /\ heard \in 0..(top + 1)
    BY ONLY <1>q, <1>h, <2>1
  <2>4. t \in Seq(Signals)
    BY <2>3, SignalProps
  <2>5. inbox'[p] = q \o t
    BY <2>2, <2>4, PostType DEF q
  <2>6. DataIs(q \o t, heard + 1, top + 1)
    BY <1>q, <1>0, <1>h, <2>3, DataMore
  <2> HIDE DEF t
  <2>7. Heard(p)'
    BY <1>0, <2>1, <2>3, <2>5, <2>6 DEF Heard
  <2> QED BY <2>1, <2>7 DEF HeldByPause
<1>15. CASE LeaveLoop(p)
  <2>1. UNCHANGED <<shown, pending, paused, chunks>>
    BY <1>15 DEF LeaveLoop
  <2>2. CASE Post(p, <<Signal("finished")>>)
    <3> DEFINE t == <<Signal("finished")>>
    <3>1. t \in Seq(Signals) /\ Len(t) = 1 /\ t[1].kind = "finished"
      BY SignalProps, Posted
    <3>2. Post(p, t)
      BY <2>2
    <3> HIDE DEF t
    <3>3. \A i \in 1..Len(t) : t[i].kind # "data"
      BY <3>1
    <3> QED BY <1>c, <2>1, <3>1, <3>2, <3>3
  <2>3. CASE Post(p, <<Signal("error"), Signal("finished")>>)
    <3> DEFINE t == <<Signal("error"), Signal("finished")>>
    <3>1. t \in Seq(Signals) /\ Len(t) = 2 /\ t[1].kind = "error" /\ t[2].kind = "finished"
      BY SignalProps, Posted
    <3>2. Post(p, t)
      BY <2>3
    <3> HIDE DEF t
    <3>3. \A i \in 1..Len(t) : t[i].kind # "data"
      BY <3>1
    <3> QED BY <1>c, <2>1, <3>1, <3>2, <3>3
  <2> QED BY <1>15, <2>2, <2>3 DEF LeaveLoop
<1> QED
  BY <1>1, <1>2, <1>3, <1>4, <1>5, <1>6, <1>7, <1>8, <1>9, <1>10, <1>11, <1>12, <1>13, <1>14,
     <1>15 DEF PortStep

-----------------------------------------------------------------------------
(* What is sent. *)

\* One more text is sent.
LEMMA SendGrows ==
    ASSUME NEW w \in Seq(1..MaxSends), NEW t \in Seq(1..MaxSends), NEW o \in Seq(1..MaxSends),
           NEW k \in Nat, k + 1 \in 1..MaxSends, w \o t \o o = Numbers(k)
    PROVE  w \o t \o Append(o, k + 1) = Numbers(k + 1)
<1> DEFINE c == w \o t
           n == k + 1
<1>1. c \in Seq(1..MaxSends) /\ n \in 1..MaxSends
  BY ConcatProperties
<1>2. Append(c \o o, n) = Numbers(n)
  BY NextNumber
<1> HIDE DEF c, n
<1>3. c \o Append(o, n) = Append(c \o o, n)
  BY <1>1, ConcatAppend
<1> QED BY <1>2, <1>3 DEF c, n

LEMMA SentStep ==
    ASSUME TypeOK, NEW p \in Ports, Sent(p), PortStep(p)
    PROVE  Sent(p)'
<1> USE DEF windowVars, threadVars
<1>q. /\ written[p] \in Seq(1..MaxSends) /\ taken[p] \in Seq(1..MaxSends)
      /\ outgoing[p] \in Seq(1..MaxSends) /\ sends[p] \in 0..MaxSends
      /\ written[p] \o taken[p] \o outgoing[p] = Numbers(sends[p])
  BY DEF TypeOK, Sent
<1>a. CASE UNCHANGED <<outgoing, taken, written, sends>>
  BY <1>a, StaysTrue DEF SentStays
<1>1. CASE OpenWindow(p)
  BY <1>1, <1>a DEF OpenWindow
<1>2. CASE Connect(p)
  <2>1. /\ outgoing'[p] = <<>> /\ taken'[p] = <<>> /\ written'[p] = <<>> /\ sends'[p] = 0
    BY <1>2 DEF Connect, TypeOK
  <2> QED BY <2>1, NoNumbers DEF Sent
<1>3. CASE Disconnect(p)
  BY <1>3, <1>a DEF Disconnect
<1>4. CASE CloseIdle(p)
  BY <1>4, Forgotten DEF CloseIdle, PortInv
<1>5. CASE CloseConnected(p)
  BY <1>5, <1>a DEF CloseConnected
<1>6. CASE PressPause(p)
  BY <1>6, <1>a DEF PressPause
<1>7. CASE Clear(p)
  BY <1>7, <1>a DEF Clear
<1>8. CASE Send(p)
  <2>1. /\ sends'[p] = sends[p] + 1 /\ sends[p] < MaxSends
        /\ outgoing'[p] = Append(outgoing[p], sends[p] + 1)
        /\ written' = written /\ taken' = taken
    BY <1>8 DEF Send, TypeOK
  <2>2. sends[p] \in Nat /\ sends[p] + 1 \in 1..MaxSends
    BY ONLY <1>q, <2>1, MonitorAssumption DEF MonitorAssumption
  <2>3. written[p] \o taken[p] \o Append(outgoing[p], sends[p] + 1) = Numbers(sends[p] + 1)
    BY <1>q, <2>2, SendGrows
  <2> QED BY <2>1, <2>3 DEF Sent
<1>9. CASE Deliver(p)
  BY <1>9, <1>a
  DEF Deliver, DeliverData, DeliverOpened, DeliverError, DeliverFinished
<1>10. CASE OpenPort(p)
  BY <1>10, <1>a DEF OpenPort
<1>11. CASE StartLoop(p)
  BY <1>11, <1>a DEF StartLoop
<1>12. CASE Take(p)
  <2>1. /\ taken[p] = <<>> /\ taken'[p] = outgoing[p] /\ outgoing'[p] = <<>>
        /\ written' = written /\ sends' = sends
    BY <1>12 DEF Take, TakeWrites, TypeOK
  <2>2. /\ written[p] \o <<>> = written[p]
        /\ (written[p] \o outgoing[p]) \o <<>> = written[p] \o outgoing[p]
    <3>1. written[p] \o outgoing[p] \in Seq(1..MaxSends)
      BY <1>q, ConcatProperties
    <3> QED BY <1>q, <3>1, ConcatEmptySeq
  <2> QED BY <1>q, <2>1, <2>2 DEF Sent
<1>13. CASE Write(p)
  <2>1. /\ taken[p] # <<>>
        /\ written'[p] = Append(written[p], Head(taken[p])) /\ taken'[p] = Tail(taken[p])
        /\ outgoing' = outgoing /\ sends' = sends
    BY <1>13 DEF Write, InWrite, TypeOK
  <2>2. Append(written[p], Head(taken[p])) \o Tail(taken[p]) = written[p] \o taken[p]
    BY <1>q, <2>1, HeadMoves
  <2> QED BY <1>q, <2>1, <2>2 DEF Sent
<1>14. CASE Read(p)
  BY <1>14, <1>a DEF Read
<1>15. CASE LeaveLoop(p)
  BY <1>15, <1>a DEF LeaveLoop
<1> QED
  BY <1>1, <1>2, <1>3, <1>4, <1>5, <1>6, <1>7, <1>8, <1>9, <1>10, <1>11, <1>12, <1>13, <1>14,
     <1>15 DEF PortStep

-----------------------------------------------------------------------------
(* The invariant. *)

LEMMA MonitorInit == Init => MonitorInv
<1> SUFFICES ASSUME Init PROVE MonitorInv
  OBVIOUS
<1> USE MonitorAssumption DEF MonitorAssumption
<1>1. TypeOK
  <2>1. /\ <<>> \in Seq(1..MaxSends) /\ 0 \in 0..MaxSends
        /\ <<>> \in Seq(1..MaxChunks) /\ 0 \in 0..MaxChunks /\ <<>> \in Seq(Signals)
    OBVIOUS
  <2> QED BY <2>1 DEF Init, TypeOK
<1>2. ASSUME NEW p \in Ports PROVE PortInv(p)
  <2>1. /\ reader[p] = FALSE /\ button[p] = "Connect" /\ paused[p] = FALSE
        /\ shown[p] = <<>> /\ pending[p] = <<>> /\ thread[p] = "none"
        /\ running[p] = FALSE /\ inbox[p] = <<>> /\ chunks[p] = 0
        /\ outgoing[p] = <<>> /\ taken[p] = <<>> /\ written[p] = <<>> /\ sends[p] = 0
    BY <1>2 DEF Init
  <2>2. Linked(p)
    <3>1. Len(<<>>) = 0 /\ 1..0 = {}
      BY EmptySeq
    <3> QED BY <2>1, <3>1 DEF Linked
  <2>3. Heard(p)
    <3>1. 0 \in 0..chunks[p]
      BY <2>1
    <3>2. EndsAt(shown[p] \o pending[p], 0)
      BY <2>1, EndsEmpty
    <3>3. DataIs(inbox[p], 0 + 1, chunks[p])
      BY <2>1, NoData
    <3> QED BY <3>1, <3>2, <3>3 DEF Heard
  <2>4. Sent(p)
    BY <2>1, NoNumbers DEF Sent
  <2>5. HeldByPause(p)
    BY <2>1 DEF HeldByPause
  <2> QED BY <2>2, <2>3, <2>4, <2>5 DEF PortInv
<1> QED BY <1>1, <1>2 DEF MonitorInv

LEMMA MonitorStep == MonitorInv /\ [Next]_vars => MonitorInv'
<1> SUFFICES ASSUME MonitorInv, [Next]_vars PROVE MonitorInv'
  OBVIOUS
<1>1. TypeOK /\ TypeOK'
  BY MonitorTypes DEF MonitorInv
<1>2. ASSUME NEW p \in Ports, Stays(p) PROVE PortInv(p)'
  BY <1>2, StaysTrue DEF Stays, PortInv, MonitorInv
<1>3. ASSUME NEW q \in Ports, PortStep(q) PROVE \A p \in Ports : PortInv(p)'
  <2>1. ASSUME NEW p \in Ports, p # q PROVE PortInv(p)'
    <3>1. Stays(p)
      BY <1>1, <1>3, <2>1, OthersStay
    <3> QED BY <1>2, <3>1
  <2>2. PortInv(q)'
    <3>1. Linked(q) /\ Heard(q) /\ Sent(q) /\ HeldByPause(q)
      BY <1>3 DEF MonitorInv, PortInv
    <3>2. Linked(q)' /\ Heard(q)' /\ Sent(q)' /\ HeldByPause(q)'
      BY <1>1, <1>3, <3>1, LinkedStep, HeardStep, SentStep
    <3> QED BY <3>2 DEF PortInv
  <2> QED BY <2>1, <2>2
<1>4. ASSUME UNCHANGED <<windowVars, threadVars>> PROVE \A p \in Ports : PortInv(p)'
  <2>1. ASSUME NEW p \in Ports PROVE Stays(p)
    BY <1>4 DEF windowVars, threadVars, Stays, LinkStays, HeardStays, SentStays, PauseStays
  <2> QED BY <1>2, <2>1
<1>5. ASSUME StopReturns PROVE \A p \in Ports : PortInv(p)'
  <2>1. PICK q \in Ports : q = stopping
    BY <1>1, <1>5 DEF StopReturns, Responsive, TypeOK
  <2>2. CASE closing
    <3>1. Forget(q)
      BY <1>5, <2>1, <2>2 DEF StopReturns, Forget
    <3>2. ASSUME NEW p \in Ports, p # q PROVE PortInv(p)'
      BY <1>1, <1>2, <3>1, <3>2, ForgetStays
    <3>3. PortInv(q)'
      BY <1>1, <3>1, Forgotten
    <3> QED BY <3>2, <3>3
  <2>3. CASE ~closing
    <3>1. UNCHANGED <<windowVars, threadVars>>
      BY <1>5, <2>3 DEF StopReturns
    <3> QED BY <1>4, <3>1
  <2> QED BY <2>2, <2>3
<1>6. ASSUME \/ \E p \in Ports : StrayStep(p)
             \/ \E devices \in SUBSET Devices : StartUpload(devices)
             \/ \E d \in Devices : EndUpload(d)
             \/ \E d \in Devices, p \in Ports \cup {NoPort} : SetPort(d, p)
             \/ UNCHANGED vars
      PROVE  \A p \in Ports : PortInv(p)'
  <2>1. UNCHANGED <<windowVars, threadVars>>
    BY ONLY <1>6 DEF StrayStep, StartUpload, EndUpload, SetPort, vars
  <2> QED BY <1>4, <2>1
<1>7. ASSUME \E q \in Ports : PortStep(q) PROVE \A p \in Ports : PortInv(p)'
  <2>1. PICK q \in Ports : PortStep(q)
    BY <1>7
  <2> QED BY <1>3, <2>1
<1>8. \A p \in Ports : PortInv(p)'
  <2>1. \/ StopReturns \/ \E q \in Ports : PortStep(q)
        \/ \E p \in Ports : StrayStep(p)
        \/ \E devices \in SUBSET Devices : StartUpload(devices)
        \/ \E d \in Devices : EndUpload(d)
        \/ \E d \in Devices, p \in Ports \cup {NoPort} : SetPort(d, p)
        \/ UNCHANGED vars
    BY DEF Next, PortStep
  <2> QED BY <1>5, <1>6, <1>7, <2>1
<1> QED BY <1>1, <1>8 DEF MonitorInv

-----------------------------------------------------------------------------
(* The theorems. *)

\* Every state satisfies the invariant.
LEMMA AlwaysMonitorInv == Spec => []MonitorInv
<1>1. Init => MonitorInv
  BY MonitorInit
<1>2. MonitorInv /\ [Next]_vars => MonitorInv'
  BY MonitorStep
<1> QED BY <1>1, <1>2, PTL DEF Spec

\* What a window shows and what its reader does agree, for any number of
\* ports (_connect, _disconnect, closeEvent and the slots of the reader's
\* signals): the button says Connect exactly when no reader is left, a reader
\* that may be stopped has raised its flag, and a stop is not undone.
THEOREM ButtonStaysTrue == Spec => []ButtonIsTrue
<1>1. MonitorInv => ButtonIsTrue
  BY DEF MonitorInv, PortInv, Linked, ButtonIsTrue
<1> QED BY <1>1, AlwaysMonitorInv, PTL

\* No chunk that was read is lost, repeated or reordered on its way through
\* the signals, _pending_lines and the text view, and the port is sent every
\* text once and in order through _pending_writes, whatever the amounts.
THEOREM StreamsStayKept == Spec => []StreamsAreKept
<1>1. MonitorInv => DataKept
  BY DEF MonitorInv, PortInv, Heard, EndsAt, DataKept
<1>2. MonitorInv => SentInOrder
  BY DEF MonitorInv, PortInv, Sent, SentInOrder, Numbers
<1>3. MonitorInv => StreamsAreKept
  BY <1>1, <1>2 DEF StreamsAreKept
<1> QED BY <1>3, AlwaysMonitorInv, PTL

\* At the moment a device becomes busy no reader of a window is on its port:
\* the validator's look at _monitor_ports is enough, since a window that
\* holds a reader is always among them.
THEOREM UploadsStartClear == Spec => UploadStartsClear
<1> DEFINE StartsClear(d) == busy'[d] /\ ~busy[d] =>
                                 thread[com[d]] \notin {"opening", "opened", "looping"}
<1>1. ASSUME MonitorInv, [Next]_vars, NEW d \in Devices, busy'[d], ~busy[d]
      PROVE  thread[com[d]] \notin {"opening", "opened", "looping"}
  <2>1. PICK devices \in SUBSET Devices : StartUpload(devices)
    <3>1. busy' # busy
      BY <1>1
    <3>2. ASSUME NEW e \in Devices, EndUpload(e) PROVE FALSE
      BY <1>1, <3>2 DEF EndUpload, MonitorInv, TypeOK
    <3>3. ASSUME NEW q \in Ports, PortStep(q) PROVE FALSE
      <4>1. UNCHANGED uploadVars
        <5>1. CASE Deliver(q)
          BY <5>1 DEF Deliver, DeliverData, DeliverOpened, DeliverError, DeliverFinished
        <5>2. CASE OpenWindow(q) \/ Connect(q) \/ Disconnect(q) \/ CloseIdle(q)
                   \/ CloseConnected(q)
          BY <5>2 DEF OpenWindow, Connect, Disconnect, CloseIdle, CloseConnected
        <5>3. CASE PressPause(q) \/ Clear(q) \/ Send(q)
          BY <5>3 DEF PressPause, Clear, Send
        <5>4. CASE OpenPort(q) \/ StartLoop(q) \/ LeaveLoop(q)
          BY <5>4 DEF OpenPort, StartLoop, LeaveLoop
        <5>5. CASE Take(q) \/ Write(q) \/ Read(q)
          BY <5>5 DEF Take, Write, InWrite, Read
        <5> QED BY <3>3, <5>1, <5>2, <5>3, <5>4, <5>5 DEF PortStep
      <4> QED BY <3>1, <4>1 DEF uploadVars
    <3>6. ~StopReturns /\ ~\E q \in Ports : StrayStep(q)
      BY <3>1 DEF StopReturns, StrayStep, uploadVars
    <3>4. ~\E e \in Devices, q \in Ports \cup {NoPort} : SetPort(e, q)
      BY <3>1 DEF SetPort
    <3>5. ~UNCHANGED vars
      BY <3>1 DEF vars, uploadVars
    <3>7. ~\E q \in Ports : PortStep(q)
      BY <3>3
    <3> QED BY <1>1, <3>2, <3>4, <3>5, <3>6, <3>7 DEF Next, PortStep
  <2>2. d \in devices
    BY <1>1, <2>1 DEF StartUpload
  <2>3. com[d] \in Ports /\ com[d] \notin MonitorPorts
    BY <1>1, <2>1, <2>2 DEF StartUpload, PortsPass, MonitorInv, TypeOK
  <2>4. ~reader[com[d]]
    BY <1>1, <2>3 DEF MonitorPorts, MonitorInv, PortInv, Linked
  <2> QED BY <1>1, <2>3, <2>4 DEF MonitorInv, PortInv, Linked
<1>2. MonitorInv /\ [Next]_vars => [\A d \in Devices : StartsClear(d)]_vars
  BY <1>1
<1> QED BY <1>2, AlwaysMonitorInv, PTL DEF Spec, UploadStartsClear

=============================================================================
