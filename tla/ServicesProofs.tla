---------------------------- MODULE ServicesProofs ----------------------------
(***************************************************************************)
(* Theorems about the components of Services other than Wifi, for every    *)
(* value of their constants, and what they and those of WifiProofs say of   *)
(* Services.                                                               *)
(***************************************************************************)
EXTENDS Services, WifiProofs, FiniteSetTheorems

USE KeyboardAssumption, HostBoundsAssumption, CpOtaAssumption, UiWifiAssumption,
    TransportsAssumption

-----------------------------------------------------------------------------
(* Keyboard *)

DeafInv == intStat \in BOOLEAN /\ notified \in BOOLEAN /\ deaf \in BOOLEAN /\ NeverDeaf

LEMMA DeafInvInit == KeyboardInit => DeafInv
<1>. SUFFICES ASSUME KeyboardInit PROVE DeafInv
  OBVIOUS
<1>1. intStat \in BOOLEAN /\ notified \in BOOLEAN /\ deaf \in BOOLEAN
  BY Zenon DEF KeyboardInit
<1>2. NeverDeaf
  BY DEF KeyboardInit, NeverDeaf
<1>. QED
  BY <1>1, <1>2 DEF DeafInv

LEMMA DeafInvStep == DeafInv /\ [KeyboardNext]_kbdVars => DeafInv'
<1>. SUFFICES ASSUME DeafInv, [KeyboardNext]_kbdVars PROVE DeafInv'
  OBVIOUS
<1>. USE DEF DeafInv, NeverDeaf
<1>1. ASSUME NEW k \in Modifiers \cup Letters, Hit(k) PROVE DeafInv'
  <2>1. intStat' = TRUE /\ deaf' = deaf /\ kbdStart' = kbdStart /\ kbdPc' = kbdPc
    BY <1>1 DEF Hit
  <2>2. notified' = (notified \/ (~intStat /\ kbdStart # "handler"))
    BY <1>1 DEF Hit, Edge
  <2>. QED
    BY <2>1, <2>2
<1>2. CASE AddHandler
  BY <1>2 DEF AddHandler
<1>3. CASE CheckLevel
  <2>1. notified' = (notified \/ intStat) /\ UNCHANGED <<intStat, deaf>>
    BY <1>3 DEF CheckLevel
  <2>. QED
    BY <2>1
<1>4. CASE Wake
  <2>1. notified' = FALSE /\ kbdPc' = "count" /\ UNCHANGED <<intStat, deaf>>
    BY <1>4 DEF Wake, KbdAt
  <2>. QED
    BY <2>1
<1>5. CASE ReadEventNum
  <2>1. /\ (kbdPc' # "blocked" /\ deaf' = deaf) \/ deaf' = intStat
        /\ UNCHANGED <<intStat, notified>>
    BY <1>5 DEF ReadEventNum, KbdAt
  <2>. QED
    BY <2>1
<1>6. CASE ReadKeyEvent
  <2>1. kbdPc' # "blocked" /\ UNCHANGED <<intStat, notified, deaf>>
    BY <1>6 DEF ReadKeyEvent, KbdAt
  <2>. QED
    BY <2>1
<1>7. CASE Rearm
  <2>1. intStat' \in BOOLEAN /\ deaf' = intStat' /\ notified' = notified
    BY <1>7 DEF Rearm
  <2>. QED
    BY <2>1
<1>8. CASE UNCHANGED kbdVars
  BY <1>8 DEF kbdVars
<1>. QED
  BY <1>1, <1>2, <1>3, <1>4, <1>5, <1>6, <1>7, <1>8 DEF KeyboardNext

\* Theorem: whatever keys are hit while the driver starts, drains and re-arms,
\* it never waits with the line low, unless a transfer failed.
THEOREM KeyboardHears == KeyboardSpec => []NeverDeaf
<1>1. DeafInv => NeverDeaf
  BY DEF DeafInv
<1>. QED
  BY <1>1, DeafInvInit, DeafInvStep, PTL DEF KeyboardSpec

\* The modifiers held after event e.
HeldAfter(h, e) ==
    IF e.key \in Modifiers
    THEN IF e.pressed THEN h \cup {e.key} ELSE h \ {e.key}
    ELSE h

Events == [key : Modifiers \cup Letters, pressed : BOOLEAN]

\* h[i] are the modifiers held when event i of the queue is read: at first those
\* kbd_task holds, in the end those that are down.
Foreseen(h) ==
    /\ h \in [1..(Len(kbdFifo) + 1) -> SUBSET Modifiers]
    /\ h[1] = held /\ h[Len(kbdFifo) + 1] = down \cap Modifiers
    /\ \A i \in 1..Len(kbdFifo) : h[i + 1] = HeldAfter(h[i], kbdFifo[i])

\* What event e will forward under the modifiers m.
Forwards(e, m) ==
    IF e.key \in Letters THEN <<[key |-> e.key, pressed |-> e.pressed, with |-> m]>> ELSE <<>>

\* What the queue will forward.
Coming(h) == [i \in DOMAIN kbdFifo |-> Forwards(kbdFifo[i], h[i])]

\* The events of the queue are read under the modifiers they were hit under, and
\* complete what has been forwarded to what has been typed; an event that is to
\* be read is there.
KeysInv ==
    /\ KeyboardTypeOK
    /\ kbdPc = "event" => kbdFifo # <<>>
    /\ ~lost => \E h : Foreseen(h) /\ typed = forwarded \o FlattenSeq(Coming(h))

LEMMA KeysInvInit == KeyboardInit => KeysInv
<1> SUFFICES ASSUME KeyboardInit PROVE KeysInv
  OBVIOUS
<1>1. KeyboardTypeOK
  <2>1. /\ notified \in BOOLEAN /\ intStat \in BOOLEAN /\ lost \in BOOLEAN /\ deaf \in BOOLEAN
    BY Zenon DEF KeyboardInit
  <2>2. /\ kbdFifo \in Seq([key : Modifiers \cup Letters, pressed : BOOLEAN])
        /\ forwarded \in Seq(Forwarded) /\ typed \in Seq(Forwarded) /\ Len(kbdFifo) <= FifoSize
    BY DEF KeyboardInit
  <2> QED
    BY <2>1, <2>2 DEF KeyboardInit, KeyboardTypeOK
<1>2. Foreseen([i \in 1..1 |-> {}])
  BY DEF KeyboardInit, Foreseen
<1>3. Coming([i \in 1..1 |-> {}]) = <<>>
  BY DEF KeyboardInit, Coming
<1>4. FlattenSeq(<<>>) = <<>>
  BY DEF FlattenSeq
<1>5. typed = forwarded \o <<>>
  BY DEF KeyboardInit
<1>6. \E h : Foreseen(h) /\ typed = forwarded \o FlattenSeq(Coming(h))
  BY <1>2, <1>3, <1>4, <1>5, Zenon
<1> QED
  BY <1>1, <1>6 DEF KeysInv, KeyboardInit

\* The types of what is to come.
LEMMA ComingType ==
    ASSUME KeyboardTypeOK, NEW h, Foreseen(h)
    PROVE  /\ Coming(h) \in Seq(Seq(Forwarded)) /\ Len(Coming(h)) = Len(kbdFifo)
           /\ \A i \in 1..Len(kbdFifo) : Coming(h)[i] = Forwards(kbdFifo[i], h[i])
<1>1. /\ Len(kbdFifo) \in Nat /\ DOMAIN kbdFifo = 1..Len(kbdFifo)
      /\ \A i \in 1..Len(kbdFifo) : kbdFifo[i] \in Events /\ h[i] \in SUBSET Modifiers
  <2>1. kbdFifo \in Seq(Events)
    BY DEF KeyboardTypeOK, Events
  <2>2. /\ Len(kbdFifo) \in Nat /\ DOMAIN kbdFifo = 1..Len(kbdFifo)
        /\ \A i \in 1..Len(kbdFifo) : kbdFifo[i] \in Events
    BY <2>1, LenProperties, ElementOfSeq
  <2>3. \A i \in 1..Len(kbdFifo) : h[i] \in SUBSET Modifiers
    BY <2>2 DEF Foreseen
  <2> QED
    BY <2>2, <2>3
<1>2. \A e \in Events, m \in SUBSET Modifiers : Forwards(e, m) \in Seq(Forwarded)
  <2>1. ASSUME NEW e \in Events, NEW m \in SUBSET Modifiers PROVE Forwards(e, m) \in Seq(Forwarded)
    <3>1. CASE e.key \in Letters
      <4>1. [key |-> e.key, pressed |-> e.pressed, with |-> m] \in Forwarded
        BY <3>1 DEF Events, Forwarded
      <4> QED
        BY <3>1, <4>1 DEF Forwards
    <3>2. CASE e.key \notin Letters
      BY <3>2, EmptySeq DEF Forwards
    <3> QED
      BY <3>1, <3>2
  <2> QED
    BY <2>1
<1> HIDE DEF Forwards
<1>3. Coming(h) \in [1..Len(kbdFifo) -> Seq(Forwarded)]
  BY <1>1, <1>2 DEF Coming
<1> QED
  BY <1>1, <1>3 DEF Coming

\* The modifiers follow the keys that are down.
LEMMA ToggledHeld ==
    ASSUME NEW d \in SUBSET (Modifiers \cup Letters), NEW k \in Modifiers \cup Letters
    PROVE  Toggled(d, k) \cap Modifiers
             = HeldAfter(d \cap Modifiers, [key |-> k, pressed |-> k \notin d])
<1>1. [key |-> k, pressed |-> k \notin d].key = k
  OBVIOUS
<1>2. [key |-> k, pressed |-> k \notin d].pressed = (k \notin d)
  BY Zenon
<1>3. CASE k \in d
  BY <1>1, <1>2, <1>3 DEF Toggled, HeldAfter
<1>4. CASE k \notin d
  BY <1>1, <1>2, <1>4 DEF Toggled, HeldAfter
<1> QED
  BY <1>3, <1>4

\* A step that changes neither the queue nor what is typed, held or forwarded.
LEMMA KeysStay ==
    ASSUME KeysInv, KeyboardTypeOK', kbdPc' = "event" => kbdFifo' # <<>>, ~lost' => ~lost,
           UNCHANGED <<kbdFifo, down, held, typed, forwarded>>
    PROVE  KeysInv'
<1>1. ASSUME ~lost', NEW h, Foreseen(h), typed = forwarded \o FlattenSeq(Coming(h))
      PROVE  Foreseen(h)' /\ (typed = forwarded \o FlattenSeq(Coming(h)))'
  <2>1. Foreseen(h)'
    BY <1>1 DEF Foreseen
  <2>2. Coming(h)' = Coming(h)
    BY DEF Coming
  <2> QED
    BY <1>1, <2>1, <2>2, Zenon
<1> QED
  BY <1>1 DEF KeysInv

\* A key is hit: it waits at the end of the queue.
LEMMA HitKeeps ==
    ASSUME KeysInv, NEW k \in Modifiers \cup Letters, Hit(k)
    PROVE  KeysInv'
<1> DEFINE e == [key |-> k, pressed |-> k \notin down]
           m == down \cap Modifiers
           n == Len(kbdFifo)
<1>t. KeyboardTypeOK
  BY DEF KeysInv
<1>1. /\ kbdFifo' = Append(kbdFifo, e) /\ down' = Toggled(down, k) /\ n < FifoSize
      /\ keysHit < MaxKeys /\ keysHit' = keysHit + 1 /\ intStat' = TRUE
      /\ UNCHANGED <<kbdStart, kbdPc, held, forwarded, i2cErrors, lost, deaf>>
  BY DEF Hit
<1>2. typed' = IF k \in Modifiers THEN typed
               ELSE Append(typed, [key |-> k, pressed |-> k \notin down, with |-> m])
  BY DEF Hit
<1>3. e \in Events /\ e.key = k /\ e.pressed = (k \notin down) /\ kbdFifo \in Seq(Events) /\ n \in Nat
      /\ e.pressed \in BOOLEAN
  <2>1. (k \notin down) \in BOOLEAN
    BY Zenon
  <2>2. e \in Events
    BY <2>1 DEF Events
  <2>3. kbdFifo \in Seq(Events)
    BY <1>t DEF KeyboardTypeOK, Events
  <2>4. e.pressed = (k \notin down)
    BY Zenon
  <2> QED
    BY <2>1, <2>2, <2>3, <2>4, LenProperties
<1> HIDE DEF e, n
<1>4. /\ kbdFifo' \in Seq(Events) /\ Len(kbdFifo') = n + 1 /\ kbdFifo'[n + 1] = e
      /\ \A i \in 1..n : kbdFifo'[i] = kbdFifo[i]
  BY <1>1, <1>3, AppendProperties DEF n
<1>5. typed' = typed \o Forwards(e, m) /\ Forwards(e, m) \in Seq(Forwarded)
      /\ typed \in Seq(Forwarded) /\ forwarded \in Seq(Forwarded)
  <2>1. typed \in Seq(Forwarded) /\ forwarded \in Seq(Forwarded)
    BY <1>t DEF KeyboardTypeOK
  <2>2. CASE k \in Modifiers
    <3>1. Forwards(e, m) = <<>>
      BY <1>3, <2>2 DEF Forwards
    <3>2. typed \o <<>> = typed /\ <<>> \in Seq(Forwarded)
      BY <2>1, ConcatEmptySeq, EmptySeq
    <3> QED
      BY <1>2, <2>1, <2>2, <3>1, <3>2, Zenon
  <2>3. CASE k \notin Modifiers
    <3> DEFINE x == [key |-> k, pressed |-> k \notin down, with |-> m]
    <3>1. k \in Letters
      BY <2>3
    <3>2. x = [key |-> e.key, pressed |-> e.pressed, with |-> m]
      BY <1>3, Zenon
    <3>3. [key |-> e.key, pressed |-> e.pressed, with |-> m] \in Forwarded
      BY <1>3, <3>1 DEF Forwarded
    <3>4. x \in Forwarded
      BY <3>2, <3>3, Zenon
    <3>5. typed' = Append(typed, x)
      BY <1>2, <2>3, Zenon
    <3>6. Forwards(e, m) = <<x>>
      <4>1. Forwards(e, m) = <<[key |-> e.key, pressed |-> e.pressed, with |-> m]>>
        BY <1>3, <3>1, Zenon DEF Forwards
      <4> QED
        BY <3>2, <4>1, Zenon
    <3> HIDE DEF x
    <3>7. Append(typed, x) = typed \o <<x>> /\ <<x>> \in Seq(Forwarded)
      BY <2>1, <3>4
    <3> QED
      BY <2>1, <3>5, <3>6, <3>7, Zenon
  <2> QED
    BY <2>2, <2>3
<1>6. KeyboardTypeOK'
  <2>1. notified' \in BOOLEAN
    BY Zenon DEF Hit, Edge
  <2>2. intStat' \in BOOLEAN
    BY <1>1, Zenon
  <2>3. down' \subseteq Modifiers \cup Letters
    BY <1>1, <1>t DEF KeyboardTypeOK, Toggled
  <2>4. typed' \in Seq(Forwarded)
    BY <1>5, ConcatProperties
  <2>5. Len(kbdFifo') <= FifoSize
    BY <1>1, <1>3, <1>4
  <2>6. kbdFifo' \in Seq([key : Modifiers \cup Letters, pressed : BOOLEAN])
    BY <1>4 DEF Events
  <2>7. keysHit' \in 0..MaxKeys
    BY <1>1, <1>t DEF KeyboardTypeOK
  <2> QED
    BY <1>1, <1>t, <2>1, <2>2, <2>3, <2>4, <2>5, <2>6, <2>7 DEF KeyboardTypeOK
<1>7. kbdFifo' # <<>>
  BY <1>3, <1>4
<1>8. ASSUME ~lost' PROVE \E g : Foreseen(g)' /\ (typed = forwarded \o FlattenSeq(Coming(g)))'
  <2>1. PICK h : Foreseen(h) /\ typed = forwarded \o FlattenSeq(Coming(h))
    BY <1>1, <1>8 DEF KeysInv
  <2>2. PICK g : g = [i \in 1..(n + 2) |-> IF i <= n + 1 THEN h[i] ELSE down' \cap Modifiers]
    OBVIOUS
  <2>3. /\ h \in [1..(n + 1) -> SUBSET Modifiers] /\ h[1] = held /\ h[n + 1] = m
        /\ \A i \in 1..n : h[i + 1] = HeldAfter(h[i], kbdFifo[i])
    BY <2>1 DEF Foreseen, n
  <2>4. /\ \A i \in 1..(n + 1) : g[i] = h[i]
        /\ g[n + 2] = down' \cap Modifiers
        /\ g \in [1..((n + 1) + 1) -> SUBSET Modifiers]
    BY <1>3, <2>2, <2>3
  <2>5. down' \cap Modifiers = HeldAfter(m, e)
    BY <1>1, <1>t, ToggledHeld DEF KeyboardTypeOK, e
  <2>6. Foreseen(g)'
    <3>1. ASSUME NEW i \in 1..(n + 1) PROVE g[i + 1] = HeldAfter(g[i], kbdFifo'[i])
      <4>1. CASE i \in 1..n
        <5>1. i + 1 \in 1..(n + 1)
          BY <1>3, <4>1
        <5> QED
          BY <1>4, <2>3, <2>4, <4>1, <5>1
      <4>2. CASE i \notin 1..n
        <5>1. i = n + 1 /\ i + 1 = n + 2
          BY <1>3, <4>2
        <5> QED
          BY <1>4, <2>3, <2>4, <2>5, <5>1
      <4> QED
        BY <4>1, <4>2
    <3>2. g[1] = held' /\ g[(n + 1) + 1] = down' \cap Modifiers
      <4>1. 1 \in 1..(n + 1) /\ (n + 1) + 1 = n + 2
        BY <1>3
      <4> QED
        BY <1>1, <2>3, <2>4, <4>1
    <3> HIDE DEF HeldAfter
    <3> QED
      BY <1>4, <2>4, <3>1, <3>2 DEF Foreseen, HeldAfter
  <2> DEFINE c == Coming(h)
             d == Coming(g)'
             x == Forwards(e, m)
  <2>7. /\ c \in Seq(Seq(Forwarded)) /\ Len(c) = n
        /\ \A i \in 1..n : c[i] = Forwards(kbdFifo[i], h[i])
    BY <1>t, <2>1, ComingType DEF n
  <2>8. /\ d \in Seq(Seq(Forwarded)) /\ Len(d) = n + 1
        /\ \A i \in 1..(n + 1) : d[i] = Forwards(kbdFifo'[i], g[i])
    <3>1. \A i \in 1..Len(kbdFifo') : d[i] = Forwards(kbdFifo'[i], g[i])
      BY <1>4 DEF Coming
    <3>2. d \in Seq(Seq(Forwarded)) /\ Len(d) = Len(kbdFifo')
      <4>1. \A i \in 1..(n + 1) : Forwards(kbdFifo'[i], g[i]) \in Seq(Forwarded)
        <5>1. ASSUME NEW i \in 1..n PROVE Forwards(kbdFifo'[i], g[i]) \in Seq(Forwarded)
          <6>1. i \in 1..(n + 1) /\ c[i] \in Seq(Forwarded)
            BY <1>3, <2>7, ElementOfSeq
          <6> QED
            BY <1>4, <2>4, <2>7, <6>1
        <5>2. Forwards(kbdFifo'[n + 1], g[n + 1]) \in Seq(Forwarded)
          <6>1. n + 1 \in 1..(n + 1)
            BY <1>3
          <6> QED
            BY <1>4, <1>5, <2>3, <2>4, <6>1
        <5> QED
          BY <1>3, <5>1, <5>2
      <4>2. DOMAIN kbdFifo' = 1..(n + 1)
        BY <1>4, LenProperties
      <4> HIDE DEF Forwards
      <4>3. d \in [1..(n + 1) -> Seq(Forwarded)]
        BY <4>1, <4>2 DEF Coming
      <4> QED
        BY <1>3, <1>4, <4>3
    <3> HIDE DEF d
    <3> QED
      BY <1>4, <3>1, <3>2
  <2>9. d = Append(c, x)
    <3> HIDE DEF c, d, x
    <3>1. x \in Seq(Forwarded)
      BY <1>5 DEF x
    <3>2. /\ Append(c, x) \in Seq(Seq(Forwarded)) /\ Len(Append(c, x)) = n + 1
          /\ \A i \in 1..n : Append(c, x)[i] = c[i]
          /\ Append(c, x)[n + 1] = x
      BY <2>7, <3>1, AppendProperties
    <3>3. ASSUME NEW i \in 1..(n + 1) PROVE d[i] = Append(c, x)[i]
      <4>1. CASE i \in 1..n
        <5>1. i \in 1..(n + 1)
          OBVIOUS
        <5>2. kbdFifo'[i] = kbdFifo[i] /\ g[i] = h[i]
          BY <1>4, <2>4, <4>1
        <5>3. d[i] = c[i]
          BY <2>7, <2>8, <4>1, <5>1, <5>2, Zenon
        <5> QED
          BY <3>2, <4>1, <5>3, Zenon
      <4>2. CASE i \notin 1..n
        <5>1. i = n + 1
          BY <1>3, <4>2
        <5>2. kbdFifo'[n + 1] = e /\ g[n + 1] = m /\ n + 1 \in 1..(n + 1)
          BY <1>3, <1>4, <2>3, <2>4
        <5>3. d[n + 1] = x
          BY <2>8, <5>2, Zenon DEF x
        <5> QED
          BY <3>2, <5>1, <5>3, Zenon
      <4> QED
        BY <4>1, <4>2
    <3> QED
      BY <2>8, <3>2, <3>3, SeqEqual
  <2>10. FlattenSeq(d) = FlattenSeq(c) \o x /\ FlattenSeq(c) \in Seq(Forwarded) /\ x \in Seq(Forwarded)
    <3>1. x \in Seq(Forwarded)
      BY <1>5
    <3> HIDE DEF c, d, x
    <3>2. FlattenSeq(Append(c, x)) = FlattenSeq(c) \o x
      BY <2>7, <3>1, FlattenAppend
    <3>3. FlattenSeq(c) \in Seq(Forwarded)
      BY <2>7, FlattenType
    <3> QED
      BY <2>9, <3>1, <3>2, <3>3, Zenon
  <2>11. typed' = forwarded \o FlattenSeq(d)
    <3> DEFINE y == FlattenSeq(c)
    <3>1. typed = forwarded \o y /\ typed' = typed \o x
      BY <1>5, <2>1
    <3>2. forwarded \in Seq(Forwarded) /\ y \in Seq(Forwarded) /\ x \in Seq(Forwarded)
      BY <1>5, <2>10
    <3> HIDE DEF c, d, x, y
    <3>3. (forwarded \o y) \o x = forwarded \o (y \o x)
      <4>1. Associates(forwarded, y, x)
        BY <3>2, ConcatAssociates
      <4> QED
        BY <4>1, Zenon DEF Associates
    <3> QED
      BY <2>10, <3>1, <3>3, Zenon DEF y
  <2>12. typed' = forwarded' \o FlattenSeq(d)
    BY <1>1, <2>11, Zenon
  <2> QED
    BY <2>6, <2>12, Zenon
<1> QED
  BY <1>6, <1>7, <1>8 DEF KeysInv

\* kbd_task reads the first event: what it forwards is what was to come first.
LEMMA ReadKeeps ==
    ASSUME KeysInv, kbdFifo # <<>>, kbdFifo' = Tail(kbdFifo), HandleKeyEvent(Head(kbdFifo)),
           kbdPc' = "again", UNCHANGED <<lost, typed, down, i2cErrors, intStat, kbdStart, notified,
                                         keysHit, deaf>>
    PROVE  KeysInv'
<1> DEFINE e == Head(kbdFifo)
           n == Len(kbdFifo)
           x == Forwards(e, held)
<1>t. KeyboardTypeOK
  BY DEF KeysInv
<1>1. kbdFifo \in Seq(Events) /\ n \in Nat /\ n > 0
  <2>1. kbdFifo \in Seq(Events)
    BY <1>t DEF KeyboardTypeOK, Events
  <2> QED
    BY <2>1, EmptySeq, LenProperties
<1>2. /\ e \in Events /\ kbdFifo' \in Seq(Events) /\ Len(kbdFifo') = n - 1
      /\ e = kbdFifo[1] /\ \A i \in 1..(n - 1) : kbdFifo'[i] = kbdFifo[i + 1]
  BY <1>1, HeadTailProperties
<1>3. held' = HeldAfter(held, e) /\ held' \subseteq Modifiers
  <2>1. held' = HeldAfter(held, e)
    BY <1>2 DEF HandleKeyEvent, HeldAfter
  <2> QED
    BY <1>t, <2>1 DEF KeyboardTypeOK, HeldAfter
<1>4. forwarded' = forwarded \o x /\ x \in Seq(Forwarded) /\ forwarded \in Seq(Forwarded)
      /\ typed \in Seq(Forwarded)
  <2>1. typed \in Seq(Forwarded) /\ forwarded \in Seq(Forwarded) /\ held \in SUBSET Modifiers
    BY <1>t DEF KeyboardTypeOK
  <2>2. CASE e.key \in Modifiers
    <3>1. x = <<>>
      BY <2>2 DEF Forwards
    <3>2. forwarded' = forwarded
      BY <2>2 DEF HandleKeyEvent
    <3>3. forwarded \o <<>> = forwarded /\ <<>> \in Seq(Forwarded)
      BY <2>1, ConcatEmptySeq, EmptySeq
    <3> QED
      BY <2>1, <3>1, <3>2, <3>3, Zenon
  <2>3. CASE e.key \notin Modifiers
    <3> DEFINE y == [key |-> e.key, pressed |-> e.pressed, with |-> held]
    <3>1. e.key \in Letters
      BY <1>2, <2>3 DEF Events
    <3>2. y \in Forwarded
      BY <1>2, <2>1, <3>1 DEF Forwarded, Events
    <3>3. x = <<y>>
      BY <3>1 DEF Forwards
    <3>4. forwarded' = Append(forwarded, y)
      BY <2>3 DEF HandleKeyEvent
    <3> HIDE DEF x, y
    <3>5. Append(forwarded, y) = forwarded \o <<y>> /\ <<y>> \in Seq(Forwarded)
      BY <2>1, <3>2
    <3> QED
      BY <2>1, <3>3, <3>4, <3>5, Zenon
  <2> QED
    BY <2>2, <2>3
<1> HIDE DEF x
<1>5. KeyboardTypeOK'
  <2>1. forwarded' \in Seq(Forwarded)
    BY <1>4, ConcatProperties
  <2>2. kbdFifo' \in Seq([key : Modifiers \cup Letters, pressed : BOOLEAN])
    BY <1>2 DEF Events
  <2>3. Len(kbdFifo') <= FifoSize
    BY <1>1, <1>2, <1>t DEF KeyboardTypeOK
  <2> HIDE DEF n, e
  <2> QED
    BY <1>3, <1>t, <2>1, <2>2, <2>3 DEF KeyboardTypeOK
<1>6. ASSUME ~lost' PROVE \E g : Foreseen(g)' /\ (typed = forwarded \o FlattenSeq(Coming(g)))'
  <2>1. PICK h : Foreseen(h) /\ typed = forwarded \o FlattenSeq(Coming(h))
    BY <1>6 DEF KeysInv
  <2>2. PICK g : g = [i \in 1..n |-> h[i + 1]]
    OBVIOUS
  <2>3. /\ h \in [1..(n + 1) -> SUBSET Modifiers] /\ h[1] = held
        /\ h[n + 1] = down \cap Modifiers
        /\ \A i \in 1..n : h[i + 1] = HeldAfter(h[i], kbdFifo[i])
    BY <2>1 DEF Foreseen
  <2> HIDE DEF n
  <2>4. /\ \A i \in 1..n : g[i] = h[i + 1]
        /\ g \in [1..((n - 1) + 1) -> SUBSET Modifiers]
    <3>1. \A i \in 1..n : i + 1 \in 1..(n + 1)
      BY <1>1
    <3>2. (n - 1) + 1 = n
      BY <1>1
    <3> QED
      BY <2>2, <2>3, <3>1, <3>2
  <2>5. Foreseen(g)'
    <3>1. ASSUME NEW i \in 1..(n - 1) PROVE g[i + 1] = HeldAfter(g[i], kbdFifo'[i])
      <4>1. i \in 1..n /\ i + 1 \in 1..n
        BY <1>1
      <4> HIDE DEF HeldAfter
      <4> QED
        BY <1>2, <2>3, <2>4, <4>1
    <3>2. g[1] = held' /\ g[(n - 1) + 1] = down' \cap Modifiers
      <4>1. 1 \in 1..n /\ (n - 1) + 1 = n /\ n \in 1..n
        BY <1>1
      <4>2. h[2] = HeldAfter(h[1], kbdFifo[1]) /\ g[1] = h[2] /\ g[n] = h[n + 1]
        BY <2>3, <2>4, <4>1
      <4> HIDE DEF HeldAfter
      <4> QED
        BY <1>2, <1>3, <2>3, <4>1, <4>2
    <3> HIDE DEF HeldAfter
    <3> QED
      BY <1>2, <2>4, <3>1, <3>2 DEF Foreseen, HeldAfter
  <2> DEFINE c == Coming(h)
             d == Coming(g)'
  <2>6. /\ c \in Seq(Seq(Forwarded)) /\ Len(c) = n
        /\ \A i \in 1..n : c[i] = Forwards(kbdFifo[i], h[i])
    BY <1>t, <2>1, ComingType DEF n
  <2>7. /\ d \in Seq(Seq(Forwarded)) /\ Len(d) = n - 1
        /\ \A i \in 1..(n - 1) : d[i] = c[i + 1]
    <3>1. DOMAIN kbdFifo' = 1..(n - 1) /\ n - 1 \in Nat
      BY <1>1, <1>2, LenProperties
    <3>2. ASSUME NEW i \in 1..(n - 1) PROVE d[i] = c[i + 1] /\ c[i + 1] \in Seq(Forwarded)
      <4>1. i \in 1..n /\ i + 1 \in 1..n
        BY <1>1
      <4>2. d[i] = Forwards(kbdFifo'[i], g[i])
        BY <3>1 DEF Coming
      <4> HIDE DEF c, d
      <4> QED
        BY <1>2, <2>4, <2>6, <4>1, <4>2, ElementOfSeq
    <3>3. d \in [1..(n - 1) -> Seq(Forwarded)]
      <4>1. d = [i \in 1..(n - 1) |-> d[i]]
        BY <3>1 DEF Coming
      <4> HIDE DEF c, d
      <4> QED
        BY <3>2, <4>1
    <3> HIDE DEF c, d
    <3>4. d \in Seq(Seq(Forwarded)) /\ Len(d) = n - 1
      <4> DEFINE k == n - 1
      <4>1. k \in Nat /\ d \in [1..k -> Seq(Forwarded)]
        BY <3>1, <3>3
      <4> HIDE DEF k
      <4>2. d \in Seq(Seq(Forwarded)) /\ Len(d) = k
        BY <4>1
      <4> QED
        BY <4>2 DEF k
    <3> QED
      BY <3>2, <3>4
  <2>8. c = <<x>> \o d
    <3> HIDE DEF c, d
    <3>1. <<x>> \in Seq(Seq(Forwarded)) /\ Len(<<x>>) = 1 /\ <<x>>[1] = x
      BY <1>4
    <3>2. /\ <<x>> \o d \in Seq(Seq(Forwarded)) /\ Len(<<x>> \o d) = 1 + (n - 1)
          /\ \A i \in 1..(1 + (n - 1)) : (<<x>> \o d)[i] = IF i <= 1 THEN <<x>>[i] ELSE d[i - 1]
      BY <2>7, <3>1, ConcatProperties
    <3>3. 1 + (n - 1) = n
      BY <1>1
    <3>4. ASSUME NEW i \in 1..n PROVE c[i] = (<<x>> \o d)[i]
      <4>1. CASE i = 1
        <5>1. c[i] = x
          BY <1>2, <2>3, <2>6, <4>1 DEF x
        <5>2. (<<x>> \o d)[i] = x
          BY <3>1, <3>2, <3>3, <4>1
        <5> QED
          BY <5>1, <5>2
      <4>2. CASE i # 1
        <5>1. i - 1 \in 1..(n - 1) /\ (i - 1) + 1 = i /\ ~(i <= 1)
          BY <1>1, <4>2
        <5>2. (<<x>> \o d)[i] = d[i - 1]
          BY <3>2, <3>3, <5>1
        <5> QED
          BY <2>7, <5>1, <5>2
      <4> QED
        BY <4>1, <4>2
    <3> QED
      BY <2>6, <3>2, <3>3, <3>4, SeqEqual
  <2>9. FlattenSeq(c) = x \o FlattenSeq(d) /\ FlattenSeq(d) \in Seq(Forwarded)
    <3> HIDE DEF c, d
    <3>1. FlattenSeq(<<x>> \o d) = x \o FlattenSeq(d)
      BY <1>4, <2>7, FlattenCons
    <3>2. FlattenSeq(d) \in Seq(Forwarded)
      BY <2>7, FlattenType
    <3> QED
      BY <2>8, <3>1, <3>2, Zenon
  <2>10. typed' = forwarded' \o FlattenSeq(d)
    <3> DEFINE y == FlattenSeq(d)
    <3>1. forwarded \in Seq(Forwarded) /\ y \in Seq(Forwarded) /\ x \in Seq(Forwarded)
      BY <1>4, <2>9
    <3>2. typed = forwarded \o (x \o y)
      BY <2>1, <2>9, Zenon
    <3> HIDE DEF c, d, y
    <3>3. (forwarded \o x) \o y = forwarded \o (x \o y)
      <4>1. Associates(forwarded, x, y)
        BY <3>1, ConcatAssociates
      <4> QED
        BY <4>1, Zenon DEF Associates
    <3>4. typed' = (forwarded \o x) \o y
      BY <3>2, <3>3, Zenon
    <3> QED
      BY <1>4, <3>4, Zenon DEF y
  <2> QED
    BY <2>5, <2>10, Zenon
<1> QED
  BY <1>5, <1>6 DEF KeysInv

\* A read that fails and takes the event with it: nothing is promised any more.
LEMMA LostKeeps ==
    ASSUME KeysInv, kbdFifo # <<>>, kbdFifo' = Tail(kbdFifo), lost' = TRUE, kbdPc' = "rearm",
           i2cErrors' \in 0..MaxI2cErrors,
           UNCHANGED <<typed, down, held, forwarded, intStat, kbdStart, notified, keysHit, deaf>>
    PROVE  KeysInv'
<1>1. KeyboardTypeOK
  BY DEF KeysInv
<1>2. kbdFifo' \in Seq(Events) /\ Len(kbdFifo') <= FifoSize
  <2>1. kbdFifo \in Seq(Events) /\ Len(kbdFifo) <= FifoSize
    BY <1>1 DEF KeyboardTypeOK, Events
  <2>2. kbdFifo' \in Seq(Events) /\ Len(kbdFifo') = Len(kbdFifo) - 1 /\ Len(kbdFifo) \in Nat
    BY <2>1, HeadTailProperties, LenProperties
  <2> QED
    BY <2>1, <2>2
<1>3. kbdFifo' \in Seq([key : Modifiers \cup Letters, pressed : BOOLEAN])
  BY <1>2 DEF Events
<1>4. KeyboardTypeOK'
  BY <1>1, <1>2, <1>3 DEF KeyboardTypeOK
<1> QED
  BY <1>4 DEF KeysInv

LEMMA KeysInvStep == KeysInv /\ [KeyboardNext]_kbdVars => KeysInv'
<1> SUFFICES ASSUME KeysInv, [KeyboardNext]_kbdVars PROVE KeysInv'
  OBVIOUS
<1>t. KeyboardTypeOK /\ (kbdPc = "event" => kbdFifo # <<>>)
  BY DEF KeysInv
<1>1. ASSUME NEW k \in Modifiers \cup Letters, Hit(k) PROVE KeysInv'
  BY <1>1, HitKeeps
<1>2. CASE AddHandler
  <2>1. KeyboardTypeOK'
    BY <1>2, <1>t DEF AddHandler, KeyboardTypeOK
  <2> QED
    BY <1>2, <1>t, <2>1, KeysStay DEF AddHandler
<1>3. CASE CheckLevel
  <2>1. notified' \in BOOLEAN
    BY <1>3, Zenon DEF CheckLevel
  <2>2. KeyboardTypeOK'
    BY <1>3, <1>t, <2>1 DEF CheckLevel, KeyboardTypeOK
  <2> QED
    BY <1>3, <1>t, <2>2, KeysStay DEF CheckLevel
<1>4. CASE Wake
  <2>1. notified' \in BOOLEAN
    BY <1>4, Zenon DEF Wake
  <2>2. KeyboardTypeOK' /\ kbdPc' # "event"
    BY <1>4, <1>t, <2>1 DEF Wake, KbdAt, KeyboardTypeOK
  <2> QED
    BY <1>4, <2>2, KeysStay DEF Wake
<1>5. CASE ReadEventNum
  <2>1. /\ deaf' \in BOOLEAN /\ i2cErrors' \in 0..MaxI2cErrors
        /\ kbdPc' \in {"blocked", "rearm", "event"} /\ (kbdPc' = "event" => kbdFifo # <<>>)
    BY <1>5, <1>t DEF ReadEventNum, KbdAt, Works, Errs, KeyboardTypeOK
  <2>2. UNCHANGED <<kbdFifo, intStat, down, kbdStart, notified, held, forwarded, keysHit,
                    typed, lost>>
    BY <1>5 DEF ReadEventNum
  <2>3. KeyboardTypeOK'
    BY <1>t, <2>1, <2>2 DEF KeyboardTypeOK
  <2> QED
    BY <2>1, <2>2, <2>3, KeysStay
<1>6. CASE ReadKeyEvent
  <2>1. UNCHANGED <<intStat, down, kbdStart, notified, keysHit, typed, deaf>>
    BY <1>6 DEF ReadKeyEvent
  <2>2. kbdFifo # <<>>
    BY <1>6, <1>t DEF ReadKeyEvent, KbdAt
  <2>3. CASE /\ KbdAt("event", "again") /\ Works
             /\ kbdFifo' = Tail(kbdFifo) /\ HandleKeyEvent(Head(kbdFifo)) /\ UNCHANGED lost
    BY <2>1, <2>2, <2>3, ReadKeeps DEF KbdAt, Works
  <2>4. CASE /\ KbdAt("event", "rearm") /\ Errs
             /\ kbdFifo' = Tail(kbdFifo) /\ lost' = TRUE
             /\ UNCHANGED <<held, forwarded>>
    <3>1. i2cErrors' \in 0..MaxI2cErrors
      BY <1>t, <2>4 DEF Errs, KeyboardTypeOK
    <3> QED
      BY <2>1, <2>2, <2>4, <3>1, LostKeeps DEF KbdAt
  <2>5. CASE /\ KbdAt("event", "rearm") /\ Errs
             /\ UNCHANGED <<kbdFifo, lost>> /\ UNCHANGED <<held, forwarded>>
    <3>1. i2cErrors' \in 0..MaxI2cErrors /\ kbdPc' = "rearm"
      BY <1>t, <2>5 DEF Errs, KeyboardTypeOK, KbdAt
    <3>2. KeyboardTypeOK'
      BY <1>t, <2>1, <2>5, <3>1 DEF KeyboardTypeOK
    <3> QED
      BY <2>1, <2>5, <3>1, <3>2, KeysStay
  <2> QED
    BY <1>6, <2>3, <2>4, <2>5 DEF ReadKeyEvent
<1>7. CASE Rearm
  <2>0. intStat' = FALSE \/ intStat' = intStat
    BY <1>7 DEF Rearm
  <2>1. intStat' \in BOOLEAN /\ deaf' = intStat' /\ i2cErrors' \in 0..MaxI2cErrors
    <3>1. intStat' \in BOOLEAN
      BY <1>t, <2>0, Zenon DEF KeyboardTypeOK
    <3>2. Works \/ Errs
      BY <1>7 DEF Rearm
    <3>3. i2cErrors' \in 0..MaxI2cErrors
      BY <1>t, <3>2 DEF Works, Errs, KeyboardTypeOK
    <3> QED
      BY <1>7, <3>1, <3>3 DEF Rearm
  <2>2. UNCHANGED <<kbdFifo, down, kbdStart, notified, held, forwarded, keysHit, typed, lost>>
    BY <1>7 DEF Rearm
  <2>3. kbdPc' = "blocked"
    BY <1>7 DEF Rearm, KbdAt
  <2>4. KeyboardTypeOK'
    BY <1>t, <2>1, <2>2, <2>3 DEF KeyboardTypeOK
  <2> QED
    BY <2>2, <2>3, <2>4, KeysStay
<1>8. CASE UNCHANGED kbdVars
  <2>1. KeyboardTypeOK'
    BY <1>8, <1>t DEF kbdVars, KeyboardTypeOK
  <2> QED
    BY <1>8, <1>t, <2>1, KeysStay DEF kbdVars
<1> QED
  BY <1>1, <1>2, <1>3, <1>4, <1>5, <1>6, <1>7, <1>8 DEF KeyboardNext

\* What is to come is one key for each letter of the queue.
LEMMA KeysInvMeans == KeysInv => KeysMeant
<1> SUFFICES ASSUME KeysInv, ~lost
             PROVE  LET waiting == FlattenSeq([i \in DOMAIN kbdFifo |->
                                       IF kbdFifo[i].key \in Letters THEN <<kbdFifo[i]>> ELSE <<>>])
                    IN  /\ Len(forwarded) + Len(waiting) = Len(typed)
                        /\ forwarded = SubSeq(typed, 1, Len(forwarded))
  BY Zenon DEF KeysMeant
<1> DEFINE q == [i \in DOMAIN kbdFifo |->
                    IF kbdFifo[i].key \in Letters THEN <<kbdFifo[i]>> ELSE <<>>]
           n == Len(kbdFifo)
<1>t. KeyboardTypeOK
  BY DEF KeysInv
<1>1. PICK h : Foreseen(h) /\ typed = forwarded \o FlattenSeq(Coming(h))
  BY DEF KeysInv
<1> DEFINE c == Coming(h)
<1>2. c \in Seq(Seq(Forwarded)) /\ Len(c) = n /\ \A i \in 1..n : c[i] = Forwards(kbdFifo[i], h[i])
  BY <1>1, <1>t, ComingType
<1>3. /\ n \in Nat /\ DOMAIN kbdFifo = 1..n /\ \A i \in 1..n : kbdFifo[i] \in Events
  <2>1. kbdFifo \in Seq(Events)
    BY <1>t DEF KeyboardTypeOK, Events
  <2> QED
    BY <2>1, LenProperties, ElementOfSeq
<1> HIDE DEF c, n
<1>4. q \in Seq(Seq(Events)) /\ Len(q) = n /\ \A i \in 1..n : Len(q[i]) = Len(c[i])
  <2>1. ASSUME NEW i \in 1..n PROVE q[i] \in Seq(Events) /\ Len(q[i]) = Len(c[i])
    <3>1. q[i] = IF kbdFifo[i].key \in Letters THEN <<kbdFifo[i]>> ELSE <<>>
      BY <1>3
    <3> HIDE DEF q
    <3>2. CASE kbdFifo[i].key \in Letters
      <4>1. Len(c[i]) = 1
        BY <1>2, <3>2 DEF Forwards
      <4>2. kbdFifo[i] \in Events
        BY <1>3
      <4>3. q[i] = <<kbdFifo[i]>>
        BY <3>1, <3>2
      <4> QED
        BY <4>1, <4>2, <4>3
    <3>3. CASE kbdFifo[i].key \notin Letters
      <4>1. Len(c[i]) = 0
        BY <1>2, <3>3 DEF Forwards
      <4> QED
        BY <3>1, <3>3, <4>1, EmptySeq
    <3> QED
      BY <3>2, <3>3
  <2>2. q = [i \in 1..n |-> q[i]]
    BY <1>3
  <2> HIDE DEF q
  <2>3. q \in [1..n -> Seq(Events)]
    BY <2>1, <2>2
  <2> QED
    BY <1>3, <2>1, <2>3
<1> HIDE DEF q
<1>5. Len(FlattenSeq(q)) = Len(FlattenSeq(c))
  <2>1. q \in Seq(Seq(Events)) /\ c \in Seq(Seq(Forwarded))
    BY <1>2, <1>4
  <2>2. Len(q) = Len(c) /\ \A i \in 1..Len(q) : Len(q[i]) = Len(c[i])
    BY <1>2, <1>4
  <2>3. ASSUME NEW S, NEW U, NEW a \in Seq(Seq(S)), NEW b \in Seq(Seq(U)), Len(a) = Len(b),
               \A i \in 1..Len(a) : Len(a[i]) = Len(b[i])
        PROVE  Len(FlattenSeq(a)) = Len(FlattenSeq(b))
    BY <2>3, FlattenLengths
  <2> QED
    BY <2>1, <2>2, <2>3
<1> DEFINE y == FlattenSeq(c)
<1>6. y \in Seq(Forwarded) /\ forwarded \in Seq(Forwarded)
  BY <1>2, <1>t, FlattenType DEF KeyboardTypeOK
<1>7. typed = forwarded \o y
  BY <1>1 DEF c
<1> HIDE DEF y
<1>8. /\ Len(forwarded) \in Nat /\ Len(y) \in Nat
      /\ forwarded \o y \in Seq(Forwarded) /\ Len(forwarded \o y) = Len(forwarded) + Len(y)
      /\ \A i \in 1..Len(forwarded) : (forwarded \o y)[i] = forwarded[i]
  BY <1>6, ConcatProperties, ConcatIndices, LenProperties
<1>9. Len(forwarded) + Len(FlattenSeq(q)) = Len(typed)
  BY <1>5, <1>7, <1>8 DEF y
<1>10. forwarded = SubSeq(typed, 1, Len(forwarded))
  <2> DEFINE z == SubSeq(typed, 1, Len(forwarded))
  <2>1. z \in Seq(Forwarded) /\ Len(z) = Len(forwarded)
        /\ \A i \in 1..Len(forwarded) : z[i] = typed[i]
    BY <1>7, <1>8
  <2> HIDE DEF z
  <2>2. \A i \in 1..Len(forwarded) : z[i] = forwarded[i]
    BY <1>7, <1>8, <2>1
  <2>3. z = forwarded
    BY <1>6, <2>1, <2>2, SeqEqual
  <2> QED
    BY <2>3 DEF z
<1> QED
  BY <1>9, <1>10 DEF q

\* Theorem: however late the events are read, what is forwarded is what was typed, in order and
\* under the modifiers that were down then, unless a transfer lost an event.
THEOREM KeysArriveAsTyped == KeyboardSpec => []KeysMeant
<1> QED
  BY KeysInvInit, KeysInvStep, KeysInvMeans, PTL DEF KeyboardSpec

-----------------------------------------------------------------------------
(* HostStore *)

LEMMA FileStep == FileIsCurrent /\ [HostsNext]_hostVars => FileIsCurrent'
<1>. SUFFICES ASSUME FileIsCurrent, [HostsNext]_hostVars PROVE FileIsCurrent'
  OBVIOUS
<1>. USE DEF FileIsCurrent, storeVars
<1>1. ASSUME NEW k \in Needles, Search(k) PROVE FileIsCurrent'
  BY <1>1 DEF Search
<1>2. ASSUME NEW r \in DOMAIN hostRows, HostClick(hostRows[r]) \/ HostLongPress(hostRows[r])
      PROVE  FileIsCurrent'
  BY <1>2 DEF HostClick, HostLongPress
<1>3. CASE AddClick \/ GoHome
  BY <1>3 DEF AddClick, GoHome
<1>4. ASSUME NEW n \in Names, NEW g \in Groups, NEW p \in Ports, Type(n, g, p)
      PROVE  FileIsCurrent'
  BY <1>4 DEF Type
<1>5. ASSUME NEW p \in Protocols, ChooseProtocol(p) PROVE FileIsCurrent'
  BY <1>5 DEF ChooseProtocol
<1>6. CASE SaveClick \/ DeleteClick
  BY <1>6 DEF SaveClick, DeleteClick
<1>7. CASE Written \/ WriteIgnored \/ WriteRefused \/ Reset
  BY <1>7 DEF Written, WriteIgnored, WriteRefused, Reset
<1>8. CASE UNCHANGED hostVars
  BY <1>8 DEF hostVars
<1>. QED
  BY <1>1, <1>2, <1>3, <1>4, <1>5, <1>6, <1>7, <1>8 DEF HostsNext

\* Theorem: no click, failed write or reset leaves the file behind the list
\* unnoticed.
THEOREM FileFollowsList == HostsSpec => []FileIsCurrent
<1>1. HostsInit => FileIsCurrent
  BY DEF HostsInit, FileIsCurrent
<1>. QED
  BY <1>1, FileStep, PTL DEF HostsSpec

\* The indices of P, in their order.
LEMMA ChosenOnce ==
    ASSUME NEW n \in Nat, NEW P \in SUBSET (1..n)
    PROVE  LET q == [i \in 1..n |-> IF i \in P THEN <<i>> ELSE <<>>]
           IN  /\ FlattenSeq(q) \in Seq(P)
               /\ \A i \in P : Once(FlattenSeq(q), i)
               /\ \A i \in 1..n : i \notin P => Never(FlattenSeq(q), i)
<1> DEFINE q == [i \in 1..n |-> IF i \in P THEN <<i>> ELSE <<>>]
<1>1. \A i \in 1..n : q[i] = IF i \in P THEN <<i>> ELSE <<>>
  OBVIOUS
<1>2. q \in Seq(Seq(P)) /\ Len(q) = n
  <2>1. \A i \in 1..n : q[i] \in Seq(P)
    <3>1. ASSUME NEW i \in 1..n PROVE q[i] \in Seq(P)
      <4> HIDE DEF q
      <4>1. CASE i \in P
        <5>1. <<i>> \in Seq(P)
          BY <4>1
        <5>2. q[i] = <<i>>
          BY <1>1, <4>1
        <5> QED
          BY <5>1, <5>2, Zenon
      <4>2. CASE i \notin P
        BY <1>1, <4>2, EmptySeq
      <4> QED
        BY <4>1, <4>2
    <3> QED
      BY <3>1
  <2>2. q = [i \in 1..n |-> q[i]]
    OBVIOUS
  <2> HIDE DEF q
  <2>3. q \in [1..n -> Seq(P)]
    BY <2>1, <2>2
  <2> QED
    BY <2>3
<1> HIDE DEF q
<1>3. FlattenSeq(q) \in Seq(P)
  BY <1>2, FlattenType
<1>4. \A i, j \in 1..n : j # i => Never(q[j], i)
  <2>1. ASSUME NEW i \in 1..n, NEW j \in 1..n, j # i PROVE Never(q[j], i)
    <3>1. Never(<<j>>, i) /\ Never(<<>>, i)
      BY <2>1 DEF Never
    <3>2. q[j] = <<j>> \/ q[j] = <<>>
      BY <1>1
    <3> QED
      BY <3>1, <3>2, Zenon
  <2> QED
    BY <2>1
<1>5. ASSUME NEW i \in 1..n, i \in P PROVE Once(q[i], i)
  <2>1. Once(<<i>>, i)
    BY DEF Once
  <2>2. q[i] = <<i>>
    BY <1>1, <1>5
  <2> QED
    BY <2>1, <2>2, Zenon
<1>6. ASSUME NEW i \in 1..n, i \notin P PROVE Never(q[i], i)
  <2>1. Never(<<>>, i)
    BY DEF Never
  <2>2. q[i] = <<>>
    BY <1>1, <1>6
  <2> QED
    BY <2>1, <2>2, Zenon
<1>7. ASSUME NEW i \in P PROVE Once(FlattenSeq(q), i)
  <2>1. i \in 1..Len(q) /\ Once(q[i], i) /\ \A j \in 1..Len(q) : j # i => Never(q[j], i)
    BY <1>2, <1>4, <1>5
  <2> QED
    BY <1>2, <2>1, FlattenOnce
<1>8. ASSUME NEW i \in 1..n, i \notin P PROVE Never(FlattenSeq(q), i)
  <2>1. \A j \in 1..Len(q) : Never(q[j], i)
    BY <1>2, <1>4, <1>6, <1>8
  <2> QED
    BY <1>2, <2>1, FlattenNever
<1> QED
  BY <1>3, <1>7, <1>8 DEF q

\* The hosts of a group: each of them once, and no others.
LEMMA GroupOnce ==
    ASSUME NEW list \in Seq(Host), NEW k, NEW g
    PROVE  /\ InGroup(list, k, g) \in Seq(1..Len(list))
           /\ \A i \in 1..Len(list) :
                 IF Matches(list[i], k) /\ list[i].group = g
                 THEN Once(InGroup(list, k, g), i) ELSE Never(InGroup(list, k, g), i)
<1> DEFINE P == {i \in 1..Len(list) : Matches(list[i], k) /\ list[i].group = g}
           q == [i \in 1..Len(list) |-> IF i \in P THEN <<i>> ELSE <<>>]
<1>1. Len(list) \in Nat /\ DOMAIN list = 1..Len(list)
  BY LenProperties
<1>2. InGroup(list, k, g) = FlattenSeq(q)
  <2>1. [i \in DOMAIN list |-> IF Matches(list[i], k) /\ list[i].group = g THEN <<i>> ELSE <<>>] = q
    BY <1>1
  <2> HIDE DEF q
  <2> QED
    BY <2>1, Zenon DEF InGroup
<1>3. P \in SUBSET (1..Len(list))
  OBVIOUS
<1> HIDE DEF P
<1>4. /\ FlattenSeq(q) \in Seq(P)
      /\ \A i \in P : Once(FlattenSeq(q), i)
      /\ \A i \in 1..Len(list) : i \notin P => Never(FlattenSeq(q), i)
  BY <1>1, <1>3, ChosenOnce
<1> HIDE DEF q
<1>5. FlattenSeq(q) \in Seq(1..Len(list))
  BY <1>3, <1>4, SeqMonotone
<1> QED
  BY <1>2, <1>4, <1>5 DEF P

\* The first hosts of their groups, each once.
LEMMA SeenOnce ==
    ASSUME NEW list \in Seq(Host), NEW k
    PROVE  /\ SeenGroups(list, k) \in Seq({i \in 1..Len(list) : OpensGroup(list, k, i)})
           /\ \A i \in 1..Len(list) : OpensGroup(list, k, i) => Once(SeenGroups(list, k), i)
<1> DEFINE P == {i \in 1..Len(list) : OpensGroup(list, k, i)}
           q == [i \in 1..Len(list) |-> IF i \in P THEN <<i>> ELSE <<>>]
<1>1. Len(list) \in Nat /\ DOMAIN list = 1..Len(list)
  BY LenProperties
<1>2. SeenGroups(list, k) = FlattenSeq(q)
  <2>1. [i \in DOMAIN list |-> IF OpensGroup(list, k, i) THEN <<i>> ELSE <<>>] = q
    BY <1>1
  <2> HIDE DEF q
  <2> QED
    BY <2>1, Zenon DEF SeenGroups
<1>3. P \in SUBSET (1..Len(list))
  OBVIOUS
<1> HIDE DEF P
<1>4. /\ FlattenSeq(q) \in Seq(P)
      /\ \A i \in P : Once(FlattenSeq(q), i)
  BY <1>1, <1>3, ChosenOnce
<1> HIDE DEF q
<1> QED
  BY <1>2, <1>4 DEF P

\* A host with a group that matches has a first host of that group that matches.
LEMMA FirstIn ==
    ASSUME NEW n \in Nat, NEW T \in SUBSET (1..n), T # {}
    PROVE  \E j \in T : \A l \in 1..(j - 1) : l \in 1..n /\ l \notin T
<1>1. T \in SUBSET Nat
  OBVIOUS
<1>2. PICK j \in T : \A l \in T : j <= l
  BY <1>1, FirstExists
<1>3. \A l \in 1..(j - 1) : l \in 1..n /\ ~(j <= l)
  OBVIOUS
<1> QED
  BY <1>2, <1>3

LEMMA GroupOpened ==
    ASSUME NEW list \in Seq(Host), NEW k, NEW i \in 1..Len(list),
           Matches(list[i], k), list[i].group # ""
    PROVE  \E j \in 1..Len(list) : OpensGroup(list, k, j) /\ list[j].group = list[i].group
<1> DEFINE T == {j \in 1..Len(list) : Matches(list[j], k) /\ list[j].group = list[i].group}
<1>1. Len(list) \in Nat
  BY LenProperties
<1>2. /\ i \in T /\ T \in SUBSET (1..Len(list))
      /\ \A j \in T : Matches(list[j], k) /\ list[j].group = list[i].group
      /\ \A l \in 1..Len(list) :
            Matches(list[l], k) /\ list[l].group = list[i].group => l \in T
  OBVIOUS
<1> HIDE DEF T
<1>3. PICK j \in T : \A l \in 1..(j - 1) : l \in 1..Len(list) /\ l \notin T
  <2>1. T \in SUBSET (1..Len(list)) /\ T # {}
    BY <1>2
  <2> QED
    BY <1>1, <2>1, FirstIn, Zenon
<1>4. Matches(list[j], k) /\ list[j].group = list[i].group
  BY <1>2
<1>5. ASSUME NEW l \in 1..(j - 1), Matches(list[l], k) PROVE list[l].group # list[j].group
  BY <1>2, <1>3, <1>4, <1>5, Zenon
<1>6. OpensGroup(list, k, j)
  BY <1>4, <1>5, Zenon DEF OpensGroup
<1> QED
  BY <1>2, <1>4, <1>6, Zenon

\* No two first hosts are of one group.
LEMMA OpenedOnce ==
    ASSUME NEW list \in Seq(Host), NEW k, NEW i \in 1..Len(list), NEW j \in 1..Len(list),
           OpensGroup(list, k, i), OpensGroup(list, k, j), list[i].group = list[j].group
    PROVE  i = j
<1>1. ~(i < j)
  <2>1. SUFFICES ASSUME i < j PROVE FALSE
    OBVIOUS
  <2>2. i \in 1..(j - 1)
    BY <2>1
  <2>3. Matches(list[i], k)
    BY DEF OpensGroup
  <2> QED
    BY <2>2, <2>3 DEF OpensGroup
<1>2. ~(j < i)
  <2>1. SUFFICES ASSUME j < i PROVE FALSE
    OBVIOUS
  <2>2. j \in 1..(i - 1)
    BY <2>1
  <2>3. Matches(list[j], k)
    BY DEF OpensGroup
  <2> QED
    BY <2>2, <2>3 DEF OpensGroup
<1> QED
  BY <1>1, <1>2

\* The order of the rows.
OrderOf(list, k) ==
    FlattenSeq([g \in DOMAIN SeenGroups(list, k) |-> InGroup(list, k, list[SeenGroups(list, k)[g]].group)])
      \o InGroup(list, k, "")

LEMMA OrderOnce ==
    ASSUME NEW list \in Seq(Host), NEW k
    PROVE  /\ OrderOf(list, k) \in Seq(1..Len(list))
           /\ \A i \in 1..Len(list) : Matches(list[i], k) => Once(OrderOf(list, k), i)
<1> DEFINE N == 1..Len(list)
           seen == SeenGroups(list, k)
           P == {i \in N : OpensGroup(list, k, i)}
           q == [g \in DOMAIN seen |-> InGroup(list, k, list[seen[g]].group)]
           rest == InGroup(list, k, "")
<1>1. seen \in Seq(P) /\ \A i \in N : OpensGroup(list, k, i) => Once(seen, i)
  BY SeenOnce
<1>2. /\ Len(seen) \in Nat /\ DOMAIN seen = 1..Len(seen)
      /\ \A g \in 1..Len(seen) : seen[g] \in N /\ OpensGroup(list, k, seen[g])
  <2>1. Len(seen) \in Nat /\ DOMAIN seen = 1..Len(seen) /\ \A g \in 1..Len(seen) : seen[g] \in P
    <3> HIDE DEF seen, P
    <3> QED
      BY <1>1, LenProperties, ElementOfSeq
  <2> QED
    BY <2>1
<1> HIDE DEF seen
<1>3. /\ \A g \in 1..Len(seen) : q[g] = InGroup(list, k, list[seen[g]].group)
      /\ q = [g \in 1..Len(seen) |-> q[g]]
  BY <1>2
<1> HIDE DEF q
<1>4. q \in Seq(Seq(N)) /\ Len(q) = Len(seen)
  <2>1. \A g \in 1..Len(seen) : q[g] \in Seq(N)
    BY <1>3, GroupOnce
  <2>2. q \in [1..Len(seen) -> Seq(N)]
    BY <1>3, <2>1
  <2> QED
    BY <1>2, <2>2
<1>5. FlattenSeq(q) \in Seq(N) /\ rest \in Seq(N)
  BY <1>4, FlattenType, GroupOnce
<1>6. OrderOf(list, k) = FlattenSeq(q) \o rest
  BY Zenon DEF OrderOf, q, seen
<1>7. OrderOf(list, k) \in Seq(N)
  <2> DEFINE a == FlattenSeq(q)
  <2>1. a \in Seq(N) /\ rest \in Seq(N)
    BY <1>5
  <2> HIDE DEF a, rest, N
  <2>2. a \o rest \in Seq(N)
    BY <2>1, ConcatProperties
  <2> QED
    BY <1>6, <2>2, Zenon DEF a
<1>8. ASSUME NEW i \in N, Matches(list[i], k) PROVE Once(OrderOf(list, k), i)
  <2>1. \A g \in 1..Len(seen) : IF list[i].group = list[seen[g]].group
                                THEN Once(q[g], i) ELSE Never(q[g], i)
    BY <1>3, <1>8, GroupOnce
  <2>2. IF list[i].group = "" THEN Once(rest, i) ELSE Never(rest, i)
    BY <1>8, GroupOnce
  <2>3. CASE list[i].group = ""
    <3>1. \A g \in 1..Len(seen) : Never(q[g], i)
      BY <1>2, <2>1, <2>3 DEF OpensGroup
    <3>2. Never(FlattenSeq(q), i)
      BY <1>4, <3>1, FlattenNever
    <3>3. Once(rest, i)
      BY <2>2, <2>3
    <3> DEFINE a == FlattenSeq(q)
    <3>4. a \in Seq(N) /\ rest \in Seq(N) /\ Never(a, i)
      BY <1>5, <3>2
    <3> HIDE DEF a, rest, N
    <3>5. Once(a \o rest, i)
      BY <3>3, <3>4, ConcatOnce
    <3> QED
      BY <1>6, <3>5, Zenon DEF a
  <2>4. CASE list[i].group # ""
    <3>1. PICK j \in N : OpensGroup(list, k, j) /\ list[j].group = list[i].group
      BY <1>8, <2>4, GroupOpened
    <3>2. PICK r \in 1..Len(seen) : seen[r] = j /\ \A p \in 1..Len(seen) : seen[p] = j => p = r
      BY <1>1, <1>2, <3>1, ZenonT(60) DEF Once
    <3>3. Once(q[r], i)
      BY <2>1, <3>1, <3>2
    <3>4. ASSUME NEW p \in 1..Len(seen), p # r PROVE Never(q[p], i)
      <4>1. seen[p] # j
        BY <3>2, <3>4
      <4>2. list[seen[p]].group # list[j].group
        BY <1>2, <3>1, <4>1, OpenedOnce
      <4> QED
        BY <2>1, <3>1, <4>2
    <3>5. Once(FlattenSeq(q), i)
      BY <1>4, <3>2, <3>3, <3>4, FlattenOnce
    <3>6. Never(rest, i)
      BY <2>2, <2>4
    <3> DEFINE a == FlattenSeq(q)
    <3>7. a \in Seq(N) /\ rest \in Seq(N) /\ Once(a, i)
      BY <1>5, <3>5
    <3> HIDE DEF a, rest, N
    <3>8. Once(a \o rest, i)
      BY <3>6, <3>7, ConcatOnce
    <3> QED
      BY <1>6, <3>8, Zenon DEF a
  <2> QED
    BY <2>3, <2>4
<1> QED
  BY <1>7, <1>8

\* Rows that show the hosts of a list that match.
Shows(rows, list, k) ==
    /\ \A r \in DOMAIN rows :
          rows[r].index \in DOMAIN list /\ rows[r].label = list[rows[r].index]
    /\ \A i \in DOMAIN list : Matches(list[i], k) =>
          \E r \in DOMAIN rows :
             /\ rows[r].index = i
             /\ \A q \in DOMAIN rows : rows[q].index = i => q = r

HostRow == [label : Host, index : 1..MaxHosts]

LEMMA RowsShow ==
    ASSUME NEW list \in Seq(Host), Len(list) <= MaxHosts, NEW k
    PROVE  RowsOf(list, k) \in Seq(HostRow) /\ Shows(RowsOf(list, k), list, k)
<1> DEFINE order == OrderOf(list, k)
           rows == [r \in DOMAIN order |-> [label |-> list[order[r]], index |-> order[r]]]
<1>1. RowsOf(list, k) = rows
  BY Zenon DEF RowsOf, OrderOf
<1>2. /\ order \in Seq(1..Len(list))
      /\ \A i \in 1..Len(list) : Matches(list[i], k) => Once(order, i)
  BY OrderOnce
<1>3. Len(list) \in Nat /\ DOMAIN list = 1..Len(list) /\ \A i \in 1..Len(list) : list[i] \in Host
  BY LenProperties, ElementOfSeq
<1> HIDE DEF order
<1>4. /\ Len(order) \in Nat /\ DOMAIN order = 1..Len(order)
      /\ \A r \in 1..Len(order) : order[r] \in 1..Len(list)
  BY <1>2, LenProperties, ElementOfSeq
<1>5. /\ DOMAIN rows = 1..Len(order)
      /\ \A r \in 1..Len(order) : rows[r].index = order[r] /\ rows[r].label = list[order[r]]
  BY <1>4
<1>6. rows \in Seq(HostRow)
  <2>1. ASSUME NEW r \in 1..Len(order)
        PROVE  [label |-> list[order[r]], index |-> order[r]] \in HostRow
    <3>1. order[r] \in 1..Len(list)
      BY <1>4
    <3>2. order[r] \in 1..MaxHosts /\ list[order[r]] \in Host
      BY <1>3, <3>1
    <3> HIDE DEF Host
    <3> QED
      BY <3>2 DEF HostRow
  <2>2. rows \in [1..Len(order) -> HostRow]
    BY <1>4, <2>1
  <2> HIDE DEF rows
  <2> QED
    BY <1>4, <2>2
<1> HIDE DEF rows
<1>7. Shows(rows, list, k)
  <2>1. \A r \in DOMAIN rows : rows[r].index \in DOMAIN list /\ rows[r].label = list[rows[r].index]
    BY <1>3, <1>4, <1>5
  <2>2. ASSUME NEW i \in DOMAIN list, Matches(list[i], k)
        PROVE  \E r \in DOMAIN rows :
                  /\ rows[r].index = i
                  /\ \A q \in DOMAIN rows : rows[q].index = i => q = r
    <3>1. Once(order, i)
      BY <1>2, <1>3, <2>2
    <3>2. PICK r \in 1..Len(order) : order[r] = i /\ \A p \in 1..Len(order) : order[p] = i => p = r
      BY <1>4, <3>1 DEF Once
    <3>3. r \in DOMAIN rows /\ rows[r].index = i
      BY <1>5, <3>2
    <3>4. \A q \in DOMAIN rows : rows[q].index = i => q = r
      BY <1>5, <3>2
    <3> QED
      BY <3>3, <3>4, Zenon
  <2> QED
    BY <2>1, <2>2 DEF Shows
<1> QED
  BY <1>1, <1>6, <1>7, Zenon

\* A write is under way only on the edit screen; what is shown there and on the
\* home screen is in the list.
HostsInv ==
    /\ HostsTypeOK
    /\ writing # "no" => shellScreen = "edit"
    /\ RowsAreHosts
    /\ EditsWhatItShows

LEMMA FormTypes ==
    /\ Host \subseteq Form /\ NoForm \in Form
    /\ [NoForm EXCEPT !.port = DefaultPort["ssh"]] \in Form
    /\ \A f \in Form, n \in Names, g \in Groups, p \in Ports :
          [f EXCEPT !.name = n, !.group = g, !.port = p] \in Form
    /\ \A f \in Form, p \in Protocols, b \in BOOLEAN :
          [f EXCEPT !.protocol = p, !.port = IF b THEN DefaultPort[p] ELSE @] \in Form
<1>1. PortLimit \in Nat /\ \A p \in Protocols : DefaultPort[p] \in Nat
  BY PortsAssumption
<1>2. "" \in Names /\ "" \in Groups /\ "ssh" \in Protocols /\ Ports \subseteq Nat
  BY NamesAssumption, ProtocolsAssumption, PortsAssumption
<1>3. Host \subseteq Form
  <2>1. \A n \in 0..(PortLimit - 1) : n \in Nat
    BY <1>1
  <2>2. ASSUME NEW h \in Host PROVE h \in Form
    <3>1. /\ h = [name |-> h.name, group |-> h.group, protocol |-> h.protocol, port |-> h.port]
          /\ h.name \in Names /\ h.group \in Groups /\ h.protocol \in Protocols
          /\ h.port \in 0..(PortLimit - 1)
      BY DEF Host
    <3>2. h.port \in Nat
      BY <2>1, <3>1
    <3> QED
      BY <3>1, <3>2 DEF Form
  <2> QED
    BY <2>2
<1>4. NoForm \in Form
  BY <1>2 DEF NoForm, Form
<1>5. [NoForm EXCEPT !.port = DefaultPort["ssh"]] \in Form
  BY <1>1, <1>2 DEF NoForm, Form
<1>6. \A f \in Form, n \in Names, g \in Groups, p \in Ports :
         [f EXCEPT !.name = n, !.group = g, !.port = p] \in Form
  BY <1>2 DEF Form
<1>7. \A f \in Form, p \in Protocols, b \in BOOLEAN :
         [f EXCEPT !.protocol = p, !.port = IF b THEN DefaultPort[p] ELSE @] \in Form
  BY <1>1 DEF Form
<1> QED
  BY <1>3, <1>4, <1>5, <1>6, <1>7

\* A port is cut to the width of its field.
LEMMA ModRange == \A a \in Nat : \A n \in Nat \ {0} : a % n \in 0..(n - 1)
  OBVIOUS

LEMMA TypedHost ==
    ASSUME form \in Form, form.name # ""
    PROVE  Typed \in Host
<1>1. PortLimit \in Nat \ {0}
  BY PortsAssumption
<1>2. form.port \in Nat
  BY DEF Form
<1>3. form.port % PortLimit \in 0..(PortLimit - 1)
  BY <1>1, <1>2, ModRange, Zenon
<1> QED
  BY <1>3 DEF Typed, Form, Host

\* Every way back to the home screen.
LEMMA HomeKeeps ==
    ASSUME HostsInv, hosts' \in Seq(Host), Len(hosts') <= MaxHosts, ShowHome(hosts'), LeaveEdit,
           writing' = "no", hostsFile' \in Seq(Host), Len(hostsFile') <= MaxHosts,
           resets' \in 0..MaxResets, failures' \in 0..MaxFailures, unwritten' \in BOOLEAN
    PROVE  HostsInv'
<1>0. needle' = "" /\ hostRows' = RowsOf(hosts', "")
  BY Zenon DEF ShowHome
<1>1. /\ shellScreen' = "home"
      /\ editIndex' = 0 /\ form' = NoForm /\ shown' = NoForm
  BY Zenon DEF ShowHome, LeaveEdit
<1>2. RowsOf(hosts', "") \in Seq(HostRow) /\ Shows(RowsOf(hosts', ""), hosts', "")
  BY RowsShow
<1>3. hostRows' \in Seq(HostRow) /\ Shows(hostRows', hosts', needle')
  BY <1>0, <1>2, Zenon
<1>4. HostsTypeOK'
  <2>1. "" \in Needles /\ NoForm \in Form
    BY NamesAssumption, FormTypes
  <2>2. hostRows' \in Seq([label : Host, index : 1..MaxHosts])
    BY <1>3, Zenon DEF HostRow
  <2>3. needle' \in Needles /\ form' \in Form /\ shown' \in Host \cup {NoForm}
    BY <1>0, <1>1, <2>1, Zenon
  <2>4. shellScreen' \in {"home", "edit", "other"} /\ editIndex' \in 0..MaxHosts
    BY <1>1
  <2>5. writing' \in {"no", "save", "delete"}
    OBVIOUS
  <2> QED
    BY <2>2, <2>3, <2>4, <2>5 DEF HostsTypeOK
<1>5. RowsAreHosts'
  BY <1>3, Zenon DEF RowsAreHosts, Shows
<1>6. EditsWhatItShows'
  BY <1>1 DEF EditsWhatItShows
<1> QED
  BY <1>4, <1>5, <1>6 DEF HostsInv

\* The edit screen, for a row or for a new host.
LEMMA EditKeeps ==
    ASSUME HostsInv, NEW i \in 0..MaxHosts, i > 0 => i \in DOMAIN hosts, ShowEdit(i),
           writing = "no", UNCHANGED <<storeVars, resets>>
    PROVE  HostsInv'
<1>1. HostsTypeOK
  BY DEF HostsInv
<1>2. UNCHANGED <<hosts, hostsFile, writing, unwritten, failures, resets>>
  BY DEF storeVars
<1>3. shellScreen' = "edit" /\ editIndex' = i /\ hostRows' = <<>> /\ needle' = ""
  BY DEF ShowEdit
<1>4. IF i > 0 THEN shown' = hosts[i] /\ form' = hosts[i]
      ELSE shown' = NoForm /\ form' = [NoForm EXCEPT !.port = DefaultPort["ssh"]]
  BY DEF ShowEdit
<1>5. shown' \in Host \cup {NoForm} /\ form' \in Form
  <2>1. CASE i > 0
    <3>1. hosts[i] \in Host
      <4> HIDE DEF Host
      <4> QED
        BY <1>1, <2>1, ElementOfSeq DEF HostsTypeOK
    <3>2. hosts[i] \in Form
      BY <3>1, FormTypes
    <3> QED
      BY <1>4, <2>1, <3>1, <3>2, Zenon
  <2>2. CASE ~(i > 0)
    BY <1>4, <2>2, FormTypes, Zenon
  <2> QED
    BY <2>1, <2>2
<1>6. HostsTypeOK'
  <2>1. hostRows' \in Seq([label : Host, index : 1..MaxHosts]) /\ needle' \in Needles
    <3>1. "" \in Needles
      BY NamesAssumption
    <3> QED
      BY <1>3, <3>1, EmptySeq
  <2> QED
    BY <1>1, <1>2, <1>3, <1>5, <2>1 DEF HostsTypeOK
<1>7. RowsAreHosts'
  BY <1>3 DEF RowsAreHosts
<1>8. EditsWhatItShows'
  BY <1>2, <1>3, <1>4 DEF EditsWhatItShows
<1> QED
  BY <1>2, <1>3, <1>6, <1>7, <1>8 DEF HostsInv

LEMMA HostsInvInit == HostsInit => HostsInv
<1> SUFFICES ASSUME HostsInit PROVE HostsInv
  OBVIOUS
<1>1. "" \in Needles /\ NoForm \in Form
  BY NamesAssumption, FormTypes
<1>0. /\ hosts = <<>> /\ hostsFile = <<>> /\ shellScreen = "home" /\ hostRows = <<>>
      /\ editIndex = 0 /\ writing = "no" /\ resets = 0 /\ failures = 0
  BY Zenon DEF HostsInit
<1>2. HostsTypeOK
  <2>1. hosts \in Seq(Host) /\ Len(hosts) <= MaxHosts
    BY <1>0
  <2>2. hostsFile \in Seq(Host) /\ Len(hostsFile) <= MaxHosts
    BY <1>0
  <2>3. hostRows \in Seq([label : Host, index : 1..MaxHosts])
    BY <1>0
  <2>4. unwritten \in BOOLEAN
    BY Zenon DEF HostsInit
  <2>5. needle \in Needles /\ form \in Form /\ shown \in Host \cup {NoForm}
    BY <1>1, Zenon DEF HostsInit
  <2> HIDE DEF Host, Form, NoForm
  <2>6. /\ shellScreen \in {"home", "edit", "other"} /\ editIndex \in 0..MaxHosts
        /\ writing \in {"no", "save", "delete"} /\ resets \in 0..MaxResets
        /\ failures \in 0..MaxFailures
    BY <1>0
  <2> QED
    BY <2>1, <2>2, <2>3, <2>4, <2>5, <2>6 DEF HostsTypeOK
<1>3. RowsAreHosts
  <2>1. hosts = <<>> /\ hostRows = <<>>
    BY <1>0
  <2> QED
    BY <2>1 DEF RowsAreHosts
<1>4. EditsWhatItShows
  BY <1>0 DEF EditsWhatItShows
<1> QED
  BY <1>0, <1>2, <1>3, <1>4 DEF HostsInv

\* A step on the edit screen that leaves the rows, the store and the index.
LEMMA FormKeeps ==
    ASSUME HostsInv, form' \in Form, On("edit"),
           UNCHANGED <<storeVars, shellScreen, homeVars, editIndex, shown, resets>>
    PROVE  HostsInv'
<1>1. /\ HostsTypeOK /\ shellScreen = "edit" /\ EditsWhatItShows
      /\ UNCHANGED <<hosts, hostsFile, writing, unwritten, failures, hostRows, needle, shellScreen,
                     editIndex, shown, resets>>
  BY DEF HostsInv, On, storeVars, homeVars
<1>2. HostsTypeOK'
  BY <1>1 DEF HostsTypeOK
<1>3. RowsAreHosts'
  BY <1>1 DEF RowsAreHosts
<1>4. EditsWhatItShows'
  BY <1>1 DEF EditsWhatItShows
<1> QED
  BY <1>1, <1>2, <1>3, <1>4 DEF HostsInv

\* A row on the home screen is of the list.
LEMMA RowIndex ==
    ASSUME HostsInv, shellScreen = "home", NEW r \in DOMAIN hostRows
    PROVE  hostRows[r].index \in DOMAIN hosts /\ hostRows[r].index \in 0..MaxHosts
<1>1. hostRows[r].index \in DOMAIN hosts
  BY Zenon DEF HostsInv, RowsAreHosts
<1>2. Len(hosts) \in Nat /\ DOMAIN hosts = 1..Len(hosts) /\ Len(hosts) <= MaxHosts
  BY LenProperties DEF HostsInv, HostsTypeOK
<1> QED
  BY <1>1, <1>2

\* A list without one of its hosts.
LEMMA RemoveType ==
    ASSUME NEW list \in Seq(Host), NEW i \in DOMAIN list
    PROVE  RemoveAt(list, i) \in Seq(Host) /\ Len(RemoveAt(list, i)) <= Len(list)
<1>1. Len(list) \in Nat /\ i \in 1..Len(list)
  BY LenProperties
<1> HIDE DEF Host
<1> DEFINE a == SubSeq(list, 1, i - 1)
           z == SubSeq(list, i + 1, Len(list))
<1>2. a \in Seq(Host) /\ Len(a) = i - 1
  BY <1>1
<1>3. z \in Seq(Host) /\ Len(z) = Len(list) - i
  BY <1>1
<1>4. RemoveAt(list, i) = a \o z
  BY DEF RemoveAt
<1> HIDE DEF a, z
<1>5. a \o z \in Seq(Host) /\ Len(a \o z) = Len(a) + Len(z)
  BY <1>2, <1>3, ConcatProperties
<1> QED
  BY <1>1, <1>2, <1>3, <1>4, <1>5

LEMMA SaveKeeps ==
    ASSUME HostsInv, SaveClick
    PROVE  HostsInv'
<1>1. /\ HostsTypeOK /\ EditsWhatItShows
      /\ shellScreen = "edit" /\ writing = "no" /\ writing' = "save"
      /\ UNCHANGED <<hostsFile, unwritten, failures, shellScreen, hostRows, needle, editIndex, form,
                     shown, resets>>
  BY Zenon DEF HostsInv, SaveClick, On, homeVars
<1>2. Typed \in Host
  BY <1>1, TypedHost, Zenon DEF SaveClick, HostsTypeOK
<1>3. \/ editIndex = 0 /\ Len(hosts) < MaxHosts /\ hosts' = Append(hosts, Typed)
      \/ editIndex > 0 /\ hosts' = [hosts EXCEPT ![editIndex] = Typed]
  BY Zenon DEF SaveClick
<1> HIDE DEF Typed, Host
<1>4. /\ hosts' \in Seq(Host) /\ Len(hosts') <= MaxHosts
      /\ editIndex > 0 => editIndex \in DOMAIN hosts'
  <2>1. hosts \in Seq(Host) /\ Len(hosts) <= MaxHosts /\ Len(hosts) \in Nat
        /\ DOMAIN hosts = 1..Len(hosts)
    BY <1>1, LenProperties DEF HostsTypeOK
  <2>2. CASE editIndex = 0 /\ Len(hosts) < MaxHosts /\ hosts' = Append(hosts, Typed)
    <3>1. Append(hosts, Typed) \in Seq(Host) /\ Len(Append(hosts, Typed)) = Len(hosts) + 1
      BY <1>2, <2>1, AppendProperties
    <3> QED
      BY <2>1, <2>2, <3>1
  <2>3. CASE editIndex > 0 /\ hosts' = [hosts EXCEPT ![editIndex] = Typed]
    <3>1. editIndex \in DOMAIN hosts
      BY <1>1, <2>3 DEF EditsWhatItShows
    <3>2. /\ [hosts EXCEPT ![editIndex] = Typed] \in Seq(Host)
          /\ Len([hosts EXCEPT ![editIndex] = Typed]) = Len(hosts)
      BY <1>2, <2>1, <3>1, ExceptSeq
    <3>3. DOMAIN hosts' = 1..Len(hosts)
      BY <2>1, <2>3
    <3> QED
      BY <2>1, <2>3, <3>1, <3>2, <3>3
  <2> QED
    BY <1>3, <2>2, <2>3
<1>5. HostsTypeOK'
  BY <1>1, <1>4 DEF HostsTypeOK
<1>6. RowsAreHosts'
  BY <1>1 DEF RowsAreHosts
<1>7. EditsWhatItShows'
  BY <1>1, <1>4 DEF EditsWhatItShows
<1> QED
  BY <1>1, <1>5, <1>6, <1>7 DEF HostsInv

LEMMA DeleteKeeps ==
    ASSUME HostsInv, DeleteClick
    PROVE  HostsInv'
<1>1. /\ HostsTypeOK /\ EditsWhatItShows
      /\ shellScreen = "edit" /\ writing = "no" /\ writing' = "delete" /\ editIndex > 0
      /\ hosts' = RemoveAt(hosts, editIndex)
      /\ UNCHANGED <<hostsFile, unwritten, failures, shellScreen, hostRows, needle, editIndex, form,
                     shown, resets>>
  BY DEF HostsInv, DeleteClick, On, homeVars, editVars
<1>2. editIndex \in DOMAIN hosts
  BY <1>1 DEF EditsWhatItShows
<1>3. hosts \in Seq(Host) /\ Len(hosts) <= MaxHosts /\ Len(hosts) \in Nat
  BY <1>1, LenProperties DEF HostsTypeOK
<1>4. RemoveAt(hosts, editIndex) \in Seq(Host) /\ Len(RemoveAt(hosts, editIndex)) <= Len(hosts)
  BY <1>2, <1>3, RemoveType
<1> HIDE DEF RemoveAt
<1>5. hosts' \in Seq(Host) /\ Len(hosts') <= MaxHosts
  <2>1. hosts' \in Seq(Host) /\ Len(hosts') <= Len(hosts)
    BY <1>1, <1>4, Zenon
  <2>2. Len(hosts') \in Nat
    BY <2>1, LenProperties
  <2> QED
    BY <1>3, <2>1, <2>2
<1>6. HostsTypeOK'
  BY <1>1, <1>5 DEF HostsTypeOK
<1>7. RowsAreHosts'
  BY <1>1 DEF RowsAreHosts
<1>8. EditsWhatItShows'
  BY <1>1 DEF EditsWhatItShows
<1> QED
  BY <1>1, <1>6, <1>7, <1>8 DEF HostsInv

LEMMA HostsInvStep == HostsInv /\ [HostsNext]_hostVars => HostsInv'
<1> SUFFICES ASSUME HostsInv, [HostsNext]_hostVars PROVE HostsInv'
  OBVIOUS
<1>t. HostsTypeOK
  BY DEF HostsInv
<1>l. hosts \in Seq(Host) /\ Len(hosts) <= MaxHosts /\ hostsFile \in Seq(Host)
      /\ Len(hostsFile) <= MaxHosts /\ failures \in 0..MaxFailures /\ resets \in 0..MaxResets
      /\ unwritten \in BOOLEAN
  BY <1>t DEF HostsTypeOK
<1>1. ASSUME NEW k \in Needles, Search(k) PROVE HostsInv'
  <2>1. /\ shellScreen = "home" /\ writing = "no" /\ needle' = k /\ hostRows' = RowsOf(hosts, k)
        /\ UNCHANGED <<hosts, hostsFile, writing, unwritten, failures, shellScreen, editIndex, form,
                       shown, resets>>
    BY <1>1 DEF Search, On, storeVars, editVars
  <2>2. RowsOf(hosts, k) \in Seq(HostRow) /\ Shows(RowsOf(hosts, k), hosts, k)
    BY <1>l, RowsShow
  <2>3. hostRows' \in Seq([label : Host, index : 1..MaxHosts])
    BY <2>1, <2>2, Zenon DEF HostRow
  <2>4. Shows(hostRows', hosts', needle')
    BY <2>1, <2>2, Zenon
  <2>5. RowsAreHosts'
    BY <2>4, Zenon DEF RowsAreHosts, Shows
  <2>6. HostsTypeOK'
    BY <1>t, <2>1, <2>3 DEF HostsTypeOK
  <2>7. EditsWhatItShows'
    BY <2>1 DEF EditsWhatItShows
  <2> QED
    BY <2>1, <2>5, <2>6, <2>7 DEF HostsInv
<1>2. ASSUME NEW r \in DOMAIN hostRows, HostClick(hostRows[r]) PROVE HostsInv'
  <2> DEFINE i == hostRows[r].index
  <2>1. shellScreen = "home" /\ writing = "no" /\ UNCHANGED <<storeVars, resets>>
    BY <1>2 DEF HostClick, On
  <2>2. i \in DOMAIN hosts /\ i \in 0..MaxHosts
    BY <2>1, RowIndex
  <2>3. CASE ShowEdit(i)
    <3> HIDE DEF i
    <3> QED
      BY <2>1, <2>2, <2>3, EditKeeps
  <2>4. CASE shellScreen' = "other" /\ UNCHANGED <<homeVars, editVars>>
    <3>1. UNCHANGED <<hosts, hostsFile, writing, unwritten, failures, hostRows, needle, editIndex,
                      form, shown, resets>>
      BY <2>1, <2>4 DEF storeVars, homeVars, editVars
    <3>2. HostsTypeOK'
      BY <1>t, <2>4, <3>1 DEF HostsTypeOK
    <3>3. RowsAreHosts'
      BY <2>4 DEF RowsAreHosts
    <3>4. EditsWhatItShows'
      BY <2>4 DEF EditsWhatItShows
    <3> QED
      BY <2>1, <3>1, <3>2, <3>3, <3>4 DEF HostsInv
  <2> QED
    BY <1>2, <2>3, <2>4 DEF HostClick
<1>3. ASSUME NEW r \in DOMAIN hostRows, HostLongPress(hostRows[r]) PROVE HostsInv'
  <2> DEFINE i == hostRows[r].index
  <2>1. shellScreen = "home" /\ writing = "no" /\ UNCHANGED <<storeVars, resets>> /\ ShowEdit(i)
    BY <1>3 DEF HostLongPress, On
  <2>2. i \in DOMAIN hosts /\ i \in 0..MaxHosts
    BY <2>1, RowIndex
  <2> HIDE DEF i
  <2> QED
    BY <2>1, <2>2, EditKeeps
<1>4. CASE AddClick
  <2>1. writing = "no" /\ UNCHANGED <<storeVars, resets>> /\ ShowEdit(0)
    BY <1>4 DEF AddClick, On
  <2>2. 0 \in 0..MaxHosts /\ ~(0 > 0)
    OBVIOUS
  <2> HIDE DEF ShowEdit
  <2> QED
    BY <2>1, <2>2, EditKeeps
<1>5. CASE GoHome
  <2>1. /\ writing' = "no" /\ ShowHome(hosts') /\ LeaveEdit
        /\ UNCHANGED <<hosts, hostsFile, unwritten, failures, resets>>
    <3>1. /\ writing = "no" /\ ShowHome(hosts) /\ LeaveEdit
          /\ UNCHANGED <<hosts, hostsFile, writing, unwritten, failures, resets>>
      BY <1>5, Zenon DEF GoHome, storeVars
    <3> QED
      BY <3>1, Zenon
  <2>2. HostsInv'
    BY <1>l, <2>1, HomeKeeps
  <2> QED
    BY <2>2
<1>6. ASSUME NEW n \in Names, NEW g \in Groups, NEW p \in Ports, Type(n, g, p)
      PROVE  HostsInv'
  <2>1. form' \in Form
    <3>1. form \in Form /\ form' = [form EXCEPT !.name = n, !.group = g, !.port = p]
      BY <1>6, <1>t DEF Type, HostsTypeOK
    <3> QED
      BY <3>1, FormTypes, Zenon
  <2> QED
    BY <1>6, <2>1, FormKeeps DEF Type
<1>7. ASSUME NEW p \in Protocols, ChooseProtocol(p) PROVE HostsInv'
  <2>1. form' \in Form
    <3>1. form \in Form
          /\ form' = [form EXCEPT !.protocol = p, !.port = IF editIndex = 0 THEN DefaultPort[p] ELSE @]
      BY <1>7, <1>t DEF ChooseProtocol, HostsTypeOK
    <3>2. (editIndex = 0) \in BOOLEAN
      BY Zenon
    <3> QED
      BY <3>1, <3>2, FormTypes, Zenon
  <2> QED
    BY <1>7, <2>1, FormKeeps DEF ChooseProtocol
<1>8. CASE SaveClick
  BY <1>8, SaveKeeps
<1>9. CASE DeleteClick
  BY <1>9, DeleteKeeps
<1>10. CASE Written
  <2>1. /\ writing' = "no" /\ ShowHome(hosts') /\ LeaveEdit /\ hostsFile' = hosts
        /\ unwritten' = FALSE /\ UNCHANGED <<hosts, failures, resets>>
    BY <1>10, Zenon DEF Written
  <2>2. unwritten' \in BOOLEAN
    BY <2>1, Zenon
  <2>3. HostsInv'
    BY <1>l, <2>1, <2>2, HomeKeeps
  <2> QED
    BY <2>3
<1>11. CASE WriteIgnored
  <2>1. /\ writing' = "no" /\ ShowHome(hosts') /\ LeaveEdit /\ failures < MaxFailures
        /\ failures' = failures + 1
        /\ unwritten' = TRUE /\ UNCHANGED <<hosts, hostsFile, resets>>
    BY <1>11, Zenon DEF WriteIgnored
  <2>2. unwritten' \in BOOLEAN
    BY <2>1, Zenon
  <2>3. failures' \in 0..MaxFailures
    BY <1>l, <2>1
  <2>4. HostsInv'
    BY <1>l, <2>1, <2>2, <2>3, HomeKeeps
  <2> QED
    BY <2>4
<1>12. CASE WriteRefused
  <2>1. /\ writing' = "no" /\ failures < MaxFailures /\ failures' = failures + 1
        /\ unwritten' = TRUE /\ UNCHANGED <<hosts, hostsFile, resets>>
    BY <1>12, Zenon DEF WriteRefused
  <2>2. unwritten' \in BOOLEAN
    BY <2>1, Zenon
  <2>3. failures' \in 0..MaxFailures
    BY <1>l, <2>1
  <2>4. CASE writing = "save" /\ UNCHANGED <<shellScreen, homeVars, editVars>>
    <3>1. UNCHANGED <<shellScreen, hostRows, needle, editIndex, form, shown>>
      BY <2>4 DEF homeVars, editVars
    <3>2. shellScreen = "edit" /\ EditsWhatItShows
      BY <2>4 DEF HostsInv
    <3>3. HostsTypeOK'
      BY <1>t, <2>1, <2>2, <2>3, <3>1 DEF HostsTypeOK
    <3>4. RowsAreHosts'
      BY <3>1, <3>2 DEF RowsAreHosts
    <3>5. EditsWhatItShows'
      BY <2>1, <2>4, <3>1, <3>2 DEF EditsWhatItShows
    <3> QED
      BY <2>1, <3>3, <3>4, <3>5 DEF HostsInv
  <2>5. CASE ShowHome(hosts) /\ LeaveEdit
    <3>1. ShowHome(hosts') /\ LeaveEdit
      BY <2>1, <2>5, Zenon
    <3>2. HostsInv'
      BY <1>l, <2>1, <2>2, <2>3, <3>1, HomeKeeps
    <3> QED
      BY <3>2
  <2> QED
    BY <1>12, <2>4, <2>5 DEF WriteRefused
<1>13. CASE Reset
  <2>1. /\ writing' = "no" /\ ShowHome(hosts') /\ LeaveEdit /\ hosts' = hostsFile
        /\ unwritten' = FALSE /\ resets < MaxResets /\ resets' = resets + 1
        /\ UNCHANGED <<hostsFile, failures>>
    BY <1>13, Zenon DEF Reset
  <2>2. unwritten' \in BOOLEAN
    BY <2>1, Zenon
  <2>3. resets' \in 0..MaxResets
    BY <1>l, <2>1
  <2>4. HostsInv'
    BY <1>l, <2>1, <2>2, <2>3, HomeKeeps
  <2> QED
    BY <2>4
<1>14. CASE UNCHANGED hostVars
  <2>1. UNCHANGED <<hosts, hostsFile, writing, unwritten, failures, hostRows, needle, shellScreen,
                    editIndex, form, shown, resets>>
    BY <1>14 DEF hostVars, storeVars, homeVars, editVars
  <2>2. HostsTypeOK'
    BY <1>t, <2>1 DEF HostsTypeOK
  <2>3. RowsAreHosts'
    <3>1. shellScreen = "home" => Shows(hostRows, hosts, needle)
      BY Zenon DEF HostsInv, RowsAreHosts, Shows
    <3>2. shellScreen' = "home" => Shows(hostRows', hosts', needle')
      BY <2>1, <3>1, Zenon
    <3> QED
      BY <3>2, Zenon DEF RowsAreHosts, Shows
  <2>4. EditsWhatItShows'
    BY <2>1 DEF HostsInv, EditsWhatItShows
  <2> QED
    BY <2>1, <2>2, <2>3, <2>4 DEF HostsInv
<1> QED
  BY <1>1, <1>2, <1>3, <1>4, <1>5, <1>6, <1>7, <1>8, <1>9, <1>10, <1>11, <1>12, <1>13, <1>14
     DEF HostsNext

\* Theorem: whatever is typed, saved, deleted, refused or reset, and with any number of hosts and
\* groups, each host that matches has one row, and a click on a row opens the
\* host it shows.
THEOREM RowsOpenTheirHosts == HostsSpec => []RowsAreHosts
<1>1. HostsInv => RowsAreHosts
  BY DEF HostsInv
<1> QED
  BY <1>1, HostsInvInit, HostsInvStep, PTL DEF HostsSpec

\* Theorem: the edit screen never saves over another host than the one it was opened for.
THEOREM EditsOwnHost == HostsSpec => []EditsWhatItShows
<1>1. HostsInv => EditsWhatItShows
  BY DEF HostsInv
<1> QED
  BY <1>1, HostsInvInit, HostsInvStep, PTL DEF HostsSpec

-----------------------------------------------------------------------------
(* CpOta *)

LEMMA PaddingValue ==
    ASSUME NEW q \in Nat, NEW r \in 0..15
    PROVE  Padding(16 * q + r) = IF r = 0 THEN 0 ELSE 16 - r
<1>1. (16 * q + r) % 16 = r
  OBVIOUS
<1>2. (16 - r) % 16 = IF r = 0 THEN 0 ELSE 16 - r
  OBVIOUS
<1>. QED
  BY <1>1, <1>2 DEF Padding

\* Theorem: the size computed from the headers is never short of an image with a
\* digest, and never more than 16 bytes over; without a digest it is a byte
\* over, or 15 short when the headers and segments end at a multiple of 16.
THEOREM ImageSizeSuffices ==
    ASSUME NEW img, img.total \in Nat
    PROVE  /\ img.hashed =>
                 TrueLength(img) <= ImageSize(img) /\ ImageSize(img) <= TrueLength(img) + 16
           /\ ~img.hashed => ImageSize(img) = IF img.total % 16 = 0 THEN TrueLength(img) - 15
                                              ELSE TrueLength(img) + 1
<1>. DEFINE q == img.total \div 16
            r == img.total % 16
            summed == img.total + Padding(img.total) + 1
<1>1. q \in Nat /\ r \in 0..15 /\ img.total = 16 * q + r
  OBVIOUS
<1>2. TrueLength(img) = IF img.hashed THEN 16 * q + 48 ELSE 16 * q + 16
  <2>1. (img.total + 16) \div 16 = q + 1
    BY <1>1
  <2>. QED
    BY <1>1, <2>1 DEF TrueLength
<1>. HIDE DEF q, r
<1>3. summed = IF r = 0 THEN 16 * q + 1 ELSE 16 * (q + 1) + 1
  BY <1>1, PaddingValue
<1>. HIDE DEF summed
<1>4. Padding(summed) = 15
  <2>1. Padding(16 * q + 1) = 15 /\ Padding(16 * (q + 1) + 1) = 15
    <3>1. \A n \in Nat : Padding(16 * n + 1) = IF 1 = 0 THEN 0 ELSE 16 - 1
      BY PaddingValue, 1 \in 0..15, Zenon
    <3>2. \A n \in Nat : Padding(16 * n + 1) = 15
      BY <3>1
    <3>3. q \in Nat /\ q + 1 \in Nat
      BY <1>1
    <3>. QED
      BY <3>2, <3>3, Zenon
  <2>. QED
    BY <1>3, <2>1, Zenon
<1>5. ImageSize(img) = IF img.hashed THEN summed + 47 ELSE summed
  <2>1. ImageSize(img) = IF img.hashed THEN summed + Padding(summed) + 32 ELSE summed
    BY DEF ImageSize, summed
  <2>. QED
    BY <1>1, <1>3, <1>4, <2>1
<1>6. img.total % 16 = r
  BY DEF r
<1>. QED
  BY <1>1, <1>2, <1>3, <1>5, <1>6

\* What is sent was found to fit into the partition, and what is activated has
\* arrived whole.
OtaInv ==
    /\ CpOtaTypeOK
    /\ otaPc \notin {"boot", "done"} => Pushable(image)
    /\ otaPc = "activate" => cpStaged \in Versions

LEMMA OtaInvInit == CpOtaInit => OtaInv
BY DEF CpOtaInit, OtaInv, CpOtaTypeOK

LEMMA ImageSizeType == ASSUME NEW img, img.total \in Nat PROVE ImageSize(img) \in Nat \ {0}
<1>1. \A t \in Nat : Padding(t) \in Nat
  BY DEF Padding
<1>. HIDE DEF Padding
<1>. QED
  BY <1>1 DEF ImageSize

LEMMA OtaInvStep == OtaInv /\ [CpOtaNext]_cpOtaVars => OtaInv'
<1>. SUFFICES ASSUME OtaInv, [CpOtaNext]_cpOtaVars PROVE OtaInv'
  OBVIOUS
<1>. USE DEF OtaInv, CpOtaTypeOK, OtaAt, Succeeds, Fails
<1>1. ImageSize(image) \in Nat \ {0}
  <2>1. image.total \in Nat
    BY DEF NoImage
  <2>. QED
    BY <2>1, ImageSizeType
<1>2. image' = image => ImageSize(image') = ImageSize(image) /\ (Pushable(image') <=> Pushable(image))
  OBVIOUS
<1>3. Pushable(image) => ImageSize(image) <= PartitionSize
  BY DEF Pushable
<1>. HIDE DEF ImageSize, Pushable
<1>4. CASE ReadHeader
  BY <1>1, <1>2, <1>4 DEF ReadHeader
<1>5. CASE CompareVersion
  BY <1>1, <1>2, <1>5 DEF CompareVersion
<1>6. CASE Begin
  BY <1>1, <1>2, <1>3, <1>6 DEF Begin
<1>7. CASE SendChunk
  BY <1>1, <1>2, <1>3, <1>7 DEF SendChunk
<1>8. CASE End
  BY <1>1, <1>2, <1>8 DEF End, NoImage
<1>9. CASE Activate
  BY <1>1, <1>2, <1>9 DEF Activate
<1>10. CASE RestartHost
  BY <1>1, <1>2, <1>10 DEF RestartHost
<1>11. CASE UNCHANGED cpOtaVars
  BY <1>1, <1>2, <1>11 DEF cpOtaVars
<1>. QED
  BY <1>4, <1>5, <1>6, <1>7, <1>8, <1>9, <1>10, <1>11 DEF CpOtaNext

\* Theorem: the transfer never reads past the image or the partition, and what
\* the coprocessor runs in the end is one of the versions, whatever failed.
THEOREM OtaTypes == CpOtaSpec => []CpOtaTypeOK
<1>1. OtaInv => CpOtaTypeOK
  BY DEF OtaInv
<1>. QED
  BY <1>1, OtaInvInit, OtaInvStep, PTL DEF CpOtaSpec

-----------------------------------------------------------------------------
(* UiWifi *)

LEMMA UiWifiInitType == UiWifiInit => UiWifiTypeOK
<1>. SUFFICES ASSUME UiWifiInit PROVE UiWifiTypeOK
  OBVIOUS
<1>1. wifiRows \in Seq(Row) /\ scanMutex \in Scans \cup {"connect", "free"}
  BY DEF UiWifiInit
<1>. QED
  BY <1>1 DEF UiWifiInit, UiWifiTypeOK

\* The rows made of the front of the array.
LEMMA RowsType ==
    ASSUME UiWifiTypeOK, NEW n \in 0..MaxResults
    PROVE  Rows(n) \in Seq(Row) /\ DOMAIN Rows(n) = 1..n
<1>1. \A i \in 1..n : [label |-> scanResults[i], index |-> i] \in Row
  BY DEF UiWifiTypeOK, Row, Slots
<1>. QED
  BY <1>1, IsASeq DEF Rows

LEMMA UiWifiStepType == UiWifiTypeOK /\ [UiWifiNext]_uiWifiVars => UiWifiTypeOK'
<1>. SUFFICES ASSUME UiWifiTypeOK, [UiWifiNext]_uiWifiVars PROVE UiWifiTypeOK'
  OBVIOUS
<1>. USE DEF scanVars, screenVars
<1>1. CASE ShowScanScreen
  BY <1>1 DEF ShowScanScreen, UiWifiTypeOK
<1>2. CASE Back
  BY <1>2 DEF Back, UiWifiTypeOK
<1>3. CASE ConnectClick
  BY <1>3 DEF ConnectClick, StartConnect, UiWifiTypeOK
<1>4. CASE ConnectEnd
  <2>1. /\ wifiScreen' \in {"scan", "password", "away"}
        /\ wifiStatus' \in {"scanning", "shown", "connecting", "failed", "empty"}
    BY <1>4 DEF ConnectEnd, UiWifiTypeOK
  <2>3. connectTasks' \in 0..1
    BY <1>4 DEF ConnectEnd
  <2>4. wifiRows' \in Seq(Row)
    BY <1>4, EmptySeq DEF ConnectEnd, UiWifiTypeOK
  <2>2. UNCHANGED <<scanVars, pwSsid>>
    BY <1>4 DEF ConnectEnd
  <2>. QED
    BY <2>1, <2>2, <2>3, <2>4 DEF UiWifiTypeOK
<1>5. CASE ConnectHolds
  <2>1. scanMutex' \in {"connect", "free"}
    BY <1>5 DEF ConnectHolds
  <2>2. UNCHANGED <<scanResults, scanCount, scanTask, scanFound, screenVars>>
    BY <1>5 DEF ConnectHolds
  <2>. QED
    BY <2>1, <2>2 DEF UiWifiTypeOK
<1>6. ASSUME NEW i \in DOMAIN wifiRows, RowClick(wifiRows[i]) PROVE UiWifiTypeOK'
  <2>1. /\ wifiScreen' \in {"scan", "password", "away"}
        /\ wifiStatus' \in {"scanning", "shown", "connecting", "failed", "empty"}
    BY <1>6 DEF RowClick, StartConnect, UiWifiTypeOK
  <2>3. connectTasks' \in 0..1 /\ pwSsid' \in APs \cup {NoAp}
    BY <1>6 DEF RowClick, StartConnect, UiWifiTypeOK
  <2>4. wifiRows' \in Seq(Row)
    BY <1>6, EmptySeq DEF RowClick, UiWifiTypeOK
  <2>2. UNCHANGED scanVars
    BY <1>6 DEF RowClick
  <2>. QED
    BY <2>1, <2>2, <2>3, <2>4 DEF UiWifiTypeOK
<1>7. ASSUME NEW t \in Scans, ScanStep(t) PROVE UiWifiTypeOK'
  <2>1. CASE ScanLock(t)
    BY <2>1 DEF ScanLock, UiWifiTypeOK
  <2>2. CASE ScanRecords(t)
    <3>. PICK found \in UNION {[1..n -> APs] : n \in 0..MaxResults} :
            /\ scanResults' = [i \in Slots |-> IF i \in DOMAIN found THEN found[i]
                                               ELSE scanResults[i]]
            /\ scanFound' = [scanFound EXCEPT ![t] = Len(found)]
      BY <2>2 DEF ScanRecords
    <3>. PICK n \in 0..MaxResults : found \in [1..n -> APs]
      OBVIOUS
    <3>1. found \in Seq(APs) /\ Len(found) = n
      OBVIOUS
    <3>2. scanResults' \in [Slots -> APs \cup {NoAp}]
      BY DEF UiWifiTypeOK
    <3>3. scanFound' \in [Scans -> 0..MaxResults]
      BY <3>1 DEF UiWifiTypeOK
    <3>. QED
      BY <2>2, <3>2, <3>3 DEF ScanRecords, UiWifiTypeOK
  <2>3. CASE ScanRefused(t)
    BY <2>3 DEF ScanRefused, UiWifiTypeOK
  <2>4. CASE ScanCount(t)
    BY <2>4 DEF ScanCount, UiWifiTypeOK
  <2>5. CASE ScanShow(t)
    <3>1. Rows(scanFound[t]) \in Seq(Row)
      BY RowsType DEF UiWifiTypeOK
    <3>. HIDE DEF Rows
    <3>. QED
      BY <2>5, <3>1 DEF ScanShow, UiWifiTypeOK
  <2>. QED
    BY <1>7, <2>1, <2>2, <2>3, <2>4, <2>5 DEF ScanStep
<1>8. CASE UNCHANGED uiWifiVars
  BY <1>8 DEF uiWifiVars, UiWifiTypeOK
<1>. QED
  BY <1>1, <1>2, <1>3, <1>4, <1>5, <1>6, <1>7, <1>8 DEF UiWifiNext

\* Rows are on the scan screen only; and when no scan is about to be shown, each
\* has the label its index has.
RowsInv ==
    /\ UiWifiTypeOK
    /\ wifiScreen # "scan" => wifiRows = <<>>
    /\ RowsNameTheirNetwork

LEMMA RowsInvStep == RowsInv /\ [UiWifiNext]_uiWifiVars => RowsInv'
<1>. SUFFICES ASSUME RowsInv, [UiWifiNext]_uiWifiVars PROVE RowsInv'
  OBVIOUS
<1>t. UiWifiTypeOK /\ UiWifiTypeOK'
  BY UiWifiStepType DEF RowsInv
<1>. USE DEF RowsNameTheirNetwork, Overwritten, Target, scanVars, screenVars
<1>1. CASE ShowScanScreen
  BY <1>1, <1>t DEF ShowScanScreen, RowsInv
<1>2. CASE Back
  BY <1>2, <1>t DEF Back, RowsInv
<1>3. CASE ConnectClick
  BY <1>3, <1>t DEF ConnectClick, StartConnect, RowsInv
<1>4. CASE ConnectEnd
  BY <1>4, <1>t DEF ConnectEnd, RowsInv
<1>5. CASE ConnectHolds
  BY <1>5, <1>t DEF ConnectHolds, RowsInv
<1>6. ASSUME NEW i \in DOMAIN wifiRows, RowClick(wifiRows[i]) PROVE RowsInv'
  BY <1>6, <1>t DEF RowClick, StartConnect, RowsInv
<1>7. ASSUME NEW t \in Scans, ScanStep(t) PROVE RowsInv'
  <2>1. CASE ScanLock(t)
    BY <2>1, <1>t DEF ScanLock, RowsInv, UiWifiTypeOK
  <2>2. CASE ScanRecords(t) \/ ScanRefused(t) \/ ScanCount(t)
    <3>1. scanTask'[t] \in {"returning", "showing"}
      BY <2>2, <1>t DEF ScanRecords, ScanRefused, ScanCount, UiWifiTypeOK
    <3>2. UNCHANGED <<wifiScreen, wifiRows>>
      BY <2>2 DEF ScanRecords, ScanRefused, ScanCount
    <3>. QED
      BY <1>t, <3>1, <3>2 DEF RowsInv
  <2>3. CASE ScanShow(t)
    <3>1. /\ DOMAIN Rows(scanFound[t]) = 1..scanFound[t]
          /\ \A i \in 1..scanFound[t] : /\ Rows(scanFound[t])[i].label = scanResults[i]
                                        /\ Rows(scanFound[t])[i].index = i
      BY <1>t, RowsType DEF Rows, UiWifiTypeOK
    <3>2. UNCHANGED <<scanResults, scanCount, wifiScreen>>
      BY <2>3 DEF ScanShow
    <3>3. IF wifiScreen = "scan" THEN wifiRows' = Rows(scanFound[t]) ELSE wifiRows' = <<>>
      BY <2>3 DEF ScanShow, RowsInv
    <3>. HIDE DEF Rows
    <3>4. ASSUME NEW i \in DOMAIN wifiRows'
          PROVE  Target(wifiRows[i])' \in {wifiRows'[i].label, NoAp}
      <4>3. DOMAIN <<>> = {}
        OBVIOUS
      <4>4. wifiScreen = "scan"
        BY <3>3, <3>4, <4>3, Zenon
      <4>1. wifiScreen = "scan" /\ wifiRows' = Rows(scanFound[t]) /\ i \in 1..scanFound[t]
        BY <3>1, <3>3, <3>4, <4>4, Zenon
      <4>2. wifiRows'[i].label = scanResults[i] /\ wifiRows'[i].index = i
        BY <3>1, <4>1
      <4>. QED
        BY <3>2, <4>2
    <3>5. wifiScreen' # "scan" => wifiRows' = <<>>
      BY <3>2, <3>3
    <3>. QED
      BY <1>t, <3>4, <3>5 DEF RowsInv
  <2>. QED
    BY <1>7, <2>1, <2>2, <2>3 DEF ScanStep
<1>8. CASE UNCHANGED uiWifiVars
  BY <1>8, <1>t DEF uiWifiVars, RowsInv
<1>. QED
  BY <1>1, <1>2, <1>3, <1>4, <1>5, <1>6, <1>7, <1>8 DEF UiWifiNext

LEMMA RowsInvInit == UiWifiInit => RowsInv
<1>. SUFFICES ASSUME UiWifiInit PROVE RowsInv
  OBVIOUS
<1>1. UiWifiTypeOK
  BY UiWifiInitType
<1>. QED
  BY <1>1 DEF UiWifiInit, RowsInv, RowsNameTheirNetwork

\* Theorem: with any number of scans under way, a row stands for another network
\* only while results are written and not yet shown.
THEOREM RowsTruthful == UiWifiSpec => []RowsNameTheirNetwork
<1>1. RowsInv => RowsNameTheirNetwork
  BY DEF RowsInv
<1>. QED
  BY <1>1, RowsInvInit, RowsInvStep, PTL DEF UiWifiSpec

-----------------------------------------------------------------------------
(* Transports *)

SshSteps == {"lib", "addr", "sock", "connect", "session", "handshake", "auth", "channel",
             "pty", "shell", "handle"}
TelnetSteps == {"handle", "addr", "sock", "connect", "select"}

\* What a connect holds when it makes call s.
Holds(c, s) ==
    IF c \in SshTasks
    THEN CASE s \in {"idle", "init", "lib"} -> {}
           [] s = "addr" -> {"lib"}
           [] s = "sock" -> {"lib", "addr"}
           [] s = "connect" -> {"lib", "addr", "sock"}
           [] s = "session" -> {"lib", "sock"}
           [] s \in {"handshake", "auth", "channel"} -> {"lib", "sock", "session"}
           [] s \in {"pty", "shell", "handle"} -> {"lib", "sock", "session", "channel"}
           [] s = "open" -> {"lib", "sock", "session", "channel", "handle"}
    ELSE CASE s \in {"idle", "handle"} -> {}
           [] s = "addr" -> {"handle"}
           [] s = "sock" -> {"handle", "addr"}
           [] s = "connect" -> {"handle", "addr", "sock"}
           [] s \in {"select", "open"} -> {"handle", "sock"}

\* The calls as sets.
LEMMA CallsOfSsh ==
    ASSUME NEW c \in SshTasks
    PROVE  {Calls(c)[i] : i \in 1..(Len(Calls(c)) - 1)} = SshSteps
BY DEF Calls, SshCalls, SshSteps

LEMMA CallsOfTelnet ==
    ASSUME NEW c \in TelnetTasks
    PROVE  {Calls(c)[i] : i \in 1..(Len(Calls(c)) - 1)} = TelnetSteps /\ c \notin SshTasks
BY DEF Calls, TelnetCalls, TelnetSteps

\* The call after each call.
LEMMA AfterSsh ==
    ASSUME NEW c \in SshTasks
    PROVE  /\ After(c, "addr") = "sock" /\ After(c, "sock") = "connect"
           /\ After(c, "connect") = "session" /\ After(c, "session") = "handshake"
           /\ After(c, "handshake") = "auth" /\ After(c, "auth") = "channel"
           /\ After(c, "channel") = "pty" /\ After(c, "pty") = "shell"
           /\ After(c, "shell") = "handle" /\ After(c, "handle") = "open"
<1>1. Calls(c) = SshCalls /\ DOMAIN SshCalls = 1..12
  BY DEF Calls, SshCalls
<1>2. ASSUME NEW k \in 1..11 PROVE After(c, SshCalls[k]) = SshCalls[k + 1]
  <2>1. \A i \in DOMAIN SshCalls : SshCalls[i] = SshCalls[k] => i = k
    BY DEF SshCalls
  <2>2. (CHOOSE i \in DOMAIN SshCalls : SshCalls[i] = SshCalls[k]) = k
    BY <1>1, <2>1
  <2>. QED
    BY <1>1, <2>2 DEF After
<1>3. /\ SshCalls[2] = "addr" /\ SshCalls[3] = "sock" /\ SshCalls[4] = "connect"
      /\ SshCalls[5] = "session" /\ SshCalls[6] = "handshake" /\ SshCalls[7] = "auth"
      /\ SshCalls[8] = "channel" /\ SshCalls[9] = "pty" /\ SshCalls[10] = "shell"
      /\ SshCalls[11] = "handle" /\ SshCalls[12] = "open"
  BY DEF SshCalls
<1>4. /\ After(c, SshCalls[2]) = SshCalls[3] /\ After(c, SshCalls[3]) = SshCalls[4]
      /\ After(c, SshCalls[4]) = SshCalls[5] /\ After(c, SshCalls[5]) = SshCalls[6]
      /\ After(c, SshCalls[6]) = SshCalls[7] /\ After(c, SshCalls[7]) = SshCalls[8]
      /\ After(c, SshCalls[8]) = SshCalls[9] /\ After(c, SshCalls[9]) = SshCalls[10]
      /\ After(c, SshCalls[10]) = SshCalls[11] /\ After(c, SshCalls[11]) = SshCalls[12]
  BY <1>2
<1>. QED
  BY <1>3, <1>4, Zenon

LEMMA AfterTelnet ==
    ASSUME NEW c \in TelnetTasks
    PROVE  /\ After(c, "handle") = "addr" /\ After(c, "addr") = "sock"
           /\ After(c, "sock") = "connect" /\ After(c, "connect") = "select"
           /\ After(c, "select") = "open"
<1>1. Calls(c) = TelnetCalls /\ DOMAIN TelnetCalls = 1..6
  BY DEF Calls, TelnetCalls
<1>2. ASSUME NEW k \in 1..5 PROVE After(c, TelnetCalls[k]) = TelnetCalls[k + 1]
  <2>1. \A i \in DOMAIN TelnetCalls : TelnetCalls[i] = TelnetCalls[k] => i = k
    BY DEF TelnetCalls
  <2>2. (CHOOSE i \in DOMAIN TelnetCalls : TelnetCalls[i] = TelnetCalls[k]) = k
    BY <1>1, <2>1
  <2>. QED
    BY <1>1, <2>2 DEF After
<1>3. /\ TelnetCalls[1] = "handle" /\ TelnetCalls[2] = "addr" /\ TelnetCalls[3] = "sock"
      /\ TelnetCalls[4] = "connect" /\ TelnetCalls[5] = "select" /\ TelnetCalls[6] = "open"
  BY DEF TelnetCalls
<1>4. /\ After(c, TelnetCalls[1]) = TelnetCalls[2] /\ After(c, TelnetCalls[2]) = TelnetCalls[3]
      /\ After(c, TelnetCalls[3]) = TelnetCalls[4] /\ After(c, TelnetCalls[4]) = TelnetCalls[5]
      /\ After(c, TelnetCalls[5]) = TelnetCalls[6]
  BY <1>2
<1>. QED
  BY <1>3, <1>4, Zenon

\* Every exit gives back all that is held, and libssh2 only if it is held.
LEMMA ExitComplete ==
    /\ \A c \in SshTasks, s \in SshSteps :
          /\ Holds(c, s) \subseteq GivesBack(c, s)
          /\ "lib" \in GivesBack(c, s) <=> "lib" \in Holds(c, s)
    /\ \A c \in TelnetTasks, s \in TelnetSteps :
          /\ Holds(c, s) \subseteq GivesBack(c, s)
          /\ "lib" \notin GivesBack(c, s) /\ "lib" \notin Holds(c, s)
<1>1. ASSUME NEW c \in SshTasks, NEW s \in SshSteps
      PROVE  /\ Holds(c, s) \subseteq GivesBack(c, s)
             /\ "lib" \in GivesBack(c, s) <=> "lib" \in Holds(c, s)
  BY <1>1 DEF SshSteps, Holds, GivesBack, SshGivesBack, FailSession, FailChannel
<1>2. ASSUME NEW c \in TelnetTasks, NEW s \in TelnetSteps
      PROVE  /\ Holds(c, s) \subseteq GivesBack(c, s)
             /\ "lib" \notin GivesBack(c, s) /\ "lib" \notin Holds(c, s)
  BY <1>2 DEF TelnetSteps, Holds, GivesBack, TelnetGivesBack
<1>. QED
  BY <1>1, <1>2

LibHolders == {c \in SshTasks : "lib" \in acquired[c]}

StepsOf(c) == (IF c \in SshTasks THEN SshSteps \cup {"init"} ELSE TelnetSteps)
                \cup {"idle", "open", "null", "closed"}

\* A connect holds exactly what its calls so far have acquired; afterwards only
\* what could not be freed; and the count is right unless two tasks met in it.
LeakInv ==
    /\ DOMAIN step = ConnectTasks /\ acquired \in [ConnectTasks -> SUBSET Resources]
    /\ libUsers \in Nat /\ libSeen \in [SshTasks -> Nat]
    /\ \A c \in ConnectTasks :
          /\ step[c] \in StepsOf(c)
          /\ step[c] \notin {"null", "closed"} => acquired[c] = Holds(c, step[c])
          /\ step[c] \in {"null", "closed"} =>
                acquired[c] \subseteq IF c \in wouldBlock THEN {"session", "channel"} ELSE {}
    /\ ~raced => libUsers = Cardinality(LibHolders)

\* Giving back all that is held, and libssh2 if it is, keeps the invariant.
LEMMA ReleasesKeeps ==
    ASSUME LeakInv, NEW c \in ConnectTasks, NEW rs, Releases(c, rs), NEW to \in {"null", "closed"},
           step' = [step EXCEPT ![c] = to], UNCHANGED <<libSeen, raced>>,
           acquired[c] \subseteq rs, "lib" \in rs <=> "lib" \in acquired[c],
           "lib" \in rs => c \in SshTasks
    PROVE  LeakInv'
<1>1. /\ acquired' \in [ConnectTasks -> SUBSET Resources]
      /\ \A d \in ConnectTasks \ {c} : acquired'[d] = acquired[d]
      /\ acquired'[c] \subseteq IF c \in wouldBlock' THEN {"session", "channel"} ELSE {}
      /\ wouldBlock \subseteq wouldBlock' /\ wouldBlock' \subseteq wouldBlock \cup {c}
      /\ "lib" \notin acquired'[c]
  <2>1. CASE acquired' = [acquired EXCEPT ![c] = @ \ rs] /\ wouldBlock' = wouldBlock
    BY <2>1 DEF LeakInv
  <2>2. CASE /\ acquired' = [acquired EXCEPT ![c] = @ \ (rs \ {"channel", "session"})]
             /\ wouldBlock' = wouldBlock \cup {c}
    <3>1. acquired'[c] = acquired[c] \ (rs \ {"channel", "session"})
      BY <2>2 DEF LeakInv
    <3>. QED
      BY <2>2, <3>1 DEF LeakInv
  <2>. QED
    BY <2>1, <2>2 DEF Releases
<1>2. /\ DOMAIN step' = ConnectTasks /\ step'[c] = to
      /\ \A d \in ConnectTasks \ {c} : step'[d] = step[d]
  BY DEF LeakInv
<1>3. \A d \in ConnectTasks :
         /\ step'[d] \in StepsOf(d)
         /\ step'[d] \notin {"null", "closed"} => acquired'[d] = Holds(d, step'[d])
         /\ step'[d] \in {"null", "closed"} =>
               acquired'[d] \subseteq IF d \in wouldBlock' THEN {"session", "channel"} ELSE {}
  <2>1. ASSUME NEW d \in ConnectTasks, d = c
        PROVE  /\ step'[d] \in StepsOf(d)
               /\ step'[d] \notin {"null", "closed"} => acquired'[d] = Holds(d, step'[d])
               /\ step'[d] \in {"null", "closed"} =>
                     acquired'[d] \subseteq IF d \in wouldBlock' THEN {"session", "channel"} ELSE {}
    BY <1>1, <1>2, <2>1 DEF StepsOf
  <2>2. ASSUME NEW d \in ConnectTasks, d # c
        PROVE  /\ step'[d] \in StepsOf(d)
               /\ step'[d] \notin {"null", "closed"} => acquired'[d] = Holds(d, step'[d])
               /\ step'[d] \in {"null", "closed"} =>
                     acquired'[d] \subseteq IF d \in wouldBlock' THEN {"session", "channel"} ELSE {}
    <3>1. step'[d] = step[d] /\ acquired'[d] = acquired[d] /\ (d \in wouldBlock' <=> d \in wouldBlock)
      BY <1>1, <1>2, <2>2
    <3>. QED
      BY <3>1 DEF LeakInv
  <2>. QED
    BY <2>1, <2>2
<1>4. LibHolders' = LibHolders \ {c} /\ ("lib" \in rs <=> c \in LibHolders)
  BY <1>1 DEF LibHolders, ConnectTasks, LeakInv
<1>5. libUsers' \in Nat /\ (~raced' => libUsers' = Cardinality(LibHolders'))
  <2>1. IsFiniteSet(LibHolders)
    BY FS_Subset DEF LibHolders
  <2>2. /\ Cardinality(LibHolders) \in Nat /\ Cardinality(LibHolders \ {c}) \in Nat
        /\ Cardinality(LibHolders \ {c}) =
              IF c \in LibHolders THEN Cardinality(LibHolders) - 1 ELSE Cardinality(LibHolders)
    BY <2>1, FS_RemoveElement, FS_CardinalityType
  <2>3. libUsers' = IF "lib" \in rs /\ libUsers > 0 THEN libUsers - 1 ELSE libUsers
    BY DEF Releases
  <2>4. libUsers \in Nat /\ (~raced => libUsers = Cardinality(LibHolders))
    BY DEF LeakInv
  <2>. QED
    BY <1>4, <2>2, <2>3, <2>4
<1>. QED
  BY <1>1, <1>2, <1>3, <1>5 DEF LeakInv

\* A step of one task that leaves the count, or counts one holder more.
LEMMA MovesKeep ==
    ASSUME LeakInv, NEW c \in ConnectTasks, NEW to, NEW rs,
           step' = [step EXCEPT ![c] = to], acquired' = [acquired EXCEPT ![c] = rs],
           UNCHANGED wouldBlock,
           to \in StepsOf(c), to \notin {"null", "closed"},
           rs = Holds(c, to), rs \subseteq Resources,
           libUsers' \in Nat, libSeen' \in [SshTasks -> Nat],
           ~raced' => libUsers' = Cardinality(LibHolders')
    PROVE  LeakInv'
<1>1. /\ DOMAIN step' = ConnectTasks /\ acquired' \in [ConnectTasks -> SUBSET Resources]
      /\ step'[c] = to /\ acquired'[c] = rs
      /\ \A d \in ConnectTasks \ {c} : step'[d] = step[d] /\ acquired'[d] = acquired[d]
  BY DEF LeakInv
<1>2. \A d \in ConnectTasks :
         /\ step'[d] \in StepsOf(d)
         /\ step'[d] \notin {"null", "closed"} => acquired'[d] = Holds(d, step'[d])
         /\ step'[d] \in {"null", "closed"} =>
               acquired'[d] \subseteq IF d \in wouldBlock' THEN {"session", "channel"} ELSE {}
  BY <1>1 DEF LeakInv
<1>. QED
  BY <1>1, <1>2 DEF LeakInv

LEMMA LeakInvInit == TransportsInit => LeakInv
<1>. SUFFICES ASSUME TransportsInit PROVE LeakInv
  OBVIOUS
<1>1. LibHolders = {}
  BY DEF TransportsInit, LibHolders, ConnectTasks
<1>2. libUsers = Cardinality(LibHolders)
  BY <1>1, FS_EmptySet DEF TransportsInit
<1>3. \A c \in ConnectTasks : step[c] = "idle" /\ acquired[c] = {}
  BY DEF TransportsInit
<1>4. \A c \in ConnectTasks : "idle" \in StepsOf(c) /\ Holds(c, "idle") = {}
  BY DEF StepsOf, Holds
<1>5. acquired \in [ConnectTasks -> SUBSET Resources] /\ DOMAIN step = ConnectTasks
      /\ libUsers \in Nat /\ libSeen \in [SshTasks -> Nat]
  BY DEF TransportsInit
<1>. QED
  BY <1>2, <1>3, <1>4, <1>5 DEF LeakInv

LEMMA StartConnectingKeeps ==
    ASSUME LeakInv, NEW c \in ConnectTasks, StartConnecting(c)
    PROVE  LeakInv'
<1>. DEFINE to == IF c \in SshTasks THEN "init" ELSE "handle"
<1>1. step[c] = "idle" /\ step' = [step EXCEPT ![c] = to]
      /\ UNCHANGED <<acquired, libUsers, libSeen, raced, wouldBlock>>
  BY DEF StartConnecting, Goes
<1>2. acquired[c] = Holds(c, to) /\ Holds(c, to) \subseteq Resources
  <2>1. acquired[c] = Holds(c, "idle")
    BY <1>1 DEF LeakInv
  <2>. QED
    BY <2>1 DEF Holds
<1>3. acquired' = [acquired EXCEPT ![c] = Holds(c, to)]
  BY <1>1, <1>2 DEF LeakInv
<1>4. to \in StepsOf(c) /\ to \notin {"null", "closed"}
  BY DEF StepsOf, TelnetSteps
<1>5. LibHolders' = LibHolders
  BY <1>1 DEF LibHolders
<1>6. libUsers' \in Nat /\ libSeen' \in [SshTasks -> Nat]
      /\ (~raced' => libUsers' = Cardinality(LibHolders'))
  BY <1>1, <1>5 DEF LeakInv
<1>. HIDE DEF to
<1>. QED
  BY <1>1, <1>2, <1>3, <1>4, <1>6, MovesKeep

LEMMA LibInitKeeps ==
    ASSUME LeakInv, NEW c \in SshTasks, LibInit(c)
    PROVE  LeakInv'
<1>0. c \in ConnectTasks
  BY DEF ConnectTasks
<1>1. step[c] = "init" /\ step' = [step EXCEPT ![c] = "lib"]
      /\ libSeen' = [libSeen EXCEPT ![c] = libUsers]
      /\ UNCHANGED <<acquired, libUsers, raced, wouldBlock>>
  BY DEF LibInit, Goes
<1>2. acquired[c] = {} /\ Holds(c, "lib") = {}
  <2>1. acquired[c] = Holds(c, "init")
    BY <1>0, <1>1 DEF LeakInv
  <2>. QED
    BY <2>1 DEF Holds
<1>3. acquired' = [acquired EXCEPT ![c] = Holds(c, "lib")]
  BY <1>0, <1>1, <1>2 DEF LeakInv
<1>4. "lib" \in StepsOf(c)
  BY DEF StepsOf, SshSteps
<1>5. LibHolders' = LibHolders
  BY <1>1 DEF LibHolders
<1>6. libUsers' \in Nat /\ libSeen' \in [SshTasks -> Nat]
      /\ (~raced' => libUsers' = Cardinality(LibHolders'))
  BY <1>1, <1>5 DEF LeakInv
<1>. QED
  BY <1>0, <1>1, <1>2, <1>3, <1>4, <1>6, MovesKeep

LEMMA LibCountsKeeps ==
    ASSUME LeakInv, NEW c \in SshTasks, LibCounts(c)
    PROVE  LeakInv'
<1>0. c \in ConnectTasks
  BY DEF ConnectTasks
<1>1. /\ step[c] = "lib" /\ step' = [step EXCEPT ![c] = "addr"]
      /\ libUsers' = libSeen[c] + 1 /\ raced' = (raced \/ libUsers # libSeen[c])
      /\ acquired' = [acquired EXCEPT ![c] = @ \cup {"lib"}]
      /\ UNCHANGED <<libSeen, wouldBlock>>
  BY DEF LibCounts, Goes
<1>2. acquired[c] = {} /\ Holds(c, "addr") = {"lib"}
  <2>1. acquired[c] = Holds(c, "lib")
    BY <1>0, <1>1 DEF LeakInv
  <2>. QED
    BY <2>1 DEF Holds
<1>3. acquired' = [acquired EXCEPT ![c] = Holds(c, "addr")]
  BY <1>0, <1>1, <1>2 DEF LeakInv
<1>4. "addr" \in StepsOf(c) /\ {"lib"} \subseteq Resources
  BY DEF StepsOf, SshSteps, Resources
<1>5. LibHolders' = LibHolders \cup {c} /\ c \notin LibHolders
  BY <1>0, <1>2, <1>3 DEF LibHolders, ConnectTasks, LeakInv
<1>6. libUsers' \in Nat /\ libSeen' \in [SshTasks -> Nat]
  BY <1>1 DEF LeakInv
<1>7. ~raced' => libUsers' = Cardinality(LibHolders')
  <2>1. IsFiniteSet(LibHolders)
    BY TransportsAssumption, FS_Subset DEF LibHolders
  <2>2. Cardinality(LibHolders \cup {c}) = Cardinality(LibHolders) + 1
    BY <1>5, <2>1, FS_AddElement
  <2>3. ASSUME ~raced' PROVE libUsers' = Cardinality(LibHolders) + 1
    <3>1. ~raced /\ libUsers = libSeen[c]
      BY <1>1, <2>3
    <3>. QED
      BY <1>1, <3>1 DEF LeakInv
  <2>. QED
    BY <1>5, <2>2, <2>3
<1>. QED
  BY <1>0, <1>1, <1>2, <1>3, <1>4, <1>6, <1>7, MovesKeep

\* What each call holds, and what it adds to it.
LEMMA SucceedsHolds ==
    ASSUME NEW c \in ConnectTasks,
           NEW s \in (IF c \in SshTasks THEN SshSteps ELSE TelnetSteps) \ {"lib"}
    PROVE  /\ After(c, s) \in StepsOf(c) \ {"null", "closed"}
           /\ Holds(c, After(c, s)) = IF s = "connect" THEN Holds(c, s) \ {"addr"}
                                      ELSE Holds(c, s) \cup ({s} \cap Resources)
           /\ Holds(c, After(c, s)) \subseteq Resources
           /\ "lib" \in Holds(c, After(c, s)) <=> "lib" \in Holds(c, s)
<1>1. CASE c \in SshTasks
  <2>1. CASE s = "addr"
    BY <1>1, <2>1, AfterSsh DEF StepsOf, SshSteps, Holds, Resources
  <2>2. CASE s = "sock"
    BY <1>1, <2>2, AfterSsh DEF StepsOf, SshSteps, Holds, Resources
  <2>3. CASE s = "connect"
    BY <1>1, <2>3, AfterSsh DEF StepsOf, SshSteps, Holds, Resources
  <2>4. CASE s = "session"
    BY <1>1, <2>4, AfterSsh DEF StepsOf, SshSteps, Holds, Resources
  <2>5. CASE s = "handshake"
    BY <1>1, <2>5, AfterSsh DEF StepsOf, SshSteps, Holds, Resources
  <2>6. CASE s = "auth"
    BY <1>1, <2>6, AfterSsh DEF StepsOf, SshSteps, Holds, Resources
  <2>7. CASE s = "channel"
    BY <1>1, <2>7, AfterSsh DEF StepsOf, SshSteps, Holds, Resources
  <2>8. CASE s = "pty"
    BY <1>1, <2>8, AfterSsh DEF StepsOf, SshSteps, Holds, Resources
  <2>9. CASE s = "shell"
    BY <1>1, <2>9, AfterSsh DEF StepsOf, SshSteps, Holds, Resources
  <2>10. CASE s = "handle"
    BY <1>1, <2>10, AfterSsh DEF StepsOf, SshSteps, Holds, Resources
  <2>. QED
    BY <1>1, <2>1, <2>2, <2>3, <2>4, <2>5, <2>6, <2>7, <2>8, <2>9, <2>10 DEF SshSteps
<1>2. CASE c \notin SshTasks
  <2>1. c \in TelnetTasks
    BY <1>2 DEF ConnectTasks
  <2>. QED
    BY <1>2, <2>1, AfterTelnet, ZenonT(60) DEF StepsOf, TelnetSteps, Holds, Resources
<1>. QED
  BY <1>1, <1>2

LEMMA CallsOfTask ==
    ASSUME NEW c \in ConnectTasks
    PROVE  {Calls(c)[i] : i \in 1..(Len(Calls(c)) - 1)}
              = IF c \in SshTasks THEN SshSteps ELSE TelnetSteps
BY CallsOfSsh, CallsOfTelnet, Zenon DEF ConnectTasks

LEMMA CallSucceedsKeeps ==
    ASSUME LeakInv, NEW c \in ConnectTasks, CallSucceeds(c)
    PROVE  LeakInv'
<1>. DEFINE to == After(c, step[c])
<1>1. /\ step[c] \in {Calls(c)[i] : i \in 1..(Len(Calls(c)) - 1)} \ {"lib"}
      /\ step' = [step EXCEPT ![c] = to]
      /\ acquired' = [acquired EXCEPT ![c] = IF step[c] = "connect" THEN @ \ {"addr"}
                                             ELSE @ \cup ({step[c]} \cap Resources)]
      /\ UNCHANGED <<libUsers, libSeen, raced, wouldBlock>>
  BY DEF CallSucceeds, Goes
<1>2. step[c] \in (IF c \in SshTasks THEN SshSteps ELSE TelnetSteps) \ {"lib"}
  BY <1>1, CallsOfTask, Zenon
<1>3. step[c] \notin {"null", "closed"} /\ acquired[c] = Holds(c, step[c])
  <2>1. step[c] \notin {"null", "closed"}
    BY <1>2 DEF SshSteps, TelnetSteps
  <2>. QED
    BY <2>1 DEF LeakInv
<1>4. /\ to \in StepsOf(c) \ {"null", "closed"}
      /\ Holds(c, to) = IF step[c] = "connect" THEN Holds(c, step[c]) \ {"addr"}
                        ELSE Holds(c, step[c]) \cup ({step[c]} \cap Resources)
      /\ Holds(c, to) \subseteq Resources
      /\ "lib" \in Holds(c, to) <=> "lib" \in Holds(c, step[c])
  BY <1>2, SucceedsHolds
<1>. HIDE DEF to
<1>5. acquired' = [acquired EXCEPT ![c] = Holds(c, to)]
  <2>1. acquired' = [acquired EXCEPT ![c] = IF step[c] = "connect" THEN acquired[c] \ {"addr"}
                                            ELSE acquired[c] \cup ({step[c]} \cap Resources)]
    BY <1>1 DEF LeakInv
  <2>. QED
    BY <1>3, <1>4, <2>1
<1>6. LibHolders' = LibHolders
  <2>1. \A d \in ConnectTasks : "lib" \in acquired'[d] <=> "lib" \in acquired[d]
    BY <1>3, <1>4, <1>5 DEF LeakInv
  <2>. QED
    BY <2>1 DEF LibHolders, ConnectTasks
<1>7. libUsers' \in Nat /\ libSeen' \in [SshTasks -> Nat]
      /\ (~raced' => libUsers' = Cardinality(LibHolders'))
  BY <1>1, <1>6 DEF LeakInv
<1>. QED
  BY <1>1, <1>4, <1>5, <1>7, MovesKeep

LEMMA CallFailsKeeps ==
    ASSUME LeakInv, NEW c \in ConnectTasks, CallFails(c)
    PROVE  LeakInv'
<1>1. /\ step[c] \in {Calls(c)[i] : i \in 1..(Len(Calls(c)) - 1)}
      /\ step' = [step EXCEPT ![c] = "null"]
      /\ Releases(c, GivesBack(c, step[c])) /\ UNCHANGED <<libSeen, raced>>
  BY DEF CallFails, Goes
<1>2. step[c] \in IF c \in SshTasks THEN SshSteps ELSE TelnetSteps
  BY <1>1, CallsOfTask, Zenon
<1>3. acquired[c] = Holds(c, step[c])
  <2>1. step[c] \notin {"null", "closed"}
    BY <1>2 DEF SshSteps, TelnetSteps
  <2>. QED
    BY <2>1 DEF LeakInv
<1>4. /\ acquired[c] \subseteq GivesBack(c, step[c])
      /\ "lib" \in GivesBack(c, step[c]) <=> "lib" \in acquired[c]
      /\ "lib" \in GivesBack(c, step[c]) => c \in SshTasks
  <2>1. CASE c \in SshTasks
    BY <1>2, <1>3, <2>1, ExitComplete
  <2>2. CASE c \notin SshTasks
    <3>1. c \in TelnetTasks
      BY <2>2 DEF ConnectTasks
    <3>. QED
      BY <1>2, <1>3, <2>2, <3>1, ExitComplete
  <2>. QED
    BY <2>1, <2>2
<1>. QED
  BY <1>1, <1>4, ReleasesKeeps

LEMMA CloseKeeps ==
    ASSUME LeakInv, NEW c \in ConnectTasks, Close(c)
    PROVE  LeakInv'
<1>. DEFINE rs == IF c \in SshTasks THEN FailChannel \cup {"handle"} ELSE {"sock", "handle"}
<1>1. /\ step[c] = "open" /\ step' = [step EXCEPT ![c] = "closed"]
      /\ Releases(c, rs) /\ UNCHANGED <<libSeen, raced>>
  BY DEF Close, Goes
<1>2. acquired[c] = Holds(c, "open")
  BY <1>1 DEF LeakInv
<1>3. /\ acquired[c] \subseteq rs /\ ("lib" \in rs <=> "lib" \in acquired[c])
      /\ ("lib" \in rs => c \in SshTasks)
  BY <1>2 DEF Holds, FailChannel, FailSession
<1>. HIDE DEF rs
<1>. QED
  BY <1>1, <1>3, ReleasesKeeps

LEMMA LeakInvStep == LeakInv /\ [TransportsNext]_transportVars => LeakInv'
<1>. SUFFICES ASSUME LeakInv, [TransportsNext]_transportVars PROVE LeakInv'
  OBVIOUS
<1>1. ASSUME NEW c \in ConnectTasks,
             StartConnecting(c) \/ CallSucceeds(c) \/ CallFails(c) \/ Close(c)
      PROVE  LeakInv'
  BY <1>1, StartConnectingKeeps, CallSucceedsKeeps, CallFailsKeeps, CloseKeeps
<1>2. ASSUME NEW c \in SshTasks, LibInit(c) \/ LibCounts(c) PROVE LeakInv'
  BY <1>2, LibInitKeeps, LibCountsKeeps
<1>3. CASE UNCHANGED transportVars
  <2>1. LibHolders' = LibHolders
    BY <1>3 DEF transportVars, LibHolders
  <2>. QED
    BY <1>3, <2>1 DEF transportVars, LeakInv
<1>. QED
  BY <1>1, <1>2, <1>3 DEF TransportsNext

\* Theorem: any number of sessions may connect, fail and close in any order: every failed
\* connect and every close gives back all it acquired, but for a channel that
\* would block, and the count of libssh2's users is that of its sessions as long
\* as no two of them entered libssh2_init() together.
THEOREM NoLeaks == TransportsSpec => []NothingLeaks
<1>1. LeakInv => NothingLeaks
  BY DEF LeakInv, NothingLeaks, LibHolders
<1>. QED
  BY <1>1, LeakInvInit, LeakInvStep, PTL DEF TransportsSpec

\* The tasks that may have added to the count.
Beyond == {c \in SshTasks : step[c] \notin {"idle", "init", "lib"}}

\* The count never exceeds the tasks that may have added to it, nor does what one
\* of them has read of it.
CountInv ==
    /\ TransportsTypeOK
    /\ libUsers <= Cardinality(Beyond)
    /\ \A c \in SshTasks : libSeen[c] <= Cardinality(Beyond)

\* The tasks that may have added are some of them all, and are counted.
LEMMA BeyondCounted ==
    /\ IsFiniteSet(Beyond) /\ Cardinality(Beyond) \in Nat
    /\ Cardinality(SshTasks) \in Nat /\ Cardinality(Beyond) <= Cardinality(SshTasks)
<1>1. Beyond \subseteq SshTasks /\ IsFiniteSet(SshTasks)
  BY TransportsAssumption DEF Beyond
<1> QED
  BY <1>1, FS_Subset, FS_CardinalityType

\* A step of a task that leaves the count or takes from it, and goes on.
LEMMA CountKeeps ==
    ASSUME CountInv, TransportsTypeOK', Beyond \subseteq Beyond', libUsers' <= libUsers,
           UNCHANGED libSeen
    PROVE  CountInv'
<1>1. IsFiniteSet(Beyond') /\ Cardinality(Beyond') \in Nat
  <2>1. Beyond' \subseteq SshTasks /\ IsFiniteSet(SshTasks)
    BY TransportsAssumption DEF Beyond
  <2> QED
    BY <2>1, FS_Subset, FS_CardinalityType
<1>2. Cardinality(Beyond) <= Cardinality(Beyond') /\ Cardinality(Beyond) \in Nat
  BY <1>1, BeyondCounted, FS_Subset
<1>3. libUsers \in Int /\ libUsers' \in Int /\ \A c \in SshTasks : libSeen[c] \in Int
  <2>1. Cardinality(SshTasks) \in Nat
    BY BeyondCounted
  <2> QED
    BY <2>1 DEF CountInv, TransportsTypeOK
<1> HIDE DEF Beyond
<1>4. libUsers' <= Cardinality(Beyond')
  BY <1>1, <1>2, <1>3 DEF CountInv
<1>5. \A c \in SshTasks : libSeen'[c] <= Cardinality(Beyond')
  BY <1>1, <1>2, <1>3 DEF CountInv
<1> QED
  BY <1>4, <1>5 DEF CountInv

AllSteps == {SshCalls[i] : i \in DOMAIN SshCalls} \cup {"select", "idle", "init", "null", "closed"}

LEMMA AllStepsAre ==
    AllSteps = SshSteps \cup {"open", "select", "idle", "init", "null", "closed"}
BY DEF AllSteps, SshCalls, SshSteps

LEMMA CountInvInit == TransportsInit => CountInv
<1> SUFFICES ASSUME TransportsInit PROVE CountInv
  OBVIOUS
<1>1. Beyond = {}
  BY DEF TransportsInit, Beyond, ConnectTasks
<1>2. Cardinality(Beyond) = 0 /\ Cardinality(SshTasks) \in Nat
  BY <1>1, BeyondCounted, FS_EmptySet
<1> HIDE DEF Beyond
<1>3. step \in [ConnectTasks -> AllSteps]
  BY AllStepsAre DEF TransportsInit
<1>4. libUsers \in 0..Cardinality(SshTasks) /\ libSeen \in [SshTasks -> 0..Cardinality(SshTasks)]
  BY <1>2 DEF TransportsInit
<1>5. raced \in BOOLEAN
  BY Zenon DEF TransportsInit
<1>6. acquired \in [ConnectTasks -> SUBSET Resources] /\ wouldBlock \subseteq SshTasks
  BY DEF TransportsInit
<1>7. TransportsTypeOK
  BY <1>3, <1>4, <1>5, <1>6 DEF TransportsTypeOK, AllSteps
<1>8. libUsers = 0 /\ \A c \in SshTasks : libSeen[c] = 0
  BY DEF TransportsInit
<1> QED
  BY <1>2, <1>7, <1>8 DEF CountInv

\* What a release leaves of the types.
LEMMA ReleasesType ==
    ASSUME CountInv, NEW c \in ConnectTasks, NEW rs, Releases(c, rs),
           "channel" \in rs => c \in SshTasks
    PROVE  /\ acquired' \in [ConnectTasks -> SUBSET Resources]
           /\ wouldBlock' \subseteq SshTasks
           /\ libUsers' \in 0..Cardinality(SshTasks) /\ libUsers' <= libUsers
<1>1. /\ acquired \in [ConnectTasks -> SUBSET Resources] /\ wouldBlock \subseteq SshTasks
      /\ libUsers \in 0..Cardinality(SshTasks) /\ Cardinality(SshTasks) \in Nat
  BY BeyondCounted DEF CountInv, TransportsTypeOK
<1>2. acquired' \in [ConnectTasks -> SUBSET Resources] /\ wouldBlock' \subseteq SshTasks
  <2>1. CASE acquired' = [acquired EXCEPT ![c] = @ \ rs] /\ UNCHANGED wouldBlock
    BY <1>1, <2>1
  <2>2. CASE /\ "channel" \in rs
             /\ acquired' = [acquired EXCEPT ![c] = @ \ (rs \ {"channel", "session"})]
             /\ wouldBlock' = wouldBlock \cup {c}
    BY <1>1, <2>2
  <2> QED
    BY <2>1, <2>2 DEF Releases
<1>3. libUsers' = libUsers \/ (libUsers > 0 /\ libUsers' = libUsers - 1)
  BY DEF Releases
<1>4. libUsers' \in 0..Cardinality(SshTasks) /\ libUsers' <= libUsers
  BY <1>1, <1>3
<1> QED
  BY <1>2, <1>4

\* A task that has gone on to a step after its count stays with those that may
\* have added.
LEMMA BeyondGrows ==
    ASSUME CountInv, NEW c \in ConnectTasks, NEW to, step' = [step EXCEPT ![c] = to],
           to \in AllSteps, to \in {"idle", "init", "lib"} => step[c] \in {"idle", "init", "lib"}
    PROVE  step' \in [ConnectTasks -> AllSteps] /\ Beyond \subseteq Beyond'
<1>1. step \in [ConnectTasks -> AllSteps]
  BY DEF CountInv, TransportsTypeOK, AllSteps
<1> HIDE DEF AllSteps
<1>2. step' \in [ConnectTasks -> AllSteps]
  BY <1>1
<1>3. \A d \in ConnectTasks : step'[d] = IF d = c THEN to ELSE step[d]
  BY <1>1
<1>4. SshTasks \subseteq ConnectTasks
  BY DEF ConnectTasks
<1>5. Beyond \subseteq Beyond'
  BY <1>3, <1>4 DEF Beyond
<1> QED
  BY <1>2, <1>5

LEMMA CountInvStep == LeakInv /\ CountInv /\ [TransportsNext]_transportVars => CountInv'
<1> SUFFICES ASSUME LeakInv, CountInv, [TransportsNext]_transportVars PROVE CountInv'
  OBVIOUS
<1>t. /\ TransportsTypeOK
      /\ step \in [ConnectTasks -> AllSteps] /\ acquired \in [ConnectTasks -> SUBSET Resources]
      /\ libUsers \in 0..Cardinality(SshTasks)
      /\ libSeen \in [SshTasks -> 0..Cardinality(SshTasks)]
      /\ raced \in BOOLEAN /\ wouldBlock \subseteq SshTasks
      /\ Cardinality(SshTasks) \in Nat
  BY BeyondCounted DEF CountInv, TransportsTypeOK, AllSteps
<1>n. libUsers' \in Nat => (libUsers' = libUsers => libUsers' <= libUsers)
  OBVIOUS
<1>s. TransportsTypeOK' <=> /\ step' \in [ConnectTasks -> AllSteps]
                            /\ acquired' \in [ConnectTasks -> SUBSET Resources]
                            /\ libUsers' \in 0..Cardinality(SshTasks)
                            /\ libSeen' \in [SshTasks -> 0..Cardinality(SshTasks)]
                            /\ raced' \in BOOLEAN /\ wouldBlock' \subseteq SshTasks
  BY Zenon DEF TransportsTypeOK, AllSteps
<1>1. ASSUME NEW c \in ConnectTasks, StartConnecting(c) PROVE CountInv'
  <2> DEFINE to == IF c \in SshTasks THEN "init" ELSE "handle"
  <2>1. step[c] = "idle" /\ step' = [step EXCEPT ![c] = to]
        /\ UNCHANGED <<acquired, libUsers, libSeen, raced, wouldBlock>>
    BY <1>1 DEF StartConnecting, Goes
  <2>2. to \in AllSteps
    BY AllStepsAre DEF SshSteps
  <2> HIDE DEF to
  <2>3. step' \in [ConnectTasks -> AllSteps] /\ Beyond \subseteq Beyond'
    BY <2>1, <2>2, BeyondGrows
  <2>4. libUsers' <= libUsers
    BY <1>t, <2>1
  <2>5. TransportsTypeOK'
    BY <1>s, <1>t, <2>1, <2>3, Zenon
  <2> QED
    BY <2>1, <2>3, <2>4, <2>5, CountKeeps
<1>2. ASSUME NEW c \in ConnectTasks, CallSucceeds(c) PROVE CountInv'
  <2> DEFINE to == After(c, step[c])
  <2>1. /\ step[c] \in {Calls(c)[i] : i \in 1..(Len(Calls(c)) - 1)} \ {"lib"}
        /\ step' = [step EXCEPT ![c] = to]
        /\ acquired' = [acquired EXCEPT ![c] = IF step[c] = "connect" THEN @ \ {"addr"}
                                               ELSE @ \cup ({step[c]} \cap Resources)]
        /\ UNCHANGED <<libUsers, libSeen, raced, wouldBlock>>
    BY <1>2 DEF CallSucceeds, Goes
  <2>2. step[c] \in (IF c \in SshTasks THEN SshSteps ELSE TelnetSteps) \ {"lib"}
    BY <2>1, CallsOfTask, Zenon
  <2>3. to \in StepsOf(c) \ {"null", "closed"}
    BY <2>2, SucceedsHolds
  <2>4. to \in AllSteps
    BY <2>3, AllStepsAre DEF StepsOf, SshSteps, TelnetSteps
  <2>5. to \notin {"idle", "init", "lib"}
    <3>1. CASE c \in SshTasks
      BY <2>2, <3>1, AfterSsh DEF SshSteps
    <3>2. CASE c \notin SshTasks
      <4>1. c \in TelnetTasks
        BY <3>2 DEF ConnectTasks
      <4> QED
        BY <2>2, <3>2, <4>1, AfterTelnet DEF TelnetSteps
    <3> QED
      BY <3>1, <3>2
  <2>6. acquired' \in [ConnectTasks -> SUBSET Resources]
    BY <1>t, <2>1
  <2> HIDE DEF to
  <2>7. step' \in [ConnectTasks -> AllSteps] /\ Beyond \subseteq Beyond'
    BY <2>1, <2>4, <2>5, BeyondGrows
  <2>8. libUsers' <= libUsers
    BY <1>t, <2>1
  <2>9. TransportsTypeOK'
    BY <1>s, <1>t, <2>1, <2>6, <2>7, Zenon
  <2> QED
    BY <2>1, <2>7, <2>8, <2>9, CountKeeps
<1>3. ASSUME NEW c \in ConnectTasks, NEW rs, NEW to \in {"null", "closed"}, Releases(c, rs),
             "channel" \in rs => c \in SshTasks,
             step' = [step EXCEPT ![c] = to], UNCHANGED <<libSeen, raced>>
      PROVE  CountInv'
  <2>1. /\ acquired' \in [ConnectTasks -> SUBSET Resources] /\ wouldBlock' \subseteq SshTasks
        /\ libUsers' \in 0..Cardinality(SshTasks) /\ libUsers' <= libUsers
    BY <1>3, ReleasesType
  <2>2. to \in AllSteps /\ to \notin {"idle", "init", "lib"}
    BY AllStepsAre
  <2>3. step' \in [ConnectTasks -> AllSteps] /\ Beyond \subseteq Beyond'
    BY <1>3, <2>2, BeyondGrows
  <2>4. TransportsTypeOK'
    BY <1>s, <1>t, <1>3, <2>1, <2>3, Zenon
  <2> QED
    BY <1>3, <2>1, <2>3, <2>4, CountKeeps
<1>4. ASSUME NEW c \in ConnectTasks, CallFails(c) PROVE CountInv'
  <2>1. /\ step[c] \in {Calls(c)[i] : i \in 1..(Len(Calls(c)) - 1)}
        /\ Releases(c, GivesBack(c, step[c]))
        /\ step' = [step EXCEPT ![c] = "null"] /\ UNCHANGED <<libSeen, raced>>
    BY <1>4 DEF CallFails, Goes
  <2>2. step[c] \in IF c \in SshTasks THEN SshSteps ELSE TelnetSteps
    BY <2>1, CallsOfTask, Zenon
  <2>3. c \notin SshTasks => "channel" \notin GivesBack(c, step[c])
    BY <2>2 DEF GivesBack, TelnetGivesBack, TelnetSteps
  <2> HIDE DEF GivesBack
  <2> QED
    BY <1>3, <2>1, <2>3
<1>5. ASSUME NEW c \in ConnectTasks, Close(c) PROVE CountInv'
  <2> DEFINE rs == IF c \in SshTasks THEN FailChannel \cup {"handle"} ELSE {"sock", "handle"}
  <2>1. Releases(c, rs) /\ step' = [step EXCEPT ![c] = "closed"] /\ UNCHANGED <<libSeen, raced>>
    BY <1>5 DEF Close, Goes
  <2>2. "channel" \in rs => c \in SshTasks
    OBVIOUS
  <2> HIDE DEF rs
  <2> QED
    BY <1>3, <2>1, <2>2
<1>6. ASSUME NEW c \in SshTasks, LibInit(c) PROVE CountInv'
  <2>1. step[c] = "init" /\ step' = [step EXCEPT ![c] = "lib"]
        /\ libSeen' = [libSeen EXCEPT ![c] = libUsers]
        /\ UNCHANGED <<acquired, libUsers, raced, wouldBlock>>
    BY <1>6 DEF LibInit, Goes
  <2>2. c \in ConnectTasks /\ SshTasks \subseteq ConnectTasks
    BY DEF ConnectTasks
  <2>3. step' \in [ConnectTasks -> AllSteps]
    BY <1>t, <2>1, <2>2, AllStepsAre DEF SshSteps
  <2>4. Beyond' = Beyond
    <3>1. \A d \in SshTasks : step'[d] = IF d = c THEN "lib" ELSE step[d]
      BY <1>t, <2>1, <2>2
    <3> QED
      BY <2>1, <3>1 DEF Beyond
  <2>5. libSeen' \in [SshTasks -> 0..Cardinality(SshTasks)]
    BY <1>t, <2>1
  <2>6. TransportsTypeOK'
    BY <1>s, <1>t, <2>1, <2>3, <2>5, Zenon
  <2>7. \A d \in SshTasks : libSeen'[d] = IF d = c THEN libUsers ELSE libSeen[d]
    BY <1>t, <2>1
  <2> HIDE DEF Beyond
  <2>8. Cardinality(Beyond') = Cardinality(Beyond)
    BY <2>4
  <2> QED
    BY <2>1, <2>6, <2>7, <2>8 DEF CountInv
<1>7. ASSUME NEW c \in SshTasks, LibCounts(c) PROVE CountInv'
  <2>1. step[c] = "lib" /\ step' = [step EXCEPT ![c] = "addr"]
        /\ libUsers' = libSeen[c] + 1 /\ raced' = (raced \/ libUsers # libSeen[c])
        /\ acquired' = [acquired EXCEPT ![c] = @ \cup {"lib"}]
        /\ UNCHANGED <<libSeen, wouldBlock>>
    BY <1>7 DEF LibCounts, Goes
  <2>2. c \in ConnectTasks /\ SshTasks \subseteq ConnectTasks
    BY DEF ConnectTasks
  <2>3. step' \in [ConnectTasks -> AllSteps]
    BY <1>t, <2>1, <2>2, AllStepsAre DEF SshSteps
  <2>4. Beyond' = Beyond \cup {c} /\ c \notin Beyond
    <3>1. \A d \in SshTasks : step'[d] = IF d = c THEN "addr" ELSE step[d]
      BY <1>t, <2>1, <2>2
    <3> QED
      BY <2>1, <3>1 DEF Beyond
  <2>5. Cardinality(Beyond') = Cardinality(Beyond) + 1 /\ Cardinality(Beyond) \in Nat
    BY <2>4, BeyondCounted, FS_AddElement
  <2>6. Cardinality(Beyond') <= Cardinality(SshTasks)
    <3>1. Beyond' \subseteq SshTasks /\ IsFiniteSet(SshTasks)
      BY TransportsAssumption DEF Beyond
    <3> QED
      BY <3>1, FS_Subset, FS_CardinalityType
  <2> HIDE DEF Beyond
  <2>7. libSeen[c] \in Nat /\ libSeen[c] <= Cardinality(Beyond)
    BY <1>t DEF CountInv
  <2>8. libUsers' \in 0..Cardinality(SshTasks) /\ libUsers' <= Cardinality(Beyond')
    BY <1>t, <2>1, <2>5, <2>6, <2>7
  <2>9. acquired' \in [ConnectTasks -> SUBSET Resources]
    BY <1>t, <2>1 DEF Resources
  <2>10. raced' \in BOOLEAN
    BY <2>1, Zenon
  <2>11. TransportsTypeOK'
    BY <1>s, <1>t, <2>1, <2>3, <2>8, <2>9, <2>10, Zenon
  <2>12. \A d \in SshTasks : libSeen'[d] <= Cardinality(Beyond')
    <3>1. \A d \in SshTasks : libSeen[d] \in Nat /\ libSeen[d] <= Cardinality(Beyond)
      BY <1>t DEF CountInv
    <3> QED
      BY <2>1, <2>5, <3>1
  <2> QED
    BY <2>8, <2>11, <2>12 DEF CountInv
<1>8. CASE UNCHANGED transportVars
  <2>1. UNCHANGED <<step, acquired, libUsers, libSeen, raced, wouldBlock>>
    BY <1>8 DEF transportVars
  <2>2. TransportsTypeOK'
    BY <1>s, <1>t, <2>1, Zenon
  <2>3. Beyond' = Beyond
    BY <2>1 DEF Beyond
  <2>4. libUsers' <= libUsers
    BY <1>t, <2>1
  <2> HIDE DEF Beyond
  <2> QED
    BY <2>1, <2>2, <2>3, <2>4, CountKeeps
<1> QED
  BY <1>1, <1>2, <1>4, <1>5, <1>6, <1>7, <1>8 DEF TransportsNext

-----------------------------------------------------------------------------
(* Services: what holds of each component alone holds of all side by side. *)

LEMMA PartsStart ==
    ServicesInit => /\ WifiInit /\ UiWifiInit /\ HostsInit /\ KeyboardInit /\ TransportsInit
                    /\ OtaInv
<1>1. OtaOver => OtaInv
  BY DEF OtaOver, OtaInv, CpOtaTypeOK
<1>. QED
  BY <1>1, OtaInvInit, Zenon DEF ServicesInit

LEMMA PartsStep ==
    [ServicesNext]_servicesVars =>
        /\ [WifiNext]_wifiVars /\ [UiWifiNext]_uiWifiVars /\ [HostsNext]_hostVars
        /\ [CpOtaNext]_cpOtaVars /\ [KeyboardNext]_kbdVars /\ [TransportsNext]_transportVars
BY Zenon DEF ServicesNext, servicesVars

\* Theorem: the device keeps all of these at once, whichever component moves: a
\* status that follows the link, a link that is looked for, rows that name their
\* network, rows that open the host they show, an edit screen that saves over no
\* other host, a file as the list is, a keyboard that hears and whose keys arrive
\* as they were typed, transports that leak nothing, and every value in its type.
THEOREM ServicesSafe ==
    ServicesSpec => [](/\ StatusFollowsLink /\ NeverStranded /\ RowsNameTheirNetwork
                       /\ RowsAreHosts /\ EditsWhatItShows /\ FileIsCurrent
                       /\ NeverDeaf /\ KeysMeant /\ NothingLeaks
                       /\ ServicesTypeOK)
<1>. DEFINE Inv == /\ StatusInv /\ RowsInv /\ HostsInv /\ FileIsCurrent
                   /\ DeafInv /\ KeysInv /\ LeakInv /\ CountInv /\ OtaInv
<1>1. ServicesInit => Inv
  <2>1. HostsInit => FileIsCurrent
    BY DEF HostsInit, FileIsCurrent
  <2>. QED
    BY <2>1, PartsStart, StatusInvInit, RowsInvInit, HostsInvInit, DeafInvInit, KeysInvInit,
       LeakInvInit, CountInvInit, Zenon
<1>2. Inv /\ [ServicesNext]_servicesVars => Inv'
  <2>. SUFFICES ASSUME Inv, [ServicesNext]_servicesVars PROVE Inv'
    OBVIOUS
  <2>1. StatusInv' /\ RowsInv' /\ FileIsCurrent' /\ HostsInv'
    BY PartsStep, StatusInvStep, RowsInvStep, FileStep, HostsInvStep, Zenon
  <2>2. DeafInv' /\ KeysInv' /\ LeakInv' /\ CountInv' /\ OtaInv'
    BY PartsStep, DeafInvStep, KeysInvStep, LeakInvStep, CountInvStep, OtaInvStep, Zenon
  <2>. QED
    BY <2>1, <2>2, Zenon
<1>3. Inv => /\ StatusFollowsLink /\ NeverStranded /\ RowsNameTheirNetwork
             /\ RowsAreHosts /\ EditsWhatItShows /\ FileIsCurrent
             /\ NeverDeaf /\ KeysMeant /\ NothingLeaks
             /\ ServicesTypeOK
  <2>1. StatusInv => StatusFollowsLink /\ NeverStranded /\ WifiTypeOK
    BY DEF StatusInv, LinkTold, TellsLink, StatusFollowsLink, WifiTypeOK
  <2>2. LeakInv => NothingLeaks
    BY DEF LeakInv, NothingLeaks, LibHolders
  <2>3. KeysInv => KeyboardTypeOK
    BY Zenon DEF KeysInv
  <2>4. HostsInv => HostsTypeOK /\ RowsAreHosts /\ EditsWhatItShows
    BY Zenon DEF HostsInv
  <2>5. CountInv => TransportsTypeOK
    BY Zenon DEF CountInv
  <2>. QED
    BY <2>1, <2>2, <2>3, <2>4, <2>5, KeysInvMeans, Zenon
    DEF RowsInv, DeafInv, OtaInv, ServicesTypeOK
<1>. HIDE DEF Inv
<1>. QED
  BY <1>1, <1>2, <1>3, PTL DEF ServicesSpec

\* Theorem: every value of the six components stays in its type, in particular the
\* count of libssh2's users, which two tasks may read before either writes it.
THEOREM ServicesTypeCorrect == ServicesSpec => []ServicesTypeOK
BY ServicesSafe, PTL

=============================================================================
