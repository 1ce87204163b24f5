-------------------------- MODULE EventTimeProofs ---------------------------
(***************************************************************************)
(* Event time, for any number of partitions, any events, sizes, slides and *)
(* offsets of windows: no watermark is ahead of its justification; the     *)
(* assigners find exactly the windows of an event; the window operator     *)
(* counts an event in these, and the window join gives a passed window's   *)
(* rows once.                                                              *)
(***************************************************************************)
EXTENDS WatermarkManager, WindowOperator, WindowJoin, FiniteSetTheorems, SequenceTheorems,
        WellFoundedInduction, TLAPS

-----------------------------------------------------------------------------
(* The watermark manager.                                                  *)

\* TypeOK without the global watermark, whose type needs the minimum to exist.
Typed ==
    /\ partitionMarks \in [Partitions -> Nat]
    /\ lastEventTime \in [Partitions -> Nat]
    /\ watermarkChan \in Seq(Watermarks)
    /\ Len(watermarkChan) <= ChannelSize
    /\ progress \in [Partitions -> Nat]
    /\ now \in Nat
    /\ now > IdleTimeout
    /\ newest \in [Partitions -> Nat]

\* The inductive invariant.
IInv == Typed /\ globalWatermark \in Nat /\ MarksJustified

(* A nonempty set of times has a minimum. *)
LEMMA MinExists ==
    ASSUME NEW S \in SUBSET Nat, S # {}
    PROVE  Min(S) \in S /\ \A n \in S : Min(S) <= n
<1>1. PICK x \in S : \A y \in S : ~(<<y, x>> \in OpToRel(<, Nat))
    BY NatLessThanWellFounded, WFMin
<1>2. \A y \in S : x <= y
  <2> SUFFICES ASSUME NEW y \in S PROVE x <= y
      OBVIOUS
  <2>1. ~(y < x)
      BY <1>1 DEF OpToRel
  <2> QED
      BY <2>1
<1> QED
    BY <1>2 DEF Min

(* A watermark in the channel carries a time and a partition. *)
LEMMA ChannelTyped ==
    ASSUME Typed, NEW i \in 1..Len(watermarkChan)
    PROVE  watermarkChan[i].partition \in Partitions /\ watermarkChan[i].timestamp \in Nat
<1>1. watermarkChan[i] \in Watermarks
    BY DEF Typed
<1> QED
    BY <1>1 DEF Watermarks

(* The marks after a tick are times, and the ones of known partitions justified. *)
LEMMA RefreshedMarks ==
    ASSUME Typed, MarksJustified
    PROVE  /\ Refreshed \in [Partitions -> Nat]
           /\ \A p \in Partitions : Refreshed[p] = ZeroTime \/ Justified(p, Refreshed[p])
           /\ \A p \in Known : Justified(p, Refreshed[p])
BY WatermarkAssumption
DEF Typed, MarksJustified, Refreshed, Justified, Known, Exists, Idle, ZeroTime

(* What a tick leaves in the channel was there before or is a mark of this tick. *)
LEMMA SentMarks ==
    ASSUME Typed, MarksJustified, NEW order \in SetToSeqs(Known)
    PROVE  /\ Sent(order) \in Seq(Watermarks)
           /\ Len(Sent(order)) <= ChannelSize
           /\ \A i \in 1..Len(Sent(order)) :
                 Justified(Sent(order)[i].partition, Sent(order)[i].timestamp)
<1>1. order \in Seq(Known)
  <2>1. Cardinality(Known) \in Nat
      BY WatermarkAssumption, FS_Subset, FS_CardinalityType DEF Known
  <2>2. order \in [1..Cardinality(Known) -> Known]
      BY DEF SetToSeqs
  <2> QED
      BY <2>1, <2>2
<1>2. /\ Emission(order) \in Seq(Watermarks)
      /\ \A i \in 1..Len(Emission(order)) :
            Justified(Emission(order)[i].partition, Emission(order)[i].timestamp)
  <2>1. \A i \in 1..Len(order) : order[i] \in Known /\ order[i] \in Partitions
      BY <1>1 DEF Known
  <2>2. \A i \in 1..Len(order) :
           /\ [timestamp |-> Refreshed[order[i]], partition |-> order[i]] \in Watermarks
           /\ Justified(order[i], Refreshed[order[i]])
      BY <2>1, RefreshedMarks DEF Watermarks
  <2> QED
      BY <1>1, <2>2 DEF Emission
<1> DEFINE all == watermarkChan \o Emission(order)
           n == IF Len(all) < ChannelSize THEN Len(all) ELSE ChannelSize
<1>3. /\ all \in Seq(Watermarks)
      /\ \A i \in 1..Len(all) : Justified(all[i].partition, all[i].timestamp)
  <2>1. all \in Seq(Watermarks) /\ Len(all) = Len(watermarkChan) + Len(Emission(order))
      BY <1>2 DEF Typed
  <2>2. \A i \in 1..Len(all) :
           \/ i \in 1..Len(watermarkChan) /\ all[i] = watermarkChan[i]
           \/ /\ i - Len(watermarkChan) \in 1..Len(Emission(order))
              /\ all[i] = Emission(order)[i - Len(watermarkChan)]
      BY <1>2, <2>1 DEF Typed
  <2> QED
      BY <1>2, <2>1, <2>2 DEF MarksJustified
<1>4. Sent(order) = SubSeq(all, 1, n) /\ n \in 0..Len(all) /\ n <= ChannelSize
    BY <1>3, WatermarkAssumption DEF Sent
<1> HIDE DEF all, n
<1>5. /\ SubSeq(all, 1, n) \in Seq(Watermarks) /\ Len(SubSeq(all, 1, n)) = n
      /\ \A i \in 1..n : SubSeq(all, 1, n)[i] = all[i] /\ i \in 1..Len(all)
    BY <1>3, <1>4
<1> QED
    BY <1>3, <1>4, <1>5

(* Every step keeps the types and the justifications. *)
LEMMA Step == IInv /\ [Next]_vars => IInv'
<1> SUFFICES ASSUME IInv, [Next]_vars PROVE IInv'
    OBVIOUS
<1>0. Typed /\ MarksJustified /\ globalWatermark \in Nat
    BY DEF IInv
<1>1. ASSUME NEW p \in Partitions, NEW t \in EventTimes, UpdateEventTime(p, t) PROVE IInv'
  <2>1. t \in Nat /\ t - Tolerance \in Nat /\ Tolerance \in Nat /\ t - Tolerance + Tolerance = t
      BY WatermarkAssumption
  <2>2. Typed' /\ globalWatermark' \in Nat
      BY <1>0, <1>1, <2>1 DEF Typed, UpdateEventTime
  <2>3. \A q \in Partitions : newest'[q] >= newest[q]
      BY <1>0, <1>1, <2>1 DEF Typed, UpdateEventTime
  <2>4. \A q \in Partitions, m \in Nat : Justified(q, m) => Justified(q, m)'
      BY <1>0, <1>1, <2>1, <2>2, <2>3 DEF Typed, Justified, UpdateEventTime
  <2>5. \A q \in Partitions : Justified(q, partitionMarks[q])' \/ ~Exists(q)'
      BY <1>0, <1>1, <2>1, <2>2, <2>4
      DEF Typed, MarksJustified, Justified, UpdateEventTime, Exists, ZeroTime
  <2>6. \A q \in Partitions : Justified(q, progress[q])' \/ progress'[q] = ZeroTime
      BY <1>0, <1>1, <2>4 DEF Typed, MarksJustified, UpdateEventTime, Justified
  <2>7. \A i \in 1..Len(watermarkChan) :
           Justified(watermarkChan[i].partition, watermarkChan[i].timestamp)'
    <3> SUFFICES ASSUME NEW i \in 1..Len(watermarkChan)
                 PROVE  Justified(watermarkChan[i].partition, watermarkChan[i].timestamp)'
        OBVIOUS
    <3>1. watermarkChan[i].partition \in Partitions /\ watermarkChan[i].timestamp \in Nat
        BY <1>0, ChannelTyped
    <3>2. watermarkChan' = watermarkChan
        BY <1>1 DEF UpdateEventTime
    <3> QED
        BY <1>0, <2>4, <3>1, <3>2 DEF MarksJustified, Justified
  <2>8. GlobalJustified'
      BY <1>0, <1>1, <2>4 DEF MarksJustified, GlobalJustified, Justified, UpdateEventTime
  <2> QED
      BY <1>1, <2>2, <2>5, <2>6, <2>7, <2>8 DEF IInv, MarksJustified, UpdateEventTime
<1>2. ASSUME NEW order \in SetToSeqs(Known), generateWatermarks(order) PROVE IInv'
  <2>1. /\ partitionMarks' = Refreshed /\ watermarkChan' = Sent(order)
        /\ UNCHANGED <<lastEventTime, progress, now, newest>>
      BY <1>2 DEF generateWatermarks
  <2>2. Typed'
      BY <1>0, <2>1, RefreshedMarks, SentMarks DEF Typed
  <2>3. /\ globalWatermark' \in Nat
        /\ globalWatermark' = globalWatermark \/ \E p \in Known : globalWatermark' = Refreshed[p]
    <3>1. {Refreshed[p] : p \in Known} \in SUBSET Nat
        BY <1>0, RefreshedMarks DEF Known
    <3>2. Known # {} => Min({Refreshed[p] : p \in Known}) \in {Refreshed[p] : p \in Known}
      <4>1. Known # {} => {Refreshed[p] : p \in Known} # {}
          OBVIOUS
      <4> QED
          BY <3>1, <4>1, MinExists
    <3> QED
        BY <1>0, <1>2, <3>1, <3>2 DEF generateWatermarks, AdvanceGlobal
  <2>4. MarksJustified'
    <3>1. \A q, m : Justified(q, m)' <=> Justified(q, m)
        BY <2>1 DEF Justified
    <3>2. GlobalJustified'
        BY <1>0, <2>1, <2>3, <3>1, RefreshedMarks DEF MarksJustified, GlobalJustified, Known, Justified
    <3> QED
        BY <1>0, <2>1, <3>1, <3>2, RefreshedMarks, SentMarks
        DEF MarksJustified, Exists, Justified
  <2> QED
      BY <2>2, <2>3, <2>4 DEF IInv
<1>3. CASE handleWatermark
  <2>1. /\ Head(watermarkChan) \in Watermarks /\ Tail(watermarkChan) \in Seq(Watermarks)
        /\ Head(watermarkChan) = watermarkChan[1] /\ 1 \in 1..Len(watermarkChan)
        /\ Len(Tail(watermarkChan)) = Len(watermarkChan) - 1
        /\ \A i \in 1..Len(Tail(watermarkChan)) :
              Tail(watermarkChan)[i] = watermarkChan[i + 1] /\ i + 1 \in 1..Len(watermarkChan)
      BY <1>0, <1>3 DEF Typed, handleWatermark
  <2>2. /\ Head(watermarkChan).partition \in Partitions
        /\ Head(watermarkChan).timestamp \in Nat
      BY <2>1 DEF Watermarks
  <2>3. Typed' /\ globalWatermark' \in Nat
      BY <1>0, <1>3, <2>1, <2>2, WatermarkAssumption DEF Typed, handleWatermark
  <2>4. MarksJustified'
      BY <1>0, <1>3, <2>1, <2>2
      DEF Typed, MarksJustified, GlobalJustified, Justified, handleWatermark, Exists
  <2> QED
      BY <2>3, <2>4 DEF IInv
<1>4. CASE Tick
  <2>1. Typed' /\ globalWatermark' \in Nat
      BY <1>0, <1>4, WatermarkAssumption DEF Typed, Tick
  <2>2. \A q \in Partitions, m \in Nat : Justified(q, m) => Justified(q, m)'
      BY <1>0, <1>4, WatermarkAssumption DEF Typed, Justified, Tick
  <2>3. \A i \in 1..Len(watermarkChan) :
           watermarkChan[i].partition \in Partitions /\ watermarkChan[i].timestamp \in Nat
      BY <1>0, ChannelTyped
  <2>4. GlobalJustified'
      BY <1>0, <1>4, <2>2 DEF MarksJustified, GlobalJustified, Justified, Tick
  <2>5. MarksJustified'
      BY <1>0, <1>4, <2>2, <2>3, <2>4 DEF Typed, MarksJustified, Justified, Tick, Exists
  <2> QED
      BY <2>1, <2>5 DEF IInv
<1>5. CASE UNCHANGED vars
    BY <1>0, <1>5 DEF vars, IInv, Typed, MarksJustified, GlobalJustified, Justified, Exists
<1> QED
    BY <1>1, <1>2, <1>3, <1>4, <1>5 DEF Next

(* A new manager satisfies the invariant. *)
LEMMA InitIInv == Init => IInv
BY WatermarkAssumption
DEF Init, IInv, Typed, MarksJustified, GlobalJustified, Exists, ZeroTime, Watermarks

(* The inductive invariant of the manager. *)
THEOREM Inductive == Spec => []IInv
BY InitIInv, Step, PTL DEF Spec

(* The manager's maps hold times and its channel never exceeds its capacity. *)
THEOREM TypeCorrect == Spec => []TypeOK
<1>1. IInv => TypeOK
    BY DEF IInv, Typed, TypeOK
<1> QED
    BY Inductive, <1>1, PTL

(* No watermark, in the map, in flight or seen by the engine, is ahead of the newest
   event of its partition less the tolerance and of the idle horizon; the global one is not
   for at least one partition. *)
THEOREM NeverAhead == Spec => []MarksJustified
<1>1. IInv => MarksJustified
    BY DEF IInv
<1> QED
    BY Inductive, <1>1, PTL

-----------------------------------------------------------------------------
(* The assigners.                                                          *)

\* Division with remainder, as the arithmetic backend knows it.
LEMMA Division == ASSUME NEW a \in Int, NEW d \in Int, d > 0 PROVE a = (a \div d) * d + (a % d)
OBVIOUS

\* Quotient and remainder by a positive number.
LEMMA DivMod ==
    ASSUME NEW a \in Int, NEW d \in Nat \ {0}
    PROVE  a \div d \in Int /\ a % d \in 0 .. d - 1 /\ a = (a \div d) * d + (a % d)
<1>1. a \div d \in Int
  OBVIOUS
<1>2. a % d \in 0 .. d - 1
  OBVIOUS
<1>3. d \in Int /\ d > 0
  OBVIOUS
<1>4. a = (a \div d) * d + (a % d)
  BY <1>3, Division
<1>. QED BY <1>1, <1>2, <1>4

\* A positive multiple is at least the number.
LEMMA TimesAtLeast ==
    ASSUME NEW d \in Nat \ {0}, NEW x \in Int, x >= 1
    PROVE  x * d \in Int /\ x * d >= d
OBVIOUS

\* Multiples are ordered as their factors.
LEMMA TimesLess ==
    ASSUME NEW d \in Nat \ {0}, NEW j \in Int, NEW k \in Int, j * d < k * d + d
    PROVE  j <= k
<1>1. SUFFICES ASSUME j - k >= 1 PROVE FALSE
  OBVIOUS
<1>2. (j - k) * d >= d
  BY <1>1, TimesAtLeast
<1>3. (j - k) * d = j * d - k * d
  OBVIOUS
<1>4. j * d \in Int /\ k * d \in Int
  OBVIOUS
<1>. QED BY <1>2, <1>3, <1>4

\* The remainder is zero exactly for multiples.
LEMMA MultipleMod ==
    ASSUME NEW d \in Nat \ {0}, NEW a \in Int
    PROVE  a % d = 0 <=> \E k \in Int : a = k * d
<1>1. ASSUME a % d = 0 PROVE \E k \in Int : a = k * d
  BY <1>1, DivMod
<1>2. ASSUME NEW k \in Int, a = k * d PROVE a % d = 0
  <2>. DEFINE q == a \div d
              r == a % d
  <2>1. q \in Int /\ r \in 0 .. d - 1 /\ a = q * d + r
    BY DivMod
  <2>. HIDE DEF q, r
  <2>2. k * d \in Int /\ q * d \in Int /\ k * d = q * d + r
    BY <1>2, <2>1
  <2>3. k <= q
    BY <2>1, <2>2, TimesLess
  <2>4. q <= k
    BY <2>1, <2>2, TimesLess
  <2>5. k = q
    BY <2>1, <2>3, <2>4
  <2>6. r = 0
    BY <2>1, <2>2, <2>5
  <2>. QED BY <2>6 DEF r
<1>. QED BY <1>1, <1>2

\* The starts of windows that hold a time.
Starts(t, step) == {x \in (t - Size + 1) .. t : (x - Offset) % step = 0}

\* A start is a multiple of the step, moved by the offset.
LEMMA StartIs ==
    ASSUME NEW d \in Nat \ {0}, NEW t \in Nat, NEW x
    PROVE  x \in Starts(t, d) <=> /\ x \in (t - Size + 1) .. t
                                  /\ \E k \in Int : x = k * d + Offset
<1>0. Offset \in Int /\ Size \in Int
  BY AssignerAssumption
<1>1. ASSUME NEW y \in Int PROVE (y - Offset) % d = 0 <=> \E k \in Int : y = k * d + Offset
  <2>1. (y - Offset) % d = 0 <=> \E k \in Int : y - Offset = k * d
    BY <1>0, MultipleMod
  <2>2. \A k \in Int : k * d \in Int
    OBVIOUS
  <2>3. \A k \in Int : y - Offset = k * d <=> y = k * d + Offset
    BY <1>0, <2>2
  <2>. QED BY <2>1, <2>3
<1>2. \A y \in (t - Size + 1) .. t : y \in Int
  BY <1>0
<1>3. x \in Starts(t, d) <=> x \in (t - Size + 1) .. t /\ (x - Offset) % d = 0
  BY DEF Starts
<1>. QED BY <1>1, <1>2, <1>3

\* Truncating and moving by the offset finds the last start before a time.
LEMMA LastStartIs ==
    ASSUME NEW d \in Nat \ {0}, NEW t \in Nat, Offset \in 0 .. d - 1
    PROVE  \E q \in Int : /\ q * d \in Int /\ LastStart(t, d) = q * d + Offset
                          /\ LastStart(t, d) <= t /\ t < LastStart(t, d) + d
<1>. DEFINE p == t \div d
            r == t % d
<1>1. p \in Int /\ r \in 0 .. d - 1 /\ t = p * d + r
  BY DivMod
<1>2. LastStart(t, d) = LET s == (t - r) + Offset IN IF s > t THEN s - d ELSE s
  BY DEF LastStart, TruncateTime
<1>. HIDE DEF p, r
<1>3. p * d \in Int /\ (p - 1) * d = p * d - d /\ p - 1 \in Int
  BY <1>1
<1>4. t - r = p * d /\ Offset \in Int
  BY <1>1, <1>3
<1>. DEFINE s == p * d + Offset
<1>7. LastStart(t, d) = (IF s > t THEN s - d ELSE s) /\ s \in Int
  BY <1>2, <1>3, <1>4
<1>. HIDE DEF s
<1>5. CASE p * d + Offset > t
  <2>0. LastStart(t, d) = s - d
    BY <1>5, <1>7 DEF s
  <2>1. LastStart(t, d) = p * d + Offset - d
    BY <1>3, <1>4, <2>0 DEF s
  <2>2. LastStart(t, d) = (p - 1) * d + Offset /\ (p - 1) * d \in Int
    BY <1>3, <1>4, <2>1
  <2>3. p * d + Offset - d <= t /\ t < p * d + Offset
    BY <1>1, <1>3, <1>5
  <2>. QED BY <1>3, <2>1, <2>2, <2>3
<1>6. CASE ~(p * d + Offset > t)
  <2>1. LastStart(t, d) = p * d + Offset
    BY <1>6, <1>7 DEF s
  <2>2. p * d + Offset <= t /\ t < p * d + Offset + d
    BY <1>1, <1>3, <1>6
  <2>. QED BY <1>1, <1>3, <2>1, <2>2
<1>. QED BY <1>5, <1>6

\* A tumbling window has one start for a time.
LEMMA TumblingStarts ==
    ASSUME NEW t \in Nat, Offset \in 0 .. Size - 1
    PROVE  Starts(t, Size) = {LastStart(t, Size)} /\ LastStart(t, Size) \in Int
<1>0. Size \in Nat \ {0} /\ Offset \in Int
  BY AssignerAssumption
<1>1. PICK q \in Int : /\ q * Size \in Int /\ LastStart(t, Size) = q * Size + Offset
                       /\ LastStart(t, Size) <= t /\ t < LastStart(t, Size) + Size
  BY <1>0, LastStartIs
<1>2. LastStart(t, Size) \in (t - Size + 1) .. t
  BY <1>0, <1>1
<1>3. LastStart(t, Size) \in Starts(t, Size)
  BY <1>0, <1>1, <1>2, StartIs
<1>4. ASSUME NEW x \in Starts(t, Size) PROVE x = LastStart(t, Size)
  <2>1. PICK k \in Int : x = k * Size + Offset
    BY <1>0, StartIs
  <2>2. x \in (t - Size + 1) .. t /\ k * Size \in Int
    BY <1>0, StartIs
  <2>3. k * Size < q * Size + Size /\ q * Size < k * Size + Size
    BY <1>0, <1>1, <2>1, <2>2
  <2>4. k <= q /\ q <= k
    BY <1>0, <2>3, TimesLess
  <2>5. k = q
    BY <2>4
  <2>. QED BY <1>1, <2>1, <2>5
<1>. QED BY <1>0, <1>1, <1>3, <1>4

\* The loop of the sliding assigner, before its limit.
Holding(t) ==
    LET last == LastStart(t, Slide)
    IN  IF last + Size > t THEN (last + Size - t - 1) \div Slide + 1 ELSE 0

\* The starts the loop of the sliding assigner goes through are those of the windows that hold the time.
LEMMA HoldingIs ==
    ASSUME NEW t \in Nat, Offset \in 0 .. Slide - 1, Size <= 1001 * Slide
    PROVE  /\ Holding(t) \in 0 .. 1001
           /\ LastStart(t, Slide) \in Int
           /\ \A x : x \in Starts(t, Slide) <=>
                \E i \in 1 .. Holding(t) : x = LastStart(t, Slide) - (i - 1) * Slide
<1>0. Size \in Nat \ {0} /\ Slide \in Nat \ {0} /\ Offset \in Int
  BY AssignerAssumption
<1>. DEFINE L == LastStart(t, Slide)
            a == L + Size - t - 1
            j == a \div Slide
            r == a % Slide
<1>1. PICK q \in Int : /\ q * Slide \in Int /\ L = q * Slide + Offset /\ L <= t /\ t < L + Slide
  BY <1>0, LastStartIs
<1>2. Holding(t) = IF L + Size > t THEN j + 1 ELSE 0
  BY DEF Holding
<1>. HIDE DEF L
<1>3. L \in Int /\ a \in Int /\ a <= Size - 1 /\ (L + Size > t <=> a >= 0)
  BY <1>0, <1>1
<1>. HIDE DEF a
<1>4. j \in Int /\ r \in 0 .. Slide - 1 /\ a = j * Slide + r
  BY <1>0, <1>3, DivMod
<1>. HIDE DEF j, r
<1>5. j * Slide \in Int /\ 1000 * Slide \in Int /\ 1001 * Slide = 1000 * Slide + Slide
  BY <1>0, <1>4
<1>6. j <= 1000
  <2>1. j * Slide < 1000 * Slide + Slide
    BY <1>0, <1>3, <1>4, <1>5
  <2>. QED BY <1>0, <1>4, <2>1, TimesLess
<1>7. a >= 0 => j >= 0
  <2>1. ASSUME a >= 0 PROVE 0 * Slide < j * Slide + Slide
    BY <1>0, <1>4, <1>5, <2>1
  <2>. QED BY <1>0, <1>4, <2>1, TimesLess
<1>8. Holding(t) \in 0 .. 1001
  BY <1>2, <1>3, <1>4, <1>6, <1>7
<1>9. ASSUME NEW i \in 1 .. Holding(t) PROVE L - (i - 1) * Slide \in Starts(t, Slide)
  <2>1. a >= 0 /\ i \in Nat /\ i - 1 \in Nat /\ i - 1 <= j
    BY <1>2, <1>3, <1>4, <1>7, <1>9
  <2>2. (i - 1) * Slide \in Nat /\ (i - 1) * Slide <= j * Slide
    <3>1. (j - (i - 1)) * Slide >= 0 /\ (j - (i - 1)) * Slide = j * Slide - (i - 1) * Slide
      BY <1>0, <1>4, <2>1
    <3>2. (i - 1) * Slide \in Nat
      BY <1>0, <2>1
    <3>. QED BY <1>5, <3>1, <3>2
  <2>3. L - (i - 1) * Slide \in (t - Size + 1) .. t
    <3>1. (i - 1) * Slide <= L + Size - t - 1
      BY <1>0, <1>3, <1>4, <1>5, <2>2 DEF a
    <3>. HIDE DEF a
    <3>. QED BY <1>0, <1>1, <1>3, <2>2, <3>1
  <2>4. L - (i - 1) * Slide = (q - (i - 1)) * Slide + Offset /\ q - (i - 1) \in Int
    BY <1>0, <1>1, <2>1, <2>2
  <2>. QED BY <1>0, <2>3, <2>4, StartIs
<1>10. ASSUME NEW x \in Starts(t, Slide) PROVE \E i \in 1 .. Holding(t) : x = L - (i - 1) * Slide
  <2>1. PICK k \in Int : x = k * Slide + Offset
    BY <1>0, StartIs
  <2>2. x \in (t - Size + 1) .. t /\ k * Slide \in Int
    BY <1>0, StartIs
  <2>3. k <= q
    <3>1. k * Slide < q * Slide + Slide
      BY <1>0, <1>1, <2>1, <2>2
    <3>. QED BY <1>0, <3>1, TimesLess
  <2>4. (q - k) * Slide = q * Slide - k * Slide /\ q - k \in Nat
    BY <1>0, <1>1, <2>2, <2>3
  <2>5. x = L - (q - k) * Slide /\ (q - k) * Slide \in Int
    BY <1>0, <1>1, <2>1, <2>2, <2>4
  <2>6. (q - k) * Slide >= 0
    BY <1>0, <2>4
  <2>7. (q - k) * Slide <= a
    BY <1>0, <1>1, <1>3, <2>2, <2>5 DEF a
  <2>8. q - k <= j
    <3>1. (q - k) * Slide < j * Slide + Slide
      BY <1>0, <1>4, <1>5, <2>5, <2>7
    <3>. QED BY <1>0, <1>4, <2>4, <3>1, TimesLess
  <2>9. a >= 0
    BY <1>3, <2>5, <2>6, <2>7
  <2>10. (q - k) + 1 \in 1 .. Holding(t) /\ ((q - k) + 1) - 1 = q - k
    BY <1>2, <1>3, <1>4, <2>4, <2>8, <2>9
  <2>. QED BY <2>5, <2>10
<1>. QED BY <1>3, <1>8, <1>9, <1>10 DEF L

\* The hypothesis on an assigner: its offset is less than a window and a slide, and no event
\* has more windows than the 1001 at which SlidingWindows' loop breaks off.
Regular ==
    Offset >= 0 /\ Offset < Size /\ Offset < Slide /\ Size <= 1001 * Slide

\* The windows.
WindowRecords == [start : Int, end : Int]

\* AssignWindows of the tumbling, sliding and session assigners: for every size, slide,
\* offset and event time, the windows an assigner computes are exactly those that hold the time.
THEOREM AssignedAreTheirs ==
    ASSUME Regular, NEW a \in Assigners, NEW e, e.time \in Nat
    PROVE  /\ AssignWindows(a, e) \in Seq(WindowRecords)
           /\ \A w : (\E i \in 1 .. Len(AssignWindows(a, e)) : AssignWindows(a, e)[i] = w)
                       <=> w \in WindowsOf(a, e)
<1>0. Size \in Nat \ {0} /\ Slide \in Nat \ {0} /\ Offset \in Int
  BY AssignerAssumption
<1>. DEFINE t == e.time
            W(x) == [start |-> x, end |-> x + Size]
<1>1. CASE a = "tumbling"
  <2>. DEFINE L == LastStart(t, Size)
  <2>1. AssignWindows(a, e) = <<W(L)>>
    BY <1>1 DEF AssignWindows, TumblingWindows
  <2>2. WindowsOf(a, e) = {W(s) : s \in Starts(t, Size)}
    BY <1>1 DEF WindowsOf, Starts
  <2>3. Starts(t, Size) = {L} /\ L \in Int
    BY <1>0, TumblingStarts DEF Regular
  <2>. HIDE DEF L
  <2>4. W(L) \in WindowRecords
    BY <1>0, <2>3 DEF WindowRecords
  <2>5. WindowsOf(a, e) = {W(L)}
    BY <2>2, <2>3
  <2>. HIDE DEF W
  <2>. QED BY <2>1, <2>4, <2>5
<1>2. CASE a = "session"
  <2>1. AssignWindows(a, e) = <<W(t)>>
    BY <1>2 DEF AssignWindows, SessionWindows
  <2>2. WindowsOf(a, e) = {W(t)}
    BY <1>2 DEF WindowsOf
  <2>3. W(t) \in WindowRecords
    BY <1>0 DEF WindowRecords
  <2>. HIDE DEF W
  <2>. QED BY <2>1, <2>2, <2>3
<1>3. CASE a = "sliding"
  <2>. DEFINE L == LastStart(t, Slide)
              n == Holding(t)
              S(i) == L - (i - 1) * Slide
  <2>1. n \in 0 .. 1001 /\ L \in Int /\ \A x : x \in Starts(t, Slide) <=> \E i \in 1 .. n : x = S(i)
    <3>1. Offset \in 0 .. Slide - 1 /\ Size <= 1001 * Slide /\ t \in Nat
      BY <1>0 DEF Regular
    <3>. HIDE DEF t
    <3>2. /\ Holding(t) \in 0 .. 1001
          /\ LastStart(t, Slide) \in Int
          /\ \A x : x \in Starts(t, Slide) <=>
                \E i \in 1 .. Holding(t) : x = LastStart(t, Slide) - (i - 1) * Slide
      BY <3>1, HoldingIs, ZenonT(30)
    <3>. QED BY <3>2, Zenon
  <2>2. AssignWindows(a, e) = [i \in 1 .. n |-> W(S(i))]
    <3>1. AssignWindows(a, e) = SlidingWindows(t)
      BY <1>3 DEF AssignWindows
    <3>2. SlidingWindows(t) = [i \in 1 .. (IF n > 1001 THEN 1001 ELSE n) |-> W(S(i))]
      BY DEF SlidingWindows, Holding
    <3>. HIDE DEF n, W, S
    <3>3. (IF n > 1001 THEN 1001 ELSE n) = n
      BY <2>1
    <3>. QED BY <3>1, <3>2, <3>3
  <2>3. WindowsOf(a, e) = {W(s) : s \in Starts(t, Slide)}
    BY <1>3 DEF WindowsOf, Starts
  <2>4. \A i \in 1 .. n : S(i) \in Int
    BY <1>0, <2>1
  <2>. HIDE DEF n, S
  <2>5. \A i \in 1 .. n : W(S(i)) \in WindowRecords
    BY <1>0, <2>4 DEF WindowRecords
  <2>. HIDE DEF W
  <2>6. AssignWindows(a, e) \in Seq(WindowRecords) /\ Len(AssignWindows(a, e)) = n
    BY <2>1, <2>2, <2>5
  <2>7. \A i \in 1 .. n : AssignWindows(a, e)[i] = W(S(i))
    BY <2>2
  <2>. QED BY <2>1, <2>3, <2>6, <2>7
<1>. QED BY <1>1, <1>2, <1>3 DEF Assigners

\* The keys of an assigner tell the windows of these events apart.
KeysTell(a, events) ==
    \A d, e \in events : \A v \in WindowsOf(a, d), w \in WindowsOf(a, e) :
        windowKey(d.key, v) = windowKey(e.key, w) => v = w

\* The windows begin and end at whole seconds.
WholeSeconds == Size % SecondTicks = 0 /\ Slide % SecondTicks = 0 /\ Offset % SecondTicks = 0

\* A window begins at a whole second.
LEMMA StartsAtSeconds ==
    ASSUME NEW d \in Nat \ {0}, d % SecondTicks = 0, Offset % SecondTicks = 0, NEW t \in Nat,
           NEW x \in Starts(t, d)
    PROVE  x \in Int /\ x = (x \div SecondTicks) * SecondTicks
<1>0. Offset \in Int /\ Size \in Int /\ SecondTicks \in Nat \ {0} /\ d \in Int
  BY AssignerAssumption
<1>1. PICK k \in Int : x = k * d + Offset
  BY StartIs
<1>2. PICK m \in Int : d = m * SecondTicks
  BY <1>0, MultipleMod
<1>3. PICK o \in Int : Offset = o * SecondTicks
  BY <1>0, MultipleMod
<1>4. k * (m * SecondTicks) = (k * m) * SecondTicks
  BY <1>0
<1>5. (k * m) * SecondTicks + o * SecondTicks = (k * m + o) * SecondTicks /\ k * m + o \in Int
  BY <1>0
<1>6. x = (k * m + o) * SecondTicks
  BY <1>1, <1>2, <1>3, <1>4, <1>5
<1>7. x \in Int
  BY <1>0, <1>5, <1>6
<1>8. x % SecondTicks = 0
  BY <1>0, <1>5, <1>6, <1>7, MultipleMod
<1>9. x \div SecondTicks \in Int /\ x = (x \div SecondTicks) * SecondTicks + (x % SecondTicks)
  BY <1>0, <1>7, DivMod
<1>10. (x \div SecondTicks) * SecondTicks \in Int
  BY <1>0, <1>9
<1>. QED BY <1>7, <1>8, <1>9, <1>10

\* Windows that begin and end at whole seconds have keys that tell them apart.
LEMMA WholeSecondsTell ==
    ASSUME WholeSeconds, NEW a \in {"tumbling", "sliding"}, NEW events, \A e \in events : e.time \in Nat
    PROVE  KeysTell(a, events)
<1>. SUFFICES ASSUME NEW d \in events, NEW e \in events, NEW v \in WindowsOf(a, d), NEW w \in WindowsOf(a, e),
                     windowKey(d.key, v) = windowKey(e.key, w)
              PROVE  v = w
  BY DEF KeysTell
<1>. DEFINE step == IF a = "tumbling" THEN Size ELSE Slide
<1>1. step \in Nat \ {0} /\ step % SecondTicks = 0
  BY AssignerAssumption DEF WholeSeconds
<1>2. /\ WindowsOf(a, d) = {[start |-> s, end |-> s + Size] : s \in Starts(d.time, step)}
      /\ WindowsOf(a, e) = {[start |-> s, end |-> s + Size] : s \in Starts(e.time, step)}
  BY DEF WindowsOf, Starts
<1>. HIDE DEF step
<1>3. PICK x \in Starts(d.time, step) : v = [start |-> x, end |-> x + Size]
  BY <1>2
<1>4. PICK y \in Starts(e.time, step) : w = [start |-> y, end |-> y + Size]
  BY <1>2
<1>5. x \div SecondTicks = y \div SecondTicks
  BY <1>3, <1>4 DEF windowKey
<1>6. x = (x \div SecondTicks) * SecondTicks /\ y = (y \div SecondTicks) * SecondTicks
  BY <1>1, StartsAtSeconds DEF WholeSeconds
<1>. QED BY <1>3, <1>4, <1>5, <1>6

-----------------------------------------------------------------------------
(* The window operator.                                                    *)

\* Where Process may be.
Ats == {"ready", "update", "element", "fire", "failed", "done"}

\* What Process may have to do.
ProcessSteps == [todo : Seq(WindowRecords), at : Ats]

\* The states of a window.
WindowStates == [window : WindowRecords, acc : SUBSET WindowEvents, count : Nat, spoiled : BOOLEAN]

\* Type invariant of the window operator.
WindowTypeOK ==
    /\ assigner \in Assigners
    /\ process \in [WindowEvents -> ProcessSteps]
    /\ finished \subseteq WindowEvents
    /\ \A k \in DOMAIN windows : windows[k] \in WindowStates
    /\ watermarkAt \in Int /\ watermarkAt >= -1

\* A window counts an event, or an error has reset it.
CountedIn(ws, e, w) ==
    LET k == windowKey(e.key, w)
    IN  k \in DOMAIN ws /\ (ws[k].spoiled \/ e \in ws[k].acc)

\* In the windows as they are.
Counted(e, w) == CountedIn(windows, e, w)

\* Process still has to count the event in window w.
InTodo(e, w) == \E i \in 1 .. Len(process[e].todo) : process[e].todo[i] = w

\* What Process still has to do is about windows of its event.
TodoTheirs ==
    \A e \in WindowEvents : process[e].at \in {"update", "element", "fire"} =>
        \A w : InTodo(e, w) => w \in WindowsOf(assigner, e)

\* An event in process is counted by those of its windows that are not still to do; the
\* window at the head of the list has counted it once the trigger is asked.
CountedOrTodo ==
    \A e \in WindowEvents : process[e].at \in {"update", "element", "fire"} =>
        /\ \A w \in WindowsOf(assigner, e) : Counted(e, w) \/ InTodo(e, w)
        /\ process[e].at # "update" => /\ process[e].todo # <<>>
                                       /\ Counted(e, Head(process[e].todo))

\* An event whose Process has returned is counted by its windows.
FinishedCounted ==
    \A e \in finished : \A w \in WindowsOf(assigner, e) : Counted(e, w)

\* A window counts its own events only.
AccTheirs == \A k \in DOMAIN windows : \A e \in windows[k].acc : k \in KeysOf(assigner, e)

\* The key of a window is made of the window that was first to have it.
KeyOfWindow ==
    \A k \in DOMAIN windows : \E e \in WindowEvents :
        windows[k].window \in WindowsOf(assigner, e) /\ k = windowKey(e.key, windows[k].window)

\* The inductive invariant of the window operator.
WindowInv ==
    /\ WindowTypeOK /\ TodoTheirs /\ CountedOrTodo /\ FinishedCounted /\ AccTheirs /\ KeyOfWindow

\* The type of an event not yet processed.
LEMMA NotStartedIs == NotStarted \in ProcessSteps /\ NotStarted.at = "ready"
BY EmptySeq DEF NotStarted, ProcessSteps, Ats

\* The invariant holds at the start.
LEMMA WindowStarts == ASSUME WindowInit PROVE WindowInv
<1>1. /\ DOMAIN windows = {} /\ finished = {} /\ assigner \in Assigners /\ watermarkAt = -1
      /\ process = [e \in WindowEvents |-> NotStarted]
  BY DEF WindowInit, Empty
<1>. QED
  BY <1>1, NotStartedIs DEF WindowInv, WindowTypeOK, TodoTheirs, CountedOrTodo, FinishedCounted, AccTheirs,
     KeyOfWindow

\* A step that leaves the windows alone and changes the Process of one event at most.
LEMMA ProcessKeeps ==
    ASSUME WindowInv, windows' = windows, assigner' = assigner, watermarkAt' \in Int, watermarkAt' >= -1,
           NEW e \in WindowEvents, NEW p \in ProcessSteps, process' = [process EXCEPT ![e] = p],
           p.at \in {"update", "element", "fire"} =>
             /\ \A i \in 1 .. Len(p.todo) : p.todo[i] \in WindowsOf(assigner, e)
             /\ \A w \in WindowsOf(assigner, e) : Counted(e, w) \/ \E i \in 1 .. Len(p.todo) : p.todo[i] = w
             /\ p.at # "update" => p.todo # <<>> /\ Counted(e, Head(p.todo)),
           finished' = finished \/ (/\ finished' = finished \cup {e}
                                    /\ \A w \in WindowsOf(assigner, e) : Counted(e, w))
    PROVE  WindowInv'
<1>1. WindowTypeOK'
  BY DEF WindowInv, WindowTypeOK
<1>2. \A d, w : Counted(d, w)' <=> Counted(d, w)
  BY DEF Counted, CountedIn
<1>3. /\ process'[e] = p /\ \A d \in WindowEvents : d # e => process'[d] = process[d]
  BY DEF WindowInv, WindowTypeOK
<1>4. TodoTheirs'
  BY <1>3 DEF WindowInv, TodoTheirs, InTodo
<1>5. CountedOrTodo'
  BY <1>2, <1>3 DEF WindowInv, CountedOrTodo, InTodo
<1>6. FinishedCounted'
  BY <1>2 DEF WindowInv, FinishedCounted
<1>7. AccTheirs' /\ KeyOfWindow'
  BY DEF WindowInv, AccTheirs, KeyOfWindow
<1>. QED BY <1>1, <1>4, <1>5, <1>6, <1>7 DEF WindowInv

\* Process begins with all the windows of the event.
LEMMA BeginKeepsWindows == ASSUME Regular, WindowInv, NEW e \in WindowEvents, BeginProcess(e) PROVE WindowInv'
<1>. DEFINE p == [todo |-> AssignWindows(assigner, e), at |-> "update"]
<1>1. /\ process' = [process EXCEPT ![e] = p]
      /\ UNCHANGED <<windows, assigner, finished, watermarkAt>>
  BY DEF BeginProcess
<1>2. e.time \in Nat /\ assigner \in Assigners
  BY WindowAssumption DEF WindowInv, WindowTypeOK
<1>3. /\ AssignWindows(assigner, e) \in Seq(WindowRecords)
      /\ \A w : (\E i \in 1 .. Len(AssignWindows(assigner, e)) : AssignWindows(assigner, e)[i] = w)
                       <=> w \in WindowsOf(assigner, e)
  BY <1>2, AssignedAreTheirs
<1>4. p \in ProcessSteps /\ p.todo = AssignWindows(assigner, e) /\ p.at = "update"
  BY <1>3 DEF ProcessSteps, Ats
<1>5. /\ \A i \in 1 .. Len(p.todo) : p.todo[i] \in WindowsOf(assigner, e)
      /\ \A w \in WindowsOf(assigner, e) : \E i \in 1 .. Len(p.todo) : p.todo[i] = w
  BY <1>3, <1>4
<1>6. watermarkAt' \in Int /\ watermarkAt' >= -1
  BY <1>1 DEF WindowInv, WindowTypeOK
<1>. HIDE DEF p
<1>. QED BY <1>1, <1>4, <1>5, <1>6, ProcessKeeps

\* Of a list that is not empty: its head, and the rest.
LEMMA HeadOrTail ==
    ASSUME NEW D, NEW s \in Seq(D), s # <<>>
    PROVE  /\ Head(s) \in D /\ Tail(s) \in Seq(D) /\ Head(s) = s[1] /\ 1 \in 1 .. Len(s)
           /\ \A x : (\E i \in 1 .. Len(s) : s[i] = x)
                       <=> x = Head(s) \/ \E i \in 1 .. Len(Tail(s)) : Tail(s)[i] = x
<1>1. /\ Head(s) \in D /\ Tail(s) \in Seq(D) /\ Len(s) \in Nat /\ Len(s) # 0 /\ Len(Tail(s)) = Len(s) - 1
      /\ \A i \in 1 .. Len(Tail(s)) : Tail(s)[i] = s[i + 1]
  BY HeadTailProperties, EmptySeq, LenProperties
<1>2. Head(s) = s[1] /\ 1 \in 1 .. Len(s)
  BY <1>1
<1>3. \A i \in 1 .. Len(s) : i = 1 \/ (i - 1 \in 1 .. Len(Tail(s)) /\ (i - 1) + 1 = i)
  BY <1>1
<1>4. \A i \in 1 .. Len(Tail(s)) : i + 1 \in 1 .. Len(s)
  BY <1>1
<1>5. \A i \in 1 .. Len(s) : s[i] = Head(s) \/ \E j \in 1 .. Len(Tail(s)) : Tail(s)[j] = s[i]
  BY <1>1, <1>2, <1>3
<1>6. \A j \in 1 .. Len(Tail(s)) : \E i \in 1 .. Len(s) : s[i] = Tail(s)[j]
  BY <1>1, <1>4
<1>. QED BY <1>1, <1>2, <1>5, <1>6

\* Process has done with the window at the head of the list.
LEMMA NextWindowKeeps ==
    ASSUME WindowInv, NEW e \in WindowEvents, process[e].at \in {"element", "fire"},
           process' = [process EXCEPT ![e] = [todo |-> Tail(process[e].todo), at |-> "update"]],
           UNCHANGED <<windows, assigner, finished, watermarkAt>>
    PROVE  WindowInv'
<1>. DEFINE s == process[e].todo
            p == [todo |-> Tail(s), at |-> "update"]
<1>1. s \in Seq(WindowRecords) /\ s # <<>> /\ Counted(e, Head(s))
  BY DEF WindowInv, WindowTypeOK, CountedOrTodo, ProcessSteps
<1>2. /\ Tail(s) \in Seq(WindowRecords)
      /\ \A x : (\E i \in 1 .. Len(s) : s[i] = x)
                       <=> x = Head(s) \/ \E i \in 1 .. Len(Tail(s)) : Tail(s)[i] = x
  BY <1>1, HeadOrTail
<1>3. p \in ProcessSteps /\ p.todo = Tail(s) /\ p.at = "update"
  BY <1>2 DEF ProcessSteps, Ats
<1>4. \A w : InTodo(e, w) <=> \E i \in 1 .. Len(s) : s[i] = w
  BY DEF InTodo
<1>. HIDE DEF s
<1>5. \A i \in 1 .. Len(Tail(s)) : Tail(s)[i] \in WindowsOf(assigner, e)
  BY <1>2, <1>4 DEF WindowInv, TodoTheirs
<1>6. \A w \in WindowsOf(assigner, e) : Counted(e, w) \/ \E i \in 1 .. Len(Tail(s)) : Tail(s)[i] = w
  BY <1>1, <1>2, <1>4 DEF WindowInv, CountedOrTodo
<1>7. watermarkAt' \in Int /\ watermarkAt' >= -1
  BY DEF WindowInv, WindowTypeOK
<1>8. process' = [process EXCEPT ![e] = p]
  BY DEF s
<1>9. /\ \A i \in 1 .. Len(p.todo) : p.todo[i] \in WindowsOf(assigner, e)
      /\ \A w \in WindowsOf(assigner, e) : Counted(e, w) \/ \E i \in 1 .. Len(p.todo) : p.todo[i] = w
      /\ p.at = "update"
  BY <1>3, <1>5, <1>6
<1>10. p \in ProcessSteps
  BY <1>3
<1>. HIDE DEF p
<1>11. p.at \in {"update", "element", "fire"} =>
             /\ \A i \in 1 .. Len(p.todo) : p.todo[i] \in WindowsOf(assigner, e)
             /\ \A w \in WindowsOf(assigner, e) : Counted(e, w) \/ \E i \in 1 .. Len(p.todo) : p.todo[i] = w
             /\ p.at # "update" => p.todo # <<>> /\ Counted(e, Head(p.todo))
  BY <1>9
<1>12. UNCHANGED <<windows, assigner, watermarkAt>> /\ finished' = finished
  OBVIOUS
<1>. QED BY <1>7, <1>8, <1>10, <1>11, <1>12, ProcessKeeps

\* The trigger is asked about a window that has counted the event.
LEMMA AskKeeps == ASSUME WindowInv, NEW e \in WindowEvents, AskTrigger(e) PROVE WindowInv'
<1>1. process[e].at = "element" /\ UNCHANGED <<windows, assigner, finished, watermarkAt>>
  BY DEF AskTrigger
<1>2. CASE OnElement = "Fire"
  <2>. DEFINE p == [process[e] EXCEPT !.at = "fire"]
  <2>1. process' = [process EXCEPT ![e] = p]
    BY <1>2 DEF AskTrigger
  <2>2. process[e] \in ProcessSteps
    BY DEF WindowInv, WindowTypeOK
  <2>3. p \in ProcessSteps /\ p.todo = process[e].todo /\ p.at = "fire"
    BY <2>2 DEF ProcessSteps, Ats
  <2>. HIDE DEF p
  <2>4. /\ \A i \in 1 .. Len(p.todo) : p.todo[i] \in WindowsOf(assigner, e)
        /\ \A w \in WindowsOf(assigner, e) : Counted(e, w) \/ \E i \in 1 .. Len(p.todo) : p.todo[i] = w
        /\ p.todo # <<>> /\ Counted(e, Head(p.todo))
    BY <1>1, <2>3 DEF WindowInv, TodoTheirs, CountedOrTodo, InTodo
  <2>5. watermarkAt' \in Int /\ watermarkAt' >= -1
    BY <1>1 DEF WindowInv, WindowTypeOK
  <2>. QED BY <1>1, <2>1, <2>3, <2>4, <2>5, ProcessKeeps
<1>3. CASE OnElement # "Fire"
  <2>1. process' = [process EXCEPT ![e] = [todo |-> Tail(process[e].todo), at |-> "update"]]
    BY <1>3 DEF AskTrigger
  <2>. QED BY <1>1, <2>1, NextWindowKeeps
<1>. QED BY <1>2, <1>3

\* A window that fires on an element is done with.
LEMMA FireKeeps == ASSUME WindowInv, NEW e \in WindowEvents, FireOnElement(e) PROVE WindowInv'
BY NextWindowKeeps DEF FireOnElement

\* Process returns when every window has counted the event.
LEMMA ReturnKeeps == ASSUME WindowInv, NEW e \in WindowEvents, ReturnProcess(e) PROVE WindowInv'
<1>. DEFINE p == [process[e] EXCEPT !.at = "done"]
<1>1. /\ process[e].at = "update" /\ process[e].todo = <<>>
      /\ process' = [process EXCEPT ![e] = p] /\ finished' = finished \cup {e}
      /\ UNCHANGED <<windows, assigner, watermarkAt>>
  BY DEF ReturnProcess
<1>2. process[e] \in ProcessSteps
  BY DEF WindowInv, WindowTypeOK
<1>3. p \in ProcessSteps /\ p.at = "done"
  BY <1>2 DEF ProcessSteps, Ats
<1>. HIDE DEF p
<1>4. \A w : ~InTodo(e, w)
  BY <1>1, EmptySeq DEF InTodo
<1>5. \A w \in WindowsOf(assigner, e) : Counted(e, w)
  BY <1>1, <1>4 DEF WindowInv, CountedOrTodo
<1>6. watermarkAt' \in Int /\ watermarkAt' >= -1
  BY <1>1 DEF WindowInv, WindowTypeOK
<1>. QED BY <1>1, <1>3, <1>5, <1>6, ProcessKeeps

\* A window counts the event, or is reset by its error.
LEMMA UpdateKeepsWindows == ASSUME WindowInv, NEW e \in WindowEvents, UpdateWindow(e) PROVE WindowInv'
<1>. DEFINE s == process[e].todo
            w0 == Head(s)
            k0 == windowKey(e.key, w0)
            old == IF k0 \in DOMAIN windows THEN windows[k0]
                   ELSE [window |-> w0, acc |-> {}, count |-> 0, spoiled |-> FALSE]
            new == [old EXCEPT !.count = @ + 1,
                               !.acc = IF e \in Poison THEN {} ELSE @ \cup {e},
                               !.spoiled = @ \/ e \in Poison]
            p == [process[e] EXCEPT !.at = IF e \in Poison THEN "failed" ELSE "element"]
<1>1. /\ process[e].at = "update" /\ s # <<>>
      /\ windows' = [x \in DOMAIN windows \cup {k0} |-> IF x = k0 THEN new ELSE windows[x]]
      /\ process' = [process EXCEPT ![e] = p]
      /\ UNCHANGED <<assigner, finished, watermarkAt>>
  BY DEF UpdateWindow
<1>2. process[e] \in ProcessSteps /\ s \in Seq(WindowRecords)
  BY DEF WindowInv, WindowTypeOK, ProcessSteps
<1>3. w0 \in WindowRecords /\ InTodo(e, w0)
  BY <1>1, <1>2, HeadOrTail DEF InTodo
<1>4. w0 \in WindowsOf(assigner, e) /\ k0 \in KeysOf(assigner, e)
  BY <1>1, <1>3 DEF WindowInv, TodoTheirs, KeysOf
<1>5. p \in ProcessSteps /\ p.todo = s /\ p.at = IF e \in Poison THEN "failed" ELSE "element"
  BY <1>2 DEF ProcessSteps, Ats
<1>6. old \in WindowStates
  BY <1>3 DEF WindowInv, WindowTypeOK, WindowStates
<1>7. /\ k0 \in DOMAIN windows => old = windows[k0]
      /\ k0 \notin DOMAIN windows => old.acc = {} /\ old.window = w0
  OBVIOUS
<1>. HIDE DEF p, old
<1>8. /\ new \in WindowStates
      /\ new.window = old.window
      /\ new.acc \subseteq old.acc \cup {e}
      /\ new.spoiled \/ (e \in new.acc /\ old.acc \subseteq new.acc)
      /\ old.spoiled => new.spoiled
  <2>1. old.acc \in SUBSET WindowEvents /\ old.count \in Nat /\ old.window \in WindowRecords /\ old.spoiled \in BOOLEAN
    BY <1>6 DEF WindowStates
  <2>2. /\ new.window = old.window /\ new.count = old.count + 1
        /\ new.acc = IF e \in Poison THEN {} ELSE old.acc \cup {e}
        /\ new.spoiled = (old.spoiled \/ e \in Poison)
    BY <1>6 DEF WindowStates
  <2>3. new = [window |-> new.window, acc |-> new.acc, count |-> new.count, spoiled |-> new.spoiled]
    <3>1. old = [window |-> old.window, acc |-> old.acc, count |-> old.count, spoiled |-> old.spoiled]
      BY <1>6 DEF WindowStates
    <3>2. DOMAIN new = {"window", "acc", "count", "spoiled"}
      BY <3>1
    <3>3. new = [x \in DOMAIN new |-> new[x]]
      OBVIOUS
    <3>. HIDE DEF new
    <3>. QED BY <3>2, <3>3
  <2>. HIDE DEF new
  <2>4. new.acc \in SUBSET WindowEvents /\ new.count \in Nat /\ new.window \in WindowRecords
    BY <2>1, <2>2
  <2>5. new.spoiled \in BOOLEAN /\ (old.spoiled => new.spoiled) /\ (e \in Poison => new.spoiled)
    BY <2>1, <2>2, Zenon
  <2>6. new \in WindowStates
    BY <2>3, <2>4, <2>5 DEF WindowStates
  <2>7. new.acc \subseteq old.acc \cup {e} /\ (e \notin Poison => e \in new.acc /\ old.acc \subseteq new.acc)
    BY <2>2
  <2>. QED BY <2>2, <2>5, <2>6, <2>7
<1>. HIDE DEF new
<1>9. /\ DOMAIN windows' = DOMAIN windows \cup {k0}
      /\ windows'[k0] = new
      /\ \A k \in DOMAIN windows : k # k0 => windows'[k] = windows[k]
  BY <1>1
<1>10. \A k \in DOMAIN windows : /\ windows[k].spoiled => windows'[k].spoiled
                                 /\ windows'[k].spoiled \/ windows[k].acc \subseteq windows'[k].acc
  BY <1>7, <1>8, <1>9
<1>11. \A d, w : Counted(d, w) => Counted(d, w)'
  BY <1>9, <1>10 DEF Counted, CountedIn
<1>12. CountedIn(windows', e, w0)
  BY <1>8, <1>9 DEF CountedIn
<1>13. /\ process'[e] = p /\ \A d \in WindowEvents : d # e => process'[d] = process[d]
  BY <1>1 DEF WindowInv, WindowTypeOK
<1>14. WindowTypeOK'
  BY <1>1, <1>5, <1>8, <1>9 DEF WindowInv, WindowTypeOK
<1>15. \A d \in WindowEvents : \A w : InTodo(d, w)' <=> InTodo(d, w)
  BY <1>5, <1>13 DEF InTodo
<1>16. \A d \in WindowEvents : process'[d].at \in {"update", "element", "fire"}
                                 => process[d].at \in {"update", "element", "fire"}
  BY <1>1, <1>13
<1>17. TodoTheirs'
  BY <1>1, <1>15, <1>16 DEF WindowInv, TodoTheirs
<1>18. CountedOrTodo'
  <2>1. ASSUME NEW d \in WindowEvents, process'[d].at \in {"update", "element", "fire"}
        PROVE  \A w \in WindowsOf(assigner', d) : Counted(d, w)' \/ InTodo(d, w)'
    BY <1>1, <1>11, <1>15, <1>16, <2>1 DEF WindowInv, CountedOrTodo
  <2>2. ASSUME NEW d \in WindowEvents, process'[d].at \in {"element", "fire"}
        PROVE  process'[d].todo # <<>> /\ CountedIn(windows', d, Head(process'[d].todo))
    <3>1. CASE d = e
      <4>1. process'[d].todo = s /\ s # <<>> /\ CountedIn(windows', e, w0)
        BY <1>1, <1>5, <1>12, <1>13, <3>1
      <4>. QED BY <3>1, <4>1
    <3>2. CASE d # e
      <4>1. process'[d] = process[d] /\ process[d].todo # <<>> /\ Counted(d, Head(process[d].todo))
        BY <1>13, <2>2, <3>2 DEF WindowInv, CountedOrTodo
      <4>2. CountedIn(windows', d, Head(process[d].todo))
        BY <1>11, <4>1 DEF Counted
      <4>. QED BY <4>1, <4>2
    <3>. QED BY <3>1, <3>2
  <2>. QED BY <2>1, <2>2 DEF CountedOrTodo, Counted
<1>19. FinishedCounted'
  BY <1>1, <1>11 DEF WindowInv, FinishedCounted
<1>20. AccTheirs'
  BY <1>1, <1>4, <1>7, <1>8, <1>9 DEF WindowInv, AccTheirs
<1>21. KeyOfWindow'
  BY <1>1, <1>4, <1>7, <1>8, <1>9 DEF WindowInv, KeyOfWindow
<1>. QED BY <1>14, <1>17, <1>18, <1>19, <1>20, <1>21 DEF WindowInv

\* A watermark changes no window.
LEMMA MarkKeeps == ASSUME WindowInv, NEW mark \in 0 .. MaxWatermark, OnWatermark(mark) PROVE WindowInv'
<1>1. watermarkAt' = mark /\ UNCHANGED <<windows, assigner, process, finished>>
  BY DEF OnWatermark
<1>2. mark \in Int /\ mark >= -1
  BY WindowAssumption
<1>. QED
  BY <1>1, <1>2 DEF WindowInv, WindowTypeOK, TodoTheirs, CountedOrTodo, FinishedCounted, AccTheirs, KeyOfWindow,
     InTodo, Counted, CountedIn

\* A restart begins with no window, and with the events that were in process.
LEMMA RestartKeepsWindows == ASSUME WindowInv, Restart PROVE WindowInv'
<1>1. /\ DOMAIN windows' = {} /\ finished' = {} /\ watermarkAt' = -1 /\ assigner' = assigner
      /\ process' = [e \in WindowEvents |-> IF process[e].at = "done" THEN process[e] ELSE NotStarted]
  BY DEF Restart, RestoreState, Empty
<1>2. process' \in [WindowEvents -> ProcessSteps] /\ \A e \in WindowEvents : process'[e].at \in {"done", "ready"}
  BY <1>1, NotStartedIs DEF WindowInv, WindowTypeOK
<1>. QED
  BY <1>1, <1>2 DEF WindowInv, WindowTypeOK, TodoTheirs, CountedOrTodo, FinishedCounted, AccTheirs, KeyOfWindow

\* The invariant holds in every state.
LEMMA WindowInvAlways == Regular => (WindowSpec => []WindowInv)
<1>. SUFFICES ASSUME Regular PROVE WindowSpec => []WindowInv
  OBVIOUS
<1>1. WindowInit => WindowInv
  BY WindowStarts
<1>2. WindowInv /\ [WindowNext]_windowVars => WindowInv'
  <2>. SUFFICES ASSUME WindowInv, [WindowNext]_windowVars PROVE WindowInv'
    OBVIOUS
  <2>1. CASE \E e \in WindowEvents : WindowProcess(e)
    BY <2>1, BeginKeepsWindows, UpdateKeepsWindows, AskKeeps, FireKeeps, ReturnKeeps DEF WindowProcess
  <2>2. CASE \E mark \in 0 .. MaxWatermark : OnWatermark(mark)
    BY <2>2, MarkKeeps
  <2>3. CASE Restart
    BY <2>3, RestartKeepsWindows
  <2>4. CASE UNCHANGED windowVars
    BY <2>4 DEF windowVars, WindowInv, WindowTypeOK, TodoTheirs, CountedOrTodo, FinishedCounted, AccTheirs,
       KeyOfWindow, InTodo, Counted, CountedIn
  <2>. QED BY <2>1, <2>2, <2>3, <2>4 DEF WindowNext
<1>. QED BY <1>1, <1>2, PTL DEF WindowSpec

\* WindowOperator.Process: however workers interleave, an event whose Process returned is in the
\* aggregate of every window that holds its time and of no other, those an error reset excepted.
THEOREM WindowsExact == Regular => (WindowSpec => []EventsInTheirWindows)
<1>. SUFFICES ASSUME Regular PROVE WindowSpec => []EventsInTheirWindows
  OBVIOUS
<1>1. WindowInv => EventsInTheirWindows
  BY DEF WindowInv, FinishedCounted, AccTheirs, Counted, CountedIn, KeysOf, EventsInTheirWindows
<1>. QED BY <1>1, WindowInvAlways, PTL

\* WindowOperator.OnWatermark with the event-time trigger: as far as the keys tell the windows
\* apart, a watermark emits the windows it has passed, with every event processed before.
THEOREM ResultsComplete == Regular /\ (\A a \in Assigners : KeysTell(a, WindowEvents)) => (WindowSpec => WatermarkResultsComplete)
<1>. SUFFICES ASSUME Regular, \A a \in Assigners : KeysTell(a, WindowEvents) PROVE WindowSpec => WatermarkResultsComplete
  OBVIOUS
<1>. DEFINE Complete ==
        trigger = "event" /\ watermarkAt' > watermarkAt =>
         /\ \A e \in finished : \A w \in WindowsOf(assigner, e) :
              w.end <= watermarkAt' =>
                \E r \in emitted' : /\ r.key = windowKey(e.key, w)
                                    /\ e \in r.value \/ windows[r.key].spoiled
         /\ \A r \in emitted' : r.value # {} =>
              \A e \in r.value : \E w \in WindowsOf(assigner, e) :
                r.key = windowKey(e.key, w) /\ w.end <= watermarkAt'
<1>1. WindowInv /\ [WindowNext]_windowVars => [Complete]_windowVars
  <2>. SUFFICES ASSUME WindowInv, WindowNext, trigger = "event", watermarkAt' > watermarkAt
                PROVE  /\ \A e \in finished : \A w \in WindowsOf(assigner, e) :
                            w.end <= watermarkAt' =>
                              \E r \in emitted' : /\ r.key = windowKey(e.key, w)
                                                  /\ e \in r.value \/ windows[r.key].spoiled
                       /\ \A r \in emitted' : \A e \in r.value : \E w \in WindowsOf(assigner, e) :
                            r.key = windowKey(e.key, w) /\ w.end <= watermarkAt'
    OBVIOUS
  <2>0. watermarkAt \in Int /\ watermarkAt >= -1
    BY DEF WindowInv, WindowTypeOK
  <2>1. PICK mark \in 0 .. MaxWatermark : OnWatermark(mark)
    <3>1. ~(watermarkAt > watermarkAt) /\ ~(-1 > watermarkAt)
      BY <2>0
    <3>2. ASSUME NEW e \in WindowEvents, WindowProcess(e) PROVE watermarkAt' = watermarkAt
      BY <3>2 DEF WindowProcess, BeginProcess, UpdateWindow, AskTrigger, FireOnElement, ReturnProcess
    <3>3. Restart => watermarkAt' = -1
      BY DEF Restart
    <3>. QED BY <3>1, <3>2, <3>3 DEF WindowNext
  <2>2. mark \in Int
    BY WindowAssumption
  <2>3. \A k \in DOMAIN windows : windows[k].window \in WindowRecords /\ windows[k].window.end \in Int
    BY DEF WindowInv, WindowTypeOK, WindowStates, WindowRecords
  <2>4. \A k : k \in Firing(mark) <=> k \in DOMAIN windows /\ windows[k].window.end <= mark
    <3>1. \A k \in DOMAIN windows : OnEventTime(mark, windows[k].window) = IF mark < windows[k].window.end THEN "Continue" ELSE "Fire"
      BY DEF OnEventTime
    <3>. QED BY <2>2, <2>3, <3>1 DEF Firing
  <2>5. watermarkAt' = mark /\ emitted' = {fireWindow(k) : k \in Firing(mark)}
    BY <2>1 DEF OnWatermark
  <2>6. \A k : fireWindow(k).key = k /\ fireWindow(k).value = windows[k].acc
    BY DEF fireWindow
  <2>7. ASSUME NEW e \in WindowEvents, NEW w \in WindowsOf(assigner, e) PROVE w \in WindowRecords
    <3>1. e.time \in Nat /\ assigner \in Assigners
      BY WindowAssumption DEF WindowInv, WindowTypeOK
    <3>2. /\ AssignWindows(assigner, e) \in Seq(WindowRecords)
          /\ \A x : (\E i \in 1 .. Len(AssignWindows(assigner, e)) : AssignWindows(assigner, e)[i] = x)
                       <=> x \in WindowsOf(assigner, e)
      BY <3>1, AssignedAreTheirs
    <3>. QED BY <3>2, ElementOfSeq
  <2>8. ASSUME NEW e \in WindowEvents, NEW w \in WindowsOf(assigner, e), windowKey(e.key, w) \in DOMAIN windows
        PROVE  windows[windowKey(e.key, w)].window = w
    <3>. DEFINE k == windowKey(e.key, w)
    <3>1. PICK d \in WindowEvents : windows[k].window \in WindowsOf(assigner, d) /\ k = windowKey(d.key, windows[k].window)
      BY <2>8 DEF WindowInv, KeyOfWindow
    <3>2. KeysTell(assigner, WindowEvents)
      BY DEF WindowInv, WindowTypeOK
    <3>. QED BY <2>8, <3>1, <3>2 DEF KeysTell
  <2>9. ASSUME NEW e \in finished, NEW w \in WindowsOf(assigner, e), w.end <= mark
        PROVE  \E r \in emitted' : r.key = windowKey(e.key, w) /\ (e \in r.value \/ windows[r.key].spoiled)
    <3>. DEFINE k == windowKey(e.key, w)
    <3>1. e \in WindowEvents /\ k \in DOMAIN windows /\ (windows[k].spoiled \/ e \in windows[k].acc)
      BY DEF WindowInv, WindowTypeOK, FinishedCounted, Counted, CountedIn
    <3>2. windows[k].window = w
      BY <2>8, <3>1
    <3>. HIDE DEF k
    <3>3. fireWindow(k) \in emitted'
      BY <2>4, <2>5, <2>9, <3>1, <3>2
    <3>. QED BY <2>6, <3>1, <3>3 DEF k
  <2>10. ASSUME NEW r \in emitted', NEW e \in r.value
         PROVE  \E w \in WindowsOf(assigner, e) : r.key = windowKey(e.key, w) /\ w.end <= mark
    <3>1. PICK k \in Firing(mark) : r = fireWindow(k)
      BY <2>5
    <3>2. k \in DOMAIN windows /\ windows[k].window.end <= mark /\ e \in windows[k].acc /\ r.key = k
      BY <2>4, <2>6, <2>10, <3>1
    <3>3. e \in WindowEvents /\ k \in KeysOf(assigner, e)
      BY <3>2 DEF WindowInv, WindowTypeOK, WindowStates, AccTheirs
    <3>4. PICK w \in WindowsOf(assigner, e) : k = windowKey(e.key, w)
      BY <3>3 DEF KeysOf
    <3>5. windows[k].window = w
      BY <2>8, <3>2, <3>3, <3>4
    <3>. QED BY <3>2, <3>4, <3>5
  <2>. QED BY <2>5, <2>9, <2>10
<1>2. WindowSpec => [][Complete]_windowVars
  <2>1. WindowSpec => []WindowInv
    BY WindowInvAlways
  <2>. HIDE DEF Complete
  <2>. QED BY <1>1, <2>1, PTL DEF WindowSpec
<1>. QED BY <1>2 DEF WatermarkResultsComplete

-----------------------------------------------------------------------------
(* The window join.                                                        *)

\* The pairs of a set of events, and the rows a window with these events owes.
PairsOf(S) == {p \in S \X S : p[1].side = "left" /\ p[2].side = "right" /\ WJCondition(p[1], p[2])}

\* The rows of a window with these events.
OwedOf(kind, S) ==
    PairsOf(S)
    \cup {<<l, NoPartner>> : l \in {x \in S : /\ kind \in {"LEFT_OUTER", "FULL_OUTER"}
                                             /\ x.side = "left" /\ \A p \in PairsOf(S) : p[1] # x}}
    \cup {<<NoPartner, r>> : r \in {x \in S : /\ kind \in {"RIGHT_OUTER", "FULL_OUTER"}
                                             /\ x.side = "right" /\ \A p \in PairsOf(S) : p[2] # x}}

\* The events of a window that came before its result.
InTime(a, done, late, k) == {e \in done : k \in KeysOf(a, e) /\ <<k, e>> \notin late}

\* The states of a window of the join.
JoinStates ==
    [window : WindowRecords, left : SUBSET WJEvents, right : SUBSET WJEvents,
     matches : SUBSET (WJEvents \X WJEvents)]

\* Type invariant of the window join.
WJTypeOK ==
    /\ wjAssigner \in {"tumbling", "sliding"}
    /\ wjDone \subseteq WJEvents
    /\ wjMark \in Int
    /\ \A k \in DOMAIN windowState : windowState[k] \in JoinStates

\* A window holds events of its key, on their sides, and the pairs among them.
HoldsTheirs(a, done, k, s) ==
    /\ \A e \in s.left : e \in done /\ e.side = "left" /\ k \in KeysOf(a, e)
    /\ \A e \in s.right : e \in done /\ e.side = "right" /\ k \in KeysOf(a, e)
    /\ \A p : p \in s.matches <=> p \in s.left \X s.right /\ WJCondition(p[1], p[2])
    /\ \E e \in WJEvents : s.window \in WindowsOf(a, e) /\ k = windowKey(e.key, s.window)

\* Every window does.
StateExact == \A k \in DOMAIN windowState : HoldsTheirs(wjAssigner, wjDone, k, windowState[k])

\* A window that gave a row holds none of the row's events any more.
RowsGone ==
    \A row \in wjRows :
        /\ row[2] \in wjDone \cup {NoPartner} /\ row[3] \in wjDone \cup {NoPartner}
        /\ row[1] \in DOMAIN windowState =>
             row[2] \notin windowState[row[1]].left /\ row[3] \notin windowState[row[1]].right

\* A late event has been processed.
LateDone == \A k, e : <<k, e>> \in wjLate => e \in wjDone

\* Until the watermark has passed it a window holds all its events.
OpenHolds ==
    \A e \in wjDone : \A w \in WindowsOf(wjAssigner, e) : ~(w.end <= wjMark) =>
        LET k == windowKey(e.key, w) IN
        /\ k \in DOMAIN windowState
        /\ e \in windowState[k].left \cup windowState[k].right
        /\ <<k, e>> \notin wjLate

\* A window the watermark has passed gave all the rows it owes.
PassedGave ==
    \A e \in wjDone : \A w \in WindowsOf(wjAssigner, e) : w.end <= wjMark =>
        \A p \in OwedOf(wjType, InTime(wjAssigner, wjDone, wjLate, windowKey(e.key, w))) :
            <<windowKey(e.key, w), p[1], p[2]>> \in wjRows

\* The inductive invariant of the window join.
WJInv ==
    /\ WJTypeOK /\ StateExact /\ RowsGone /\ LateDone /\ OpenHolds /\ PassedGave /\ wjTwice = {}

\* Which windows the operator gives an event.
LEMMA KeysAre ==
    ASSUME Regular, NEW a \in {"tumbling", "sliding"}, NEW e \in WJEvents
    PROVE  LET assigned == AssignWindows(a, e)
               keys == {windowKey(e.key, assigned[i]) : i \in DOMAIN assigned}
               WindowFor(k) == assigned[CHOOSE i \in DOMAIN assigned : windowKey(e.key, assigned[i]) = k]
           IN  /\ keys = KeysOf(a, e)
               /\ \A k \in keys : /\ WindowFor(k) \in WindowsOf(a, e) /\ WindowFor(k) \in WindowRecords
                                  /\ windowKey(e.key, WindowFor(k)) = k
<1>. DEFINE s == AssignWindows(a, e)
            keys == {windowKey(e.key, s[i]) : i \in DOMAIN s}
            At(k) == CHOOSE i \in DOMAIN s : windowKey(e.key, s[i]) = k
<1>1. e.time \in Nat /\ a \in Assigners
  BY WindowJoinAssumption DEF Assigners
<1>2. s \in Seq(WindowRecords) /\ \A w : (\E i \in 1 .. Len(s) : s[i] = w) <=> w \in WindowsOf(a, e)
  BY <1>1, AssignedAreTheirs
<1>. HIDE DEF s
<1>3. DOMAIN s = 1 .. Len(s) /\ \A i \in DOMAIN s : s[i] \in WindowRecords
  BY <1>2, LenProperties, ElementOfSeq
<1>4. keys = KeysOf(a, e)
  BY <1>2, <1>3 DEF KeysOf
<1>5. ASSUME NEW k \in keys PROVE At(k) \in DOMAIN s /\ windowKey(e.key, s[At(k)]) = k
  <2>1. \E i \in DOMAIN s : windowKey(e.key, s[i]) = k
    OBVIOUS
  <2>. QED BY <2>1
<1>. HIDE DEF At, keys
<1>6. \A k \in keys : s[At(k)] \in WindowsOf(a, e) /\ s[At(k)] \in WindowRecords /\ windowKey(e.key, s[At(k)]) = k
  BY <1>2, <1>3, <1>5
<1>. QED BY <1>4, <1>6 DEF s, keys, At

\* The invariant holds at the start.
LEMMA JoinStarts == ASSUME WindowJoinInit PROVE WJInv
<1>1. /\ wjAssigner \in {"tumbling", "sliding"} /\ DOMAIN windowState = {} /\ wjDone = {} /\ wjRows = {}
      /\ wjTwice = {} /\ wjMark = -1 /\ wjLate = {}
  BY DEF WindowJoinInit
<1>. QED
  BY <1>1 DEF WJInv, WJTypeOK, StateExact, RowsGone, LateDone, OpenHolds, PassedGave

\* The missing side of an outer row is not an event.
LEMMA NoPartnerIs == NoPartner \notin WJEvents
<1>1. NoPartner.side = "nil"
  BY DEF NoPartner
<1>. QED BY <1>1, WindowJoinAssumption

\* An event goes into its windows.
LEMMA JoinProcessKeeps ==
    ASSUME Regular, WholeSeconds, WJInv, NEW e \in WJEvents, WJProcess(e) PROVE WJInv'
<1>. DEFINE assigned == AssignWindows(wjAssigner, e)
            keys == {windowKey(e.key, assigned[i]) : i \in DOMAIN assigned}
            WindowFor(k) == assigned[CHOOSE i \in DOMAIN assigned : windowKey(e.key, assigned[i]) = k]
            Old(k) == IF k \in DOMAIN windowState THEN windowState[k]
                      ELSE [window |-> WindowFor(k), left |-> {}, right |-> {}, matches |-> {}]
            New(k) == [Old(k) EXCEPT !.matches = @ \cup matchInWindow(Old(k), e),
                                     !.left = IF e.side = "left" THEN @ \cup {e} ELSE @,
                                     !.right = IF e.side = "right" THEN @ \cup {e} ELSE @]
<1>1. /\ e \notin wjDone
      /\ wjDone' = wjDone \cup {e}
      /\ windowState' = [k \in DOMAIN windowState \cup keys |-> IF k \in keys THEN New(k) ELSE windowState[k]]
      /\ wjLate' = wjLate \cup {<<k, e>> : k \in {x \in keys : WindowFor(x).end <= wjMark}}
      /\ UNCHANGED <<wjAssigner, wjType, wjRows, wjTwice, wjMark>>
  BY DEF WJProcess
<1>2. wjAssigner \in {"tumbling", "sliding"} /\ wjMark \in Int /\ wjDone \subseteq WJEvents
  BY DEF WJInv, WJTypeOK
<1>3. /\ keys = KeysOf(wjAssigner, e)
      /\ \A k \in keys : /\ WindowFor(k) \in WindowsOf(wjAssigner, e) /\ WindowFor(k) \in WindowRecords
                         /\ windowKey(e.key, WindowFor(k)) = k
  BY <1>2, KeysAre, ZenonT(30)
<1>4. KeysTell(wjAssigner, WJEvents)
  BY <1>2, WindowJoinAssumption, WholeSecondsTell
<1>5. e.side \in {"left", "right"}
  BY WindowJoinAssumption
<1>. HIDE DEF keys, WindowFor
<1>6. ASSUME NEW k \in keys
      PROVE  /\ Old(k) \in JoinStates
             /\ k \in DOMAIN windowState => Old(k) = windowState[k]
             /\ k \notin DOMAIN windowState =>
                  /\ Old(k).window = WindowFor(k) /\ Old(k).left = {} /\ Old(k).right = {} /\ Old(k).matches = {}
  <2>1. [window |-> WindowFor(k), left |-> {}, right |-> {}, matches |-> {}] \in JoinStates
    BY <1>3 DEF JoinStates
  <2>. QED BY <2>1 DEF WJInv, WJTypeOK
<1>. HIDE DEF Old
<1>7. ASSUME NEW k \in keys
      PROVE  /\ New(k).window = Old(k).window
             /\ New(k).left = IF e.side = "left" THEN Old(k).left \cup {e} ELSE Old(k).left
             /\ New(k).right = IF e.side = "right" THEN Old(k).right \cup {e} ELSE Old(k).right
             /\ New(k).matches = Old(k).matches \cup matchInWindow(Old(k), e)
             /\ New(k) = [window |-> New(k).window, left |-> New(k).left, right |-> New(k).right,
                          matches |-> New(k).matches]
  <2>. DEFINE o == Old(k)
              n == New(k)
  <2>1. o \in JoinStates
    BY <1>6
  <2>2. n = [o EXCEPT !.matches = @ \cup matchInWindow(o, e),
                      !.left = IF e.side = "left" THEN @ \cup {e} ELSE @,
                      !.right = IF e.side = "right" THEN @ \cup {e} ELSE @]
    OBVIOUS
  <2>. HIDE DEF o, n
  <2>3. /\ n.window = o.window
        /\ n.left = IF e.side = "left" THEN o.left \cup {e} ELSE o.left
        /\ n.right = IF e.side = "right" THEN o.right \cup {e} ELSE o.right
        /\ n.matches = o.matches \cup matchInWindow(o, e)
        /\ DOMAIN n = {"window", "left", "right", "matches"}
        /\ n = [x \in DOMAIN n |-> n[x]]
    BY <2>1, <2>2 DEF JoinStates
  <2>4. n = [window |-> n.window, left |-> n.left, right |-> n.right, matches |-> n.matches]
    BY <2>3
  <2>. QED BY <2>3, <2>4 DEF o, n
<1>. HIDE DEF New
<1>8. ASSUME NEW k \in keys
      PROVE  \A p : p \in matchInWindow(Old(k), e) <=>
               IF e.side = "left" THEN p \in {e} \X Old(k).right /\ WJCondition(p[1], p[2])
               ELSE p \in Old(k).left \X {e} /\ WJCondition(p[1], p[2])
  BY DEF matchInWindow
<1>9. ASSUME NEW k \in keys PROVE New(k) \in JoinStates
  <2>1. /\ Old(k).left \subseteq WJEvents /\ Old(k).right \subseteq WJEvents
        /\ Old(k).matches \subseteq WJEvents \X WJEvents /\ Old(k).window \in WindowRecords
    BY <1>6 DEF JoinStates
  <2>2. matchInWindow(Old(k), e) \subseteq WJEvents \X WJEvents
    BY <1>8, <2>1
  <2>3. New(k).left \subseteq WJEvents /\ New(k).right \subseteq WJEvents
    BY <1>7, <2>1
  <2>4. New(k).matches \subseteq WJEvents \X WJEvents /\ New(k).window \in WindowRecords
    BY <1>7, <2>1, <2>2
  <2>. DEFINE n == New(k)
  <2>5. n = [window |-> n.window, left |-> n.left, right |-> n.right, matches |-> n.matches]
    BY <1>7
  <2>6. /\ n.left \in SUBSET WJEvents /\ n.right \in SUBSET WJEvents /\ n.window \in WindowRecords
        /\ n.matches \in SUBSET (WJEvents \X WJEvents)
    BY <2>3, <2>4
  <2>. HIDE DEF n
  <2>7. n \in JoinStates
    BY <2>5, <2>6 DEF JoinStates
  <2>. QED BY <2>7 DEF n
<1>10. /\ DOMAIN windowState' = DOMAIN windowState \cup keys
       /\ \A k \in keys : windowState'[k] = New(k)
       /\ \A k \in DOMAIN windowState : k \notin keys => windowState'[k] = windowState[k]
  BY <1>1
<1>11. WJTypeOK'
  BY <1>1, <1>9, <1>10 DEF WJInv, WJTypeOK
<1>12. StateExact'
  <2>. SUFFICES ASSUME NEW k \in DOMAIN windowState'
                PROVE  HoldsTheirs(wjAssigner, wjDone', k, windowState'[k])
    BY <1>1 DEF StateExact
  <2>1. CASE k \notin keys
    BY <1>1, <1>10, <2>1 DEF WJInv, StateExact, HoldsTheirs
  <2>2. CASE k \in keys
    <3>1. /\ \A d \in Old(k).left : d \in wjDone /\ d.side = "left" /\ k \in KeysOf(wjAssigner, d)
          /\ \A d \in Old(k).right : d \in wjDone /\ d.side = "right" /\ k \in KeysOf(wjAssigner, d)
          /\ \A p : p \in Old(k).matches <=> p \in Old(k).left \X Old(k).right /\ WJCondition(p[1], p[2])
      BY <1>6, <2>2 DEF WJInv, StateExact, HoldsTheirs
    <3>2. \E d \in WJEvents : Old(k).window \in WindowsOf(wjAssigner, d) /\ k = windowKey(d.key, Old(k).window)
      BY <1>3, <1>6, <2>2 DEF WJInv, StateExact, HoldsTheirs
    <3>3. windowState'[k] = New(k)
      BY <1>10, <2>2
    <3>4. /\ \A d \in New(k).left : d \in wjDone' /\ d.side = "left" /\ k \in KeysOf(wjAssigner, d)
          /\ \A d \in New(k).right : d \in wjDone' /\ d.side = "right" /\ k \in KeysOf(wjAssigner, d)
      BY <1>1, <1>3, <1>7, <2>2, <3>1, ZenonT(30)
    <3>5. \A p : p \in New(k).matches <=> p \in New(k).left \X New(k).right /\ WJCondition(p[1], p[2])
      <4>. SUFFICES ASSUME NEW p
                    PROVE  p \in New(k).matches <=> p \in New(k).left \X New(k).right /\ WJCondition(p[1], p[2])
        OBVIOUS
      <4>1. CASE e.side = "left"
        <5>1. New(k).left = Old(k).left \cup {e} /\ New(k).right = Old(k).right
          BY <1>7, <2>2, <4>1
        <5>2. p \in New(k).matches <=> \/ p \in Old(k).left \X Old(k).right /\ WJCondition(p[1], p[2])
                                       \/ p \in {e} \X Old(k).right /\ WJCondition(p[1], p[2])
          BY <1>7, <1>8, <2>2, <3>1, <4>1
        <5>. QED BY <5>1, <5>2
      <4>2. CASE e.side = "right"
        <5>1. New(k).left = Old(k).left /\ New(k).right = Old(k).right \cup {e}
          BY <1>7, <2>2, <4>2
        <5>2. p \in New(k).matches <=> \/ p \in Old(k).left \X Old(k).right /\ WJCondition(p[1], p[2])
                                       \/ p \in Old(k).left \X {e} /\ WJCondition(p[1], p[2])
          BY <1>7, <1>8, <2>2, <3>1, <4>2
        <5>. QED BY <5>1, <5>2
      <4>. QED BY <1>5, <4>1, <4>2
    <3>6. \E d \in WJEvents : New(k).window \in WindowsOf(wjAssigner, d) /\ k = windowKey(d.key, New(k).window)
      BY <1>7, <2>2, <3>2
    <3>. QED BY <3>3, <3>4, <3>5, <3>6 DEF HoldsTheirs
  <2>. QED BY <2>1, <2>2
<1>13. RowsGone'
  <2>. SUFFICES ASSUME NEW row \in wjRows
                PROVE  /\ row[2] \in wjDone' \cup {NoPartner} /\ row[3] \in wjDone' \cup {NoPartner}
                       /\ row[1] \in DOMAIN windowState' =>
                            row[2] \notin windowState'[row[1]].left /\ row[3] \notin windowState'[row[1]].right
    BY <1>1 DEF RowsGone
  <2>1. /\ row[2] \in wjDone \cup {NoPartner} /\ row[3] \in wjDone \cup {NoPartner}
        /\ row[1] \in DOMAIN windowState =>
             row[2] \notin windowState[row[1]].left /\ row[3] \notin windowState[row[1]].right
    BY DEF WJInv, RowsGone
  <2>2. row[2] # e /\ row[3] # e
    BY <1>1, <2>1, NoPartnerIs
  <2>3. CASE row[1] \in keys
    <3>1. row[2] \notin Old(row[1]).left /\ row[3] \notin Old(row[1]).right
      BY <1>6, <2>1, <2>3
    <3>2. row[2] \notin New(row[1]).left /\ row[3] \notin New(row[1]).right
      BY <1>7, <2>2, <2>3, <3>1
    <3>. QED BY <1>1, <1>10, <2>1, <2>3, <3>2
  <2>4. CASE row[1] \notin keys
    BY <1>1, <1>10, <2>1, <2>4
  <2>. QED BY <2>3, <2>4
<1>14. LateDone'
  BY <1>1 DEF WJInv, LateDone
<1>15. \A k \in keys : \A w \in WindowsOf(wjAssigner, e) : windowKey(e.key, w) = k => w = WindowFor(k)
  BY <1>3, <1>4 DEF KeysTell
<1>16. OpenHolds'
  <2>. SUFFICES ASSUME NEW d \in wjDone', NEW w \in WindowsOf(wjAssigner, d), ~(w.end <= wjMark)
                PROVE  /\ windowKey(d.key, w) \in DOMAIN windowState'
                       /\ d \in windowState'[windowKey(d.key, w)].left \cup windowState'[windowKey(d.key, w)].right
                       /\ <<windowKey(d.key, w), d>> \notin wjLate'
    BY <1>1 DEF OpenHolds
  <2>. DEFINE k == windowKey(d.key, w)
  <2>1. CASE d = e
    <3>1. k \in keys /\ w = WindowFor(k)
      BY <1>3, <1>15, <2>1 DEF KeysOf
    <3>2. e \in New(k).left \cup New(k).right
      BY <1>5, <1>7, <3>1
    <3>3. <<k, e>> \notin wjLate
      BY <1>1 DEF WJInv, LateDone
    <3>. HIDE DEF k
    <3>4. <<k, e>> \notin wjLate'
      BY <1>1, <3>1, <3>3
    <3>5. k \in DOMAIN windowState' /\ d \in windowState'[k].left \cup windowState'[k].right
      BY <1>10, <2>1, <3>1, <3>2
    <3>. QED BY <2>1, <3>4, <3>5 DEF k
  <2>2. CASE d # e
    <3>1. /\ k \in DOMAIN windowState
          /\ d \in windowState[k].left \cup windowState[k].right
          /\ <<k, d>> \notin wjLate
      BY <1>1, <2>2 DEF WJInv, OpenHolds
    <3>. HIDE DEF k
    <3>2. <<k, d>> \notin wjLate'
      BY <1>1, <2>2, <3>1
    <3>3. d \in windowState'[k].left \cup windowState'[k].right
      <4>1. CASE k \in keys
        <5>1. d \in Old(k).left \cup Old(k).right
          BY <1>6, <3>1, <4>1
        <5>2. d \in New(k).left \cup New(k).right
          BY <1>7, <4>1, <5>1
        <5>. QED BY <1>10, <4>1, <5>2
      <4>2. CASE k \notin keys
        BY <1>10, <3>1, <4>2
      <4>. QED BY <4>1, <4>2
    <3>. QED BY <1>10, <3>1, <3>2, <3>3 DEF k
  <2>. QED BY <2>1, <2>2
<1>17. PassedGave'
  <2>. DEFINE In(k) == InTime(wjAssigner, wjDone, wjLate, k)
              InNext(k) == InTime(wjAssigner, wjDone', wjLate', k)
  <2>. SUFFICES ASSUME NEW d \in wjDone', NEW w \in WindowsOf(wjAssigner, d), w.end <= wjMark,
                       NEW p \in OwedOf(wjType, InNext(windowKey(d.key, w)))
                PROVE  <<windowKey(d.key, w), p[1], p[2]>> \in wjRows
    BY <1>1, ZenonT(30) DEF PassedGave
  <2>. DEFINE k == windowKey(d.key, w)
  <2>1. d \in WJEvents
    BY <1>1, <1>2
  <2>2. k \in keys => <<k, e>> \in wjLate'
    <3>1. k \in keys => WindowFor(k) = w
      BY <1>3, <1>4, <2>1 DEF KeysTell
    <3>. QED BY <1>1, <3>1
  <2>3. k \notin keys => k \notin KeysOf(wjAssigner, e)
    BY <1>3
  <2>4. InNext(k) = In(k)
    BY <1>1, <2>2, <2>3 DEF InTime
  <2>5. ASSUME NEW x \in wjDone, NEW v \in WindowsOf(wjAssigner, x), k = windowKey(x.key, v)
        PROVE  <<k, p[1], p[2]>> \in wjRows
    <3>1. v = w
      BY <1>2, <1>4, <2>1, <2>5 DEF KeysTell
    <3>2. p \in OwedOf(wjType, In(k))
      BY <2>4
    <3>. QED BY <2>5, <3>1, <3>2 DEF WJInv, PassedGave
  <2>6. CASE d # e
    BY <1>1, <2>5, <2>6
  <2>7. CASE In(k) # {}
    BY <2>5, <2>7 DEF InTime, KeysOf
  <2>8. CASE In(k) = {}
    <3>1. OwedOf(wjType, {}) = {}
      BY DEF OwedOf, PairsOf
    <3>. QED BY <2>4, <2>8, <3>1
  <2>. QED BY <2>7, <2>8
<1>. QED BY <1>1, <1>11, <1>12, <1>13, <1>14, <1>16, <1>17 DEF WJInv

\* A window that holds the events that came in time gives what it owes for them.
LEMMA GivesOwed ==
    ASSUME NEW S, NEW s, s.left = {x \in S : x.side = "left"}, s.right = {x \in S : x.side = "right"},
           \A p : p \in s.matches <=> p \in s.left \X s.right /\ WJCondition(p[1], p[2]),
           NEW p \in OwedOf(wjType, S)
    PROVE  p \in s.matches \cup Unmatched(s)
<1>1. \A q : q \in PairsOf(S) <=> q \in s.matches
  BY DEF PairsOf
<1>2. CASE p \in PairsOf(S)
  BY <1>1, <1>2
<1>3. CASE \E l \in {x \in S : /\ wjType \in {"LEFT_OUTER", "FULL_OUTER"}
                             /\ x.side = "left" /\ \A q \in PairsOf(S) : q[1] # x} : p = <<l, NoPartner>>
  BY <1>1, <1>3 DEF Unmatched
<1>4. CASE \E r \in {x \in S : /\ wjType \in {"RIGHT_OUTER", "FULL_OUTER"}
                             /\ x.side = "right" /\ \A q \in PairsOf(S) : q[2] # x} : p = <<NoPartner, r>>
  BY <1>1, <1>4 DEF Unmatched
<1>. QED BY <1>2, <1>3, <1>4 DEF OwedOf

\* The windows of an event are windows.
LEMMA TheirsAreWindows ==
    ASSUME Regular, NEW a \in Assigners, NEW e, e.time \in Nat, NEW w \in WindowsOf(a, e)
    PROVE  w \in WindowRecords
<1>1. /\ AssignWindows(a, e) \in Seq(WindowRecords)
      /\ \A x : (\E i \in 1 .. Len(AssignWindows(a, e)) : AssignWindows(a, e)[i] = x) <=> x \in WindowsOf(a, e)
  BY AssignedAreTheirs
<1>. QED BY <1>1, ElementOfSeq

\* The watermark passes windows, which give their rows and are forgotten.
LEMMA JoinMarkKeeps ==
    ASSUME Regular, WholeSeconds, WJInv, NEW mark \in 0 .. MaxWJWatermark, WJOnWatermark(mark) PROVE WJInv'
<1>. DEFINE due == {k \in DOMAIN windowState : windowState[k].window.end <= mark}
            new == UNION {WJFire(k) : k \in due}
<1>1. /\ mark > wjMark /\ wjMark' = mark
      /\ wjTwice' = wjTwice \cup (new \cap wjRows)
      /\ wjRows' = wjRows \cup new
      /\ windowState' = [k \in DOMAIN windowState \ due |-> windowState[k]]
      /\ UNCHANGED <<wjAssigner, wjType, wjDone, wjLate>>
  BY DEF WJOnWatermark
<1>2. wjAssigner \in {"tumbling", "sliding"} /\ wjMark \in Int /\ wjDone \subseteq WJEvents /\ mark \in Int
  BY WindowJoinAssumption DEF WJInv, WJTypeOK
<1>3. KeysTell(wjAssigner, WJEvents)
  BY <1>2, WindowJoinAssumption, WholeSecondsTell
<1>4. ASSUME NEW e \in wjDone, NEW w \in WindowsOf(wjAssigner, e) PROVE w.end \in Int
  <2>1. e.time \in Nat /\ wjAssigner \in Assigners
    BY <1>2, WindowJoinAssumption DEF Assigners
  <2>. QED BY <2>1, TheirsAreWindows DEF WindowRecords
<1>5. ASSUME NEW e \in wjDone, NEW w \in WindowsOf(wjAssigner, e), windowKey(e.key, w) \in DOMAIN windowState
      PROVE  windowState[windowKey(e.key, w)].window = w
  BY <1>2, <1>3, <1>5 DEF WJInv, StateExact, HoldsTheirs, KeysTell
<1>6. ASSUME NEW k \in due, NEW row \in WJFire(k)
      PROVE  /\ row[1] = k
             /\ row[2] \in windowState[k].left \/ row[3] \in windowState[k].right
             /\ row[2] \in windowState[k].left \cup {NoPartner} /\ row[3] \in windowState[k].right \cup {NoPartner}
  <2>1. \A p \in windowState[k].matches : p \in windowState[k].left \X windowState[k].right
    BY DEF WJInv, StateExact, HoldsTheirs
  <2>2. PICK m \in windowState[k].matches \cup Unmatched(windowState[k]) : row = <<k, m[1], m[2]>>
    BY <1>6 DEF WJFire
  <2>3. CASE m \in windowState[k].matches
    BY <2>1, <2>2, <2>3
  <2>4. CASE m \in Unmatched(windowState[k])
    BY <2>2, <2>4 DEF Unmatched
  <2>. QED BY <2>2, <2>3, <2>4
<1>7. \A k \in due : windowState[k].left \subseteq wjDone /\ windowState[k].right \subseteq wjDone
  BY DEF WJInv, StateExact, HoldsTheirs
<1>8. \A row \in new : \E k \in due : row \in WJFire(k)
  OBVIOUS
<1>9. \A k \in due : WJFire(k) \subseteq new
  OBVIOUS
<1>10. \A k \in due : k \in DOMAIN windowState
  OBVIOUS
<1>11. \A k \in DOMAIN windowState : k \in due <=> windowState[k].window.end <= mark
  OBVIOUS
<1>. HIDE DEF due, new
<1>12. DOMAIN windowState' = DOMAIN windowState \ due /\ \A k \in DOMAIN windowState' : windowState'[k] = windowState[k]
  BY <1>1
<1>13. WJTypeOK' /\ StateExact' /\ LateDone'
  BY <1>1, <1>2, <1>12 DEF WJInv, WJTypeOK, StateExact, LateDone
<1>14. new \cap wjRows = {}
  BY <1>6, <1>8, <1>10 DEF WJInv, RowsGone
<1>15. wjTwice' = {}
  BY <1>1, <1>14 DEF WJInv
<1>16. RowsGone'
  <2>1. ASSUME NEW row \in wjRows
        PROVE  /\ row[2] \in wjDone \cup {NoPartner} /\ row[3] \in wjDone \cup {NoPartner}
               /\ row[1] \in DOMAIN windowState' =>
                    row[2] \notin windowState'[row[1]].left /\ row[3] \notin windowState'[row[1]].right
    BY <1>12 DEF WJInv, RowsGone
  <2>2. ASSUME NEW row \in new
        PROVE  /\ row[2] \in wjDone \cup {NoPartner} /\ row[3] \in wjDone \cup {NoPartner}
               /\ row[1] \notin DOMAIN windowState'
    BY <1>6, <1>7, <1>8, <1>12
  <2>. QED BY <1>1, <2>1, <2>2 DEF RowsGone
<1>17. OpenHolds'
  <2>. SUFFICES ASSUME NEW e \in wjDone, NEW w \in WindowsOf(wjAssigner, e), ~(w.end <= mark)
                PROVE  /\ windowKey(e.key, w) \in DOMAIN windowState'
                       /\ e \in windowState'[windowKey(e.key, w)].left \cup windowState'[windowKey(e.key, w)].right
                       /\ <<windowKey(e.key, w), e>> \notin wjLate
    BY <1>1 DEF OpenHolds
  <2>. DEFINE k == windowKey(e.key, w)
  <2>1. ~(w.end <= wjMark)
    BY <1>1, <1>2, <1>4
  <2>2. k \in DOMAIN windowState /\ e \in windowState[k].left \cup windowState[k].right /\ <<k, e>> \notin wjLate
    BY <2>1 DEF WJInv, OpenHolds
  <2>3. windowState[k].window = w
    BY <1>5, <2>2
  <2>. HIDE DEF k
  <2>4. k \in DOMAIN windowState'
    BY <1>11, <1>12, <2>2, <2>3
  <2>. QED BY <1>12, <2>2, <2>4 DEF k
<1>18. PassedGave'
  <2>. SUFFICES ASSUME NEW e \in wjDone, NEW w \in WindowsOf(wjAssigner, e), w.end <= mark,
                       NEW p \in OwedOf(wjType, InTime(wjAssigner, wjDone, wjLate, windowKey(e.key, w)))
                PROVE  <<windowKey(e.key, w), p[1], p[2]>> \in wjRows'
    BY <1>1 DEF PassedGave
  <2>. DEFINE k == windowKey(e.key, w)
              S == InTime(wjAssigner, wjDone, wjLate, k)
  <2>1. CASE w.end <= wjMark
    BY <1>1, <2>1 DEF WJInv, PassedGave
  <2>2. CASE ~(w.end <= wjMark)
    <3>1. k \in DOMAIN windowState
      BY <2>2 DEF WJInv, OpenHolds
    <3>2. windowState[k].window = w
      BY <1>5, <3>1
    <3>3. p \in OwedOf(wjType, S)
      OBVIOUS
    <3>4. ASSUME NEW x \in wjDone, k \in KeysOf(wjAssigner, x)
          PROVE  x \in windowState[k].left \cup windowState[k].right /\ <<k, x>> \notin wjLate
      <4>1. PICK v \in WindowsOf(wjAssigner, x) : k = windowKey(x.key, v)
        BY <3>4 DEF KeysOf
      <4>2. v = w
        BY <1>2, <1>3, <4>1 DEF KeysTell
      <4>. QED BY <2>2, <4>1, <4>2 DEF WJInv, OpenHolds
    <3>. HIDE DEF k
    <3>5. HoldsTheirs(wjAssigner, wjDone, k, windowState[k])
      BY <3>1 DEF WJInv, StateExact
    <3>6. /\ \A x \in windowState[k].left : x \in wjDone /\ x.side = "left" /\ k \in KeysOf(wjAssigner, x)
          /\ \A x \in windowState[k].right : x \in wjDone /\ x.side = "right" /\ k \in KeysOf(wjAssigner, x)
          /\ \A q : q \in windowState[k].matches <=> q \in windowState[k].left \X windowState[k].right /\ WJCondition(q[1], q[2])
      BY <3>5 DEF HoldsTheirs
    <3>7. /\ windowState[k].left = {x \in S : x.side = "left"}
          /\ windowState[k].right = {x \in S : x.side = "right"}
      BY <3>4, <3>6 DEF InTime
    <3>. HIDE DEF S
    <3>8. p \in windowState[k].matches \cup Unmatched(windowState[k])
      BY <3>3, <3>6, <3>7, GivesOwed
    <3>9. <<k, p[1], p[2]>> \in WJFire(k)
      BY <3>8 DEF WJFire
    <3>10. k \in due
      BY <1>11, <3>1, <3>2
    <3>11. <<k, p[1], p[2]>> \in wjRows'
      BY <1>1, <1>9, <3>9, <3>10
    <3>. QED BY <3>11 DEF k
  <2>. QED BY <2>1, <2>2
<1>. QED BY <1>13, <1>15, <1>16, <1>17, <1>18 DEF WJInv

\* Every step keeps the invariant.
LEMMA WJInvAlways == Regular /\ WholeSeconds => (WindowJoinSpec => []WJInv)
<1>. SUFFICES ASSUME Regular, WholeSeconds PROVE WindowJoinSpec => []WJInv
  OBVIOUS
<1>1. WindowJoinInit => WJInv
  BY JoinStarts
<1>2. WJInv /\ [WindowJoinNext]_wjVars => WJInv'
  <2>. SUFFICES ASSUME WJInv, [WindowJoinNext]_wjVars PROVE WJInv'
    OBVIOUS
  <2>1. CASE \E e \in WJEvents : WJProcess(e)
    BY <2>1, JoinProcessKeeps
  <2>2. CASE \E mark \in 0 .. MaxWJWatermark : WJOnWatermark(mark)
    BY <2>2, JoinMarkKeeps
  <2>3. CASE UNCHANGED wjVars
    BY <2>3 DEF wjVars, WJInv, WJTypeOK, StateExact, RowsGone, LateDone, OpenHolds, PassedGave
  <2>. QED BY <2>1, <2>2, <2>3 DEF WindowJoinNext
<1>. QED BY <1>1, <1>2, PTL DEF WindowJoinSpec

\* WindowJoin: for windows at whole seconds, a window the watermark has passed gave every row it
\* owes for the events that came in time, and no row is given twice, late events or not.
THEOREM JoinRowsExact == Regular /\ WholeSeconds => (WindowJoinSpec => []WindowRowsExact)
<1>. SUFFICES ASSUME Regular, WholeSeconds PROVE WindowJoinSpec => []WindowRowsExact
  OBVIOUS
<1>1. WJInv => WindowRowsExact
  <2>1. \A k : WJOwed(k) = OwedOf(wjType, InTime(wjAssigner, wjDone, wjLate, k))
    BY DEF WJOwed, OwedOf, PairsOf, InTime
  <2>. QED BY <2>1 DEF WJInv, PassedGave, WindowRowsExact
<1>. QED BY <1>1, WJInvAlways, PTL
=============================================================================
