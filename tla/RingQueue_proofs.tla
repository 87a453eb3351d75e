-------------------------- MODULE RingQueue_proofs --------------------------
(***************************************************************************)
(* The ring, the driver and the command processor implement CommandQueue,  *)
(* for every ring size, batch bound and mode, as long as the pool has room *)
(* for the zeroes that pad the ring's end.                                 *)
(***************************************************************************)
EXTENDS RingBuffer_proofs, Sequence_proofs

-----------------------------------------------------------------------------
(***************************************************************************)
(* Slots by their numbers.                                                 *)
(***************************************************************************)
\* There are as many slots as commands begin in the ring.
LEMMA SlotCounted ==
  /\ SlotCount \in Nat /\ SlotCount >= 1
  /\ CmdWords * (SlotCount - 1) < RingWords /\ RingWords <= CmdWords * SlotCount
BY RingAssumption DEF SlotCount, CmdWords

\* A slot has a number,
LEMMA SlotNumber ==
  ASSUME NEW a \in SlotAddresses
  PROVE  SlotIndex(a) \in 0 .. SlotCount - 1 /\ a = RingStart + CmdWords * SlotIndex(a)
BY SlotCounted, RingAssumption DEF SlotAddresses, SlotIndex, RingEnd, CmdWords

\* and a number a slot.
LEMMA NumberedSlot ==
  ASSUME NEW k \in 0 .. SlotCount - 1
  PROVE  /\ RingStart + CmdWords * k \in SlotAddresses
         /\ SlotIndex(RingStart + CmdWords * k) = k
BY SlotCounted, RingAssumption DEF SlotAddresses, SlotIndex, RingEnd, CmdWords

\* Going on from a slot one meets slots.
LEMMA SlotOnIsSlot ==
  ASSUME NEW a \in SlotAddresses, NEW i \in 0 .. SlotCount - 1
  PROVE  SlotOn(a, i) \in SlotAddresses
BY SlotNumber, SlotCounted, NumberedSlot DEF SlotOn

\* From one slot to another there are fewer slots than the ring has.
LEMMA SlotsFromCounted ==
  ASSUME NEW a \in SlotAddresses, NEW b \in SlotAddresses
  PROVE  /\ SlotsFrom(a, b) \in 0 .. SlotCount - 1
         /\ SlotsFrom(a, b) = 0 <=> a = b
<1>1. PICK i \in 0 .. SlotCount - 1 : SlotIndex(a) = i /\ a = RingStart + CmdWords * i
  BY SlotNumber
<1>2. PICK j \in 0 .. SlotCount - 1 : SlotIndex(b) = j /\ b = RingStart + CmdWords * j
  BY SlotNumber
<1> QED
  BY <1>1, <1>2, SlotCounted, RingAssumption DEF SlotsFrom, CmdWords

\* Slots on the way add up, and going on past the one in the middle is going on
\* from it.
LEMMA SlotsAddUp ==
  ASSUME NEW t \in SlotAddresses, NEW h \in SlotAddresses, NEW d \in SlotAddresses,
         InOrder(t, t, h, d)
  PROVE  /\ SlotsFrom(t, d) = SlotsFrom(t, h) + SlotsFrom(h, d)
         /\ \A i \in 0 .. SlotsFrom(h, d) - 1 :
              SlotOn(t, SlotsFrom(t, h) + i) = SlotOn(h, i)
<1>1. PICK i \in 0 .. SlotCount - 1 : SlotIndex(t) = i /\ t = RingStart + CmdWords * i
  BY SlotNumber
<1>2. PICK j \in 0 .. SlotCount - 1 : SlotIndex(h) = j /\ h = RingStart + CmdWords * j
  BY SlotNumber
<1>3. PICK k \in 0 .. SlotCount - 1 : SlotIndex(d) = k /\ d = RingStart + CmdWords * k
  BY SlotNumber
<1>4. \/ i <= j /\ j <= k
      \/ j <= k /\ k < i
      \/ k < i /\ i <= j
  BY <1>1, <1>2, <1>3, SlotCounted, RingAssumption
     DEF InOrder, Distance, CmdWords
<1>5. SlotsFrom(t, d) = SlotsFrom(t, h) + SlotsFrom(h, d)
  BY <1>1, <1>2, <1>3, <1>4, SlotCounted, RingAssumption DEF SlotsFrom, CmdWords
<1>6. ASSUME NEW n \in 0 .. SlotsFrom(h, d) - 1
      PROVE  SlotOn(t, SlotsFrom(t, h) + n) = SlotOn(h, n)
  BY <1>1, <1>2, <1>3, <1>4, SlotCounted, RingAssumption
     DEF SlotsFrom, SlotOn, CmdWords
<1> QED
  BY <1>5, <1>6

-----------------------------------------------------------------------------
(***************************************************************************)
(* The opcodes in a stretch of slots.                                      *)
(***************************************************************************)
\* What VRAM holds.
Words == Commands \cup {Noop, Payload}
Memory == [0 .. VramWords - 1 -> Words]

\* They are a sequence of words.
LEMMA SlotWordsType ==
  ASSUME NEW mem \in Memory, NEW a \in SlotAddresses, NEW b \in SlotAddresses
  PROVE  /\ SlotWords(mem, a, b) \in Seq(Words)
         /\ Len(SlotWords(mem, a, b)) = SlotsFrom(a, b)
         /\ \A i \in 1 .. SlotsFrom(a, b) :
              SlotWords(mem, a, b)[i] = mem[SlotOn(a, i - 1)]
<1>1. PICK n \in Nat : n = SlotsFrom(a, b) /\ n <= SlotCount - 1
  BY SlotsFromCounted, SlotCounted
<1>2. ASSUME NEW i \in 1 .. n PROVE mem[SlotOn(a, i - 1)] \in Words
  <2>1. i - 1 \in 0 .. SlotCount - 1
    BY <1>1, SlotCounted
  <2>2. SlotOn(a, i - 1) \in Ring
    BY <2>1, SlotOnIsSlot, SlotsInRing
  <2>3. SlotOn(a, i - 1) \in 0 .. VramWords - 1
    BY <2>2, RingAssumption, DeviceAssumption DEF Ring, RingEnd
  <2> QED
    BY <2>3 DEF Memory
<1> DEFINE f == [i \in 1 .. n |-> mem[SlotOn(a, i - 1)]]
<1>3. f \in Seq(Words) /\ Len(f) = n
  BY <1>2
<1>4. SlotWords(mem, a, b) = f
  BY <1>1 DEF SlotWords
<1> QED
  BY <1>1, <1>3, <1>4

\* They depend on these slots only.
LEMMA SameSlotWords ==
  ASSUME NEW mem \in Memory, NEW new \in Memory,
         NEW a \in SlotAddresses, NEW b \in SlotAddresses,
         \A i \in 1 .. SlotsFrom(a, b) : new[SlotOn(a, i - 1)] = mem[SlotOn(a, i - 1)]
  PROVE  SlotWords(new, a, b) = SlotWords(mem, a, b)
BY SlotWordsType, SeqEqual

\* A stretch can be cut in two.
LEMMA SlotWordsConcat ==
  ASSUME NEW mem \in Memory, NEW t \in SlotAddresses, NEW h \in SlotAddresses,
         NEW d \in SlotAddresses, InOrder(t, t, h, d)
  PROVE  SlotWords(mem, t, d) = Cat(SlotWords(mem, t, h), SlotWords(mem, h, d))
<1>1. PICK m \in Nat : m = SlotsFrom(t, h)
  BY SlotsFromCounted, SlotCounted
<1>2. PICK n \in Nat : n = SlotsFrom(h, d)
  BY SlotsFromCounted, SlotCounted
<1>3. PICK u \in Seq(Words) :
        /\ u = SlotWords(mem, t, h) /\ Len(u) = m
        /\ \A i \in 1 .. m : u[i] = mem[SlotOn(t, i - 1)]
  BY <1>1, SlotWordsType
<1>4. PICK v \in Seq(Words) :
        /\ v = SlotWords(mem, h, d) /\ Len(v) = n
        /\ \A i \in 1 .. n : v[i] = mem[SlotOn(h, i - 1)]
  BY <1>2, SlotWordsType
<1>5. PICK w \in Seq(Words) :
        /\ w = SlotWords(mem, t, d) /\ Len(w) = m + n
        /\ \A i \in 1 .. m + n : w[i] = mem[SlotOn(t, i - 1)]
  BY <1>1, <1>2, SlotWordsType, SlotsAddUp
<1>6. ASSUME NEW i \in 1 .. n PROVE w[m + i] = v[i]
  <2>1. m + i \in 1 .. m + n /\ (m + i) - 1 = m + (i - 1) /\ i - 1 \in 0 .. n - 1
    OBVIOUS
  <2>2. SlotOn(t, m + (i - 1)) = SlotOn(h, i - 1)
    BY <1>1, <1>2, <2>1, SlotsAddUp
  <2>3. w[m + i] = mem[SlotOn(t, m + (i - 1))] /\ v[i] = mem[SlotOn(h, i - 1)]
    BY <1>4, <1>5, <2>1
  <2> QED
    BY <2>2, <2>3
<1>7. Joins(w, u, v)
  <2>1. ASSUME NEW i \in 1 .. m PROVE w[i] = u[i]
    <3>1. i \in 1 .. m + n
      OBVIOUS
    <3> QED
      BY <1>3, <1>5, <3>1
  <2> QED
    BY <1>3, <1>4, <1>5, <1>6, <2>1 DEF Joins
<1>8. w = Cat(u, v)
  BY <1>7, JoinsIsCat
<1> QED
  BY <1>3, <1>4, <1>5, <1>8

\* From a slot to itself there is nothing.
LEMMA SlotWordsEmpty ==
  ASSUME NEW mem \in Memory, NEW a \in SlotAddresses
  PROVE  SlotWords(mem, a, a) = << >>
<1>1. SlotWords(mem, a, a) \in Seq(Words) /\ Len(SlotWords(mem, a, a)) = 0
  BY SlotWordsType, SlotsFromCounted
<1> QED
  BY <1>1, EmptySeq

-----------------------------------------------------------------------------
(***************************************************************************)
(* What waits in a stretch of slots: its opcodes but the no-ops.           *)
(***************************************************************************)
Waits(mem, a, b) == Sift(SlotWords(mem, a, b), Opcodes)

\* It is a sequence.
LEMMA WaitsType ==
  ASSUME NEW mem \in Memory, NEW a \in SlotAddresses, NEW b \in SlotAddresses
  PROVE  Waits(mem, a, b) \in Seq(Words)
BY SlotWordsType, SiftType DEF Waits

\* From a slot to itself nothing waits.
LEMMA WaitsEmpty ==
  ASSUME NEW mem \in Memory, NEW a \in SlotAddresses
  PROVE  Waits(mem, a, a) = << >>
BY SlotWordsEmpty, SiftEmpty DEF Waits

\* What waits in a stretch waits in its first and then in its second part.
LEMMA WaitsConcat ==
  ASSUME NEW mem \in Memory, NEW t \in SlotAddresses, NEW h \in SlotAddresses,
         NEW d \in SlotAddresses, InOrder(t, t, h, d)
  PROVE  Waits(mem, t, d) = Cat(Waits(mem, t, h), Waits(mem, h, d))
<1>1. PICK u \in Seq(Words) : u = SlotWords(mem, t, h)
  BY SlotWordsType
<1>2. PICK v \in Seq(Words) : v = SlotWords(mem, h, d)
  BY SlotWordsType
<1>3. SlotWords(mem, t, d) = Cat(u, v)
  BY <1>1, <1>2, SlotWordsConcat
<1>4. Sift(Cat(u, v), Opcodes) = Cat(Sift(u, Opcodes), Sift(v, Opcodes))
  BY SiftConcat
<1> QED
  BY <1>1, <1>2, <1>3, <1>4 DEF Waits

\* The next slot is one slot on, and lies on the way to every other slot.
LEMMA NextSlotOnTheWay ==
  ASSUME NEW t \in SlotAddresses, NEW h \in SlotAddresses, t # h
  PROVE  /\ NextSlot(t) \in SlotAddresses
         /\ InOrder(t, t, NextSlot(t), h)
         /\ SlotsFrom(t, NextSlot(t)) = 1
         /\ SlotOn(t, 0) = t
<1>1. PICK i \in 0 .. SlotCount - 1 : SlotIndex(t) = i /\ t = RingStart + CmdWords * i
  BY SlotNumber
<1>2. PICK j \in 0 .. SlotCount - 1 : SlotIndex(h) = j /\ h = RingStart + CmdWords * j
  BY SlotNumber
<1>3. PICK n \in SlotAddresses : n = NextSlot(t)
  BY NextSlotIsSlot
<1>4. PICK k \in 0 .. SlotCount - 1 : SlotIndex(n) = k /\ n = RingStart + CmdWords * k
  BY SlotNumber
<1>5. i # j /\ k = IF i = SlotCount - 1 THEN 0 ELSE i + 1
  BY <1>1, <1>2, <1>3, <1>4, SlotCounted, RingAssumption DEF NextSlot, RingEnd, CmdWords
<1>6. InOrder(t, t, n, h)
  BY <1>1, <1>2, <1>4, <1>5, SlotCounted, RingAssumption DEF InOrder, Distance, CmdWords
<1>7. SlotsFrom(t, n) = 1 /\ SlotOn(t, 0) = t
  BY <1>1, <1>2, <1>4, <1>5, SlotCounted, RingAssumption DEF SlotsFrom, SlotOn, CmdWords
<1> QED
  BY <1>3, <1>6, <1>7

\* The first of what waits stands at the first slot, unless that is a no-op.
LEMMA WaitsFirst ==
  ASSUME NEW mem \in Memory, NEW t \in SlotAddresses, NEW h \in SlotAddresses, t # h
  PROVE  Waits(mem, t, h) =
           IF mem[t] = Noop THEN Waits(mem, NextSlot(t), h)
                            ELSE Cat(<<mem[t]>>, Waits(mem, NextSlot(t), h))
<1>1. PICK n \in SlotAddresses :
        /\ n = NextSlot(t) /\ InOrder(t, t, n, h)
        /\ SlotsFrom(t, n) = 1 /\ SlotOn(t, 0) = t
  BY NextSlotOnTheWay
<1>2. PICK u \in Seq(Words) : u = SlotWords(mem, t, n) /\ Len(u) = 1 /\ u[1] = mem[t]
  <2>1. PICK u \in Seq(Words) :
          /\ u = SlotWords(mem, t, n) /\ Len(u) = 1
          /\ \A i \in 1 .. 1 : u[i] = mem[SlotOn(t, i - 1)]
    <3>1. /\ SlotWords(mem, t, n) \in Seq(Words)
          /\ Len(SlotWords(mem, t, n)) = SlotsFrom(t, n)
          /\ \A i \in 1 .. SlotsFrom(t, n) :
               SlotWords(mem, t, n)[i] = mem[SlotOn(t, i - 1)]
      BY SlotWordsType
    <3> QED
      BY <1>1, <3>1
  <2>2. u[1] = mem[SlotOn(t, 1 - 1)]
    BY <2>1
  <2>3. 1 - 1 = 0
    OBVIOUS
  <2> QED
    BY <1>1, <2>1, <2>2, <2>3
<1>3. u[1] \in Words /\ (u[1] \in Opcodes <=> mem[t] # Noop)
  <2>1. u[1] \in Words
    BY <1>2
  <2> QED
    BY <1>2, <2>1, DeviceAssumption DEF Words, Opcodes
<1>4. PICK v \in Seq(Words) : v = Waits(mem, n, h)
  BY WaitsType
<1>5. Waits(mem, t, h) = Cat(Sift(u, Opcodes), v)
  BY <1>1, <1>2, <1>4, WaitsConcat DEF Waits
<1>6. CASE mem[t] = Noop
  <2>1. \A i \in 1 .. Len(u) : u[i] \notin Opcodes
    BY <1>2, <1>3, <1>6
  <2>2. Sift(u, Opcodes) = << >>
    BY <2>1, SiftNone
  <2>3. Cat(<< >>, v) = v
    BY ConcatEmptySeq DEF Cat
  <2> QED
    BY <1>1, <1>4, <1>5, <1>6, <2>2, <2>3
<1>7. CASE mem[t] # Noop
  <2>1. \A i \in 1 .. Len(u) : u[i] \in Opcodes
    BY <1>2, <1>3, <1>7
  <2>2. Sift(u, Opcodes) = u
    BY <2>1, SiftAll
  <2>3. u = <<mem[t]>>
    BY <1>2
  <2> QED
    BY <1>1, <1>4, <1>5, <1>7, <2>2, <2>3
<1> QED
  BY <1>6, <1>7

\* Every slot of a stretch lies before its end.
LEMMA SlotInStretch ==
  ASSUME NEW a \in SlotAddresses, NEW b \in SlotAddresses,
         NEW i \in 1 .. SlotsFrom(a, b)
  PROVE  /\ SlotOn(a, i - 1) \in SlotAddresses
         /\ Distance(a, SlotOn(a, i - 1)) < Distance(a, b)
<1>1. PICK j \in 0 .. SlotCount - 1 : SlotIndex(a) = j /\ a = RingStart + CmdWords * j
  BY SlotNumber
<1>2. PICK k \in 0 .. SlotCount - 1 : SlotIndex(b) = k /\ b = RingStart + CmdWords * k
  BY SlotNumber
<1>3. i - 1 \in 0 .. SlotCount - 1
  BY SlotsFromCounted, SlotCounted
<1>4. SlotOn(a, i - 1) \in SlotAddresses
  BY <1>3, SlotOnIsSlot
<1>5. Distance(a, SlotOn(a, i - 1)) < Distance(a, b)
  BY <1>1, <1>2, <1>3, SlotCounted, RingAssumption
     DEF SlotsFrom, SlotOn, Distance, CmdWords
<1> QED
  BY <1>4, <1>5

\* A write into free space leaves what waits on the way to the driver's head.
LEMMA WriteKeepsWaits ==
  ASSUME NEW a \in SlotAddresses, NEW b \in SlotAddresses,
         NEW c \in SlotAddresses, NEW d \in SlotAddresses, NEW size \in Nat,
         InOrder(a, b, c, d), FreeSpace(d, a) >= size,
         NEW mem \in Memory, NEW new \in Memory,
         \A w \in Ring : w < d \/ w >= d + size => new[w] = mem[w]
  PROVE  Waits(new, b, c) = Waits(mem, b, c)
<1>1. a \in Ring /\ b \in Ring /\ c \in Ring /\ d \in Ring
  BY SlotsInRing
<1>2. ASSUME NEW i \in 1 .. SlotsFrom(b, c)
      PROVE  new[SlotOn(b, i - 1)] = mem[SlotOn(b, i - 1)]
  <2>1. PICK w \in Ring : w = SlotOn(b, i - 1) /\ Distance(b, w) < Distance(b, c)
    BY SlotInStretch, SlotsInRing
  <2>2. Distance(b, w) \in Int /\ Distance(b, c) \in Int /\ w \in Int /\ d \in Int
    BY <1>1, <2>1, RingAssumption DEF Distance, Ring, RingEnd
  <2>3. ~(d <= w /\ w < d + size)
    BY <1>1, <2>1, <2>2, WriteAvoidsPending
  <2> QED
    BY <2>1, <2>2, <2>3
<1>3. SlotWords(new, b, c) = SlotWords(mem, b, c)
  BY <1>2, SameSlotWords
<1> QED
  BY <1>3 DEF Waits

\* Nothing waits in the padding at the ring's end.
LEMMA PaddingWaits ==
  ASSUME NEW d \in SlotAddresses, NEW mem \in Memory,
         \A w \in Ring : w >= d => mem[w] = Noop
  PROVE  Waits(mem, d, RingStart) = << >>
<1>1. RingStart \in SlotAddresses
  BY SlotsInRing
<1>2. PICK n \in Nat : n = SlotsFrom(d, RingStart)
  BY <1>1, SlotsFromCounted, SlotCounted
<1>3. PICK u \in Seq(Words) :
        /\ u = SlotWords(mem, d, RingStart) /\ Len(u) = n
        /\ \A i \in 1 .. n : u[i] = mem[SlotOn(d, i - 1)]
  <2>1. PICK s \in SlotAddresses : s = RingStart
    BY <1>1
  <2>2. /\ SlotWords(mem, d, s) \in Seq(Words)
        /\ Len(SlotWords(mem, d, s)) = SlotsFrom(d, s)
        /\ \A i \in 1 .. SlotsFrom(d, s) :
             SlotWords(mem, d, s)[i] = mem[SlotOn(d, i - 1)]
    BY SlotWordsType
  <2> QED
    BY <1>2, <2>1, <2>2
<1>4. PICK k \in 0 .. SlotCount - 1 : SlotIndex(d) = k /\ d = RingStart + CmdWords * k
  BY SlotNumber
<1>5. SlotIndex(RingStart) = 0
  BY RingAssumption DEF SlotIndex, CmdWords
<1>6. ASSUME NEW i \in 1 .. n PROVE u[i] = Noop
  <2>1. n <= SlotCount - k
    BY <1>2, <1>4, <1>5, SlotCounted, RingAssumption DEF SlotsFrom, CmdWords
  <2>2. SlotOn(d, i - 1) = RingStart + CmdWords * (k + (i - 1))
    BY <1>4, <2>1, SlotCounted DEF SlotOn
  <2>3. SlotOn(d, i - 1) \in Ring /\ SlotOn(d, i - 1) >= d
    BY <1>4, <2>1, <2>2, SlotCounted, RingAssumption DEF Ring, RingEnd, CmdWords
  <2> QED
    BY <1>3, <2>3
<1>7. \A i \in 1 .. Len(u) : u[i] \notin Opcodes
  BY <1>3, <1>6, DeviceAssumption DEF Opcodes
<1>8. Sift(u, Opcodes) = << >>
  BY <1>7, SiftNone
<1> QED
  BY <1>3, <1>8 DEF Waits

\* A batch that was written waits from its first slot to the one behind it.
LEMMA BatchWaits ==
  ASSUME NEW d \in SlotAddresses, NEW e \in SlotAddresses, NEW mem \in Memory,
         NEW b \in Seq(Commands),
         CmdWords * Len(b) <= RingEnd - d, CmdWords * Len(b) < RingWords,
         e = Behind(d, CmdWords * Len(b)),
         \A i \in 1 .. Len(b) : mem[d + CmdWords * (i - 1)] = b[i]
  PROVE  Waits(mem, d, e) = b
<1>1. PICK n \in Nat : n = Len(b)
  BY LenProperties
<1>2. PICK k \in 0 .. SlotCount - 1 : SlotIndex(d) = k /\ d = RingStart + CmdWords * k
  BY SlotNumber
<1>3. PICK j \in 0 .. SlotCount - 1 : SlotIndex(e) = j /\ e = RingStart + CmdWords * j
  BY SlotNumber
<1>4. n <= SlotCount - k /\ j = IF k + n = SlotCount THEN 0 ELSE k + n
  <2>1. 9 * n <= RingWords - 9 * k
    BY <1>1, <1>2, RingAssumption DEF RingEnd, CmdWords
  <2>2. 9 * (SlotCount - 1) < RingWords /\ RingWords <= 9 * SlotCount
    BY SlotCounted DEF CmdWords
  <2>3. n <= SlotCount - k
    BY <2>1, <2>2, SlotCounted, RingAssumption
  <2>4. CASE d + 9 * n = RingEnd
    <3>1. e = RingStart
      BY <1>1, <2>4 DEF Behind, CmdWords
    <3> QED
      BY <1>2, <1>3, <2>2, <2>3, <2>4, <3>1, SlotCounted, RingAssumption
         DEF RingEnd, CmdWords
  <2>5. CASE d + 9 * n # RingEnd
    <3>1. e = d + 9 * n
      BY <1>1, <2>5 DEF Behind, CmdWords
    <3>2. j = k + n
      BY <1>2, <1>3, <3>1, RingAssumption DEF CmdWords
    <3> QED
      BY <2>3, <3>2, SlotCounted
  <2> QED
    BY <2>4, <2>5
<1>5. SlotsFrom(d, e) = n
  <2>1. n < SlotCount /\ SlotCount \in Nat /\ RingStart \in Nat
    BY <1>1, SlotCounted, RingAssumption DEF CmdWords
  <2>2. SlotsFrom(d, e) = IF k <= j THEN j - k ELSE SlotCount - (k - j)
    <3>1. d <= e <=> k <= j
      BY <1>2, <1>3, <2>1 DEF CmdWords
    <3> QED
      BY <1>2, <1>3, <3>1 DEF SlotsFrom
  <2>3. k \in Nat /\ j \in Nat
    BY <1>2, <1>3, <2>1
  <2> QED
    BY <1>4, <2>1, <2>2, <2>3
<1>6. PICK u \in Seq(Words) :
        /\ u = SlotWords(mem, d, e) /\ Len(u) = n
        /\ \A i \in 1 .. n : u[i] = mem[SlotOn(d, i - 1)]
  <2>1. /\ SlotWords(mem, d, e) \in Seq(Words)
        /\ Len(SlotWords(mem, d, e)) = SlotsFrom(d, e)
        /\ \A i \in 1 .. SlotsFrom(d, e) :
             SlotWords(mem, d, e)[i] = mem[SlotOn(d, i - 1)]
    BY SlotWordsType
  <2> QED
    BY <1>5, <2>1
<1>7. ASSUME NEW i \in 1 .. n PROVE u[i] = b[i] /\ b[i] \in Commands
  <2>1. SlotOn(d, i - 1) = d + CmdWords * (i - 1)
    BY <1>2, <1>4, SlotCounted, RingAssumption DEF SlotOn, CmdWords
  <2> QED
    BY <1>1, <1>6, <2>1, ElementOfSeq
<1>8. b \in Seq(Words)
  BY SeqMonotonic DEF Words
<1>9. u = b
  BY <1>1, <1>6, <1>7, <1>8, SeqEqual
<1>10. \A i \in 1 .. Len(b) : b[i] \in Opcodes
  BY <1>1, <1>7 DEF Opcodes
<1>11. Sift(b, Opcodes) = b
  BY <1>8, <1>10, SiftAll
<1> QED
  BY <1>6, <1>9, <1>11 DEF Waits

\* How the driver's own stretch, from the device's head to the driver's, moves.
LEMMA OrderUntold ==
  ASSUME NEW a \in Ring, NEW b \in Ring, NEW c \in Ring, NEW d \in Ring,
         InOrder(a, b, c, d)
  PROVE  InOrder(a, c, d, d)
BY RingAssumption DEF InOrder, Distance, Ring, RingEnd

\* It goes round the ring's end when the driver's head does (ringbuffer.c:129-133).
LEMMA OrderUntoldWrap ==
  ASSUME NEW a \in Ring, NEW b \in Ring, NEW c \in Ring, NEW d \in Ring,
         InOrder(a, b, c, d), RingStart < a, a <= d
  PROVE  InOrder(c, c, d, RingStart)
BY RingAssumption DEF InOrder, Distance, Ring, RingEnd

\* It grows by the batch that is written (ringbuffer.c:137-143).
LEMMA OrderUntoldWrite ==
  ASSUME NEW a \in Ring, NEW b \in Ring, NEW c \in Ring, NEW d \in Ring,
         NEW size \in Nat,
         InOrder(a, b, c, d), FreeSpace(d, a) >= size, size <= RingEnd - d
  PROVE  InOrder(c, c, d, Behind(d, size))
BY RingAssumption DEF InOrder, Distance, FreeSpace, Behind, Ring, RingEnd

-----------------------------------------------------------------------------
(***************************************************************************)
(* The invariant that the mapping needs besides IInv.                      *)
(***************************************************************************)
\* The slots the driver has filled and the device has not been told of hold
\* the batch about to be submitted, and otherwise only padding.
UntoldSlots ==
  pc # "init" =>
    Sift(SlotWords(vram, regs["head"], ringHead), Opcodes)
      = IF pc = "kick" THEN batch ELSE <<>>

FlushHasBatch == pc \in FlushSteps => batch # <<>>

\* A guest that restarts has recorded nothing.
StartsEmpty == pc = "init" => batch = <<>>

\* Nothing counts as executed but within a head write out of the GOP mode.
ExecutesInHeadWrite ==
  /\ pc # "kicked" \/ regs["mode"] = ModeGop => executed = <<>>
  /\ processing => regs["mode"] # ModeGop

\* A head write out of the GOP mode returns with the ring drained.
ReturnsDrained ==
  pc = "kicked" /\ regs["mode"] # ModeGop /\ ~processing =>
    regs["tail"] = regs["head"]

QInv ==
  /\ UntoldSlots
  /\ FlushHasBatch
  /\ StartsEmpty
  /\ ExecutesInHeadWrite
  /\ ReturnsDrained

\* The state before GpuRingBufferInit satisfies it.
LEMMA InitQInv == Init => QInv
BY DEF Init, DeviceInit, QInv, UntoldSlots, FlushHasBatch, StartsEmpty,
       ExecutesInHeadWrite, ReturnsDrained, FlushSteps, WaitSteps, StallSteps

\* VRAM is a memory of words.
LEMMA VramType == IInv => vram \in Memory
BY DEF IInv, TypeOK, DeviceTypeOK, Memory, Words

\* A step that moves no pointer and writes no word leaves the slots.
LEMMA SameUntoldSlots ==
  ASSUME UntoldSlots, pc \notin {"init", "kick"}, pc' # "kick",
         UNCHANGED <<vram, ringHead>>, regs'["head"] = regs["head"]
  PROVE  UntoldSlots'
BY DEF UntoldSlots

\* The client's calls keep it.
LEMMA ClientKeepsQInv == IInv /\ IInv' /\ QInv /\ ClientStep => QInv'
<1> SUFFICES ASSUME IInv, IInv', QInv, ClientStep PROVE QInv'
  OBVIOUS
<1> USE DEF FlushHasBatch, StartsEmpty, ExecutesInHeadWrite, ReturnsDrained,
            FlushSteps, WaitSteps, StallSteps
<1>1. ASSUME NEW mode \in ClientModes, SetMode(mode) PROVE QInv'
  <2>1. /\ pc = "client" /\ pc' = "client" /\ processing' = FALSE
        /\ regs' = [regs EXCEPT !["mode"] = mode]
        /\ UNCHANGED <<vram, executed, ringHead, batch>>
    BY <1>1 DEF SetMode, MmioWrite, Triggers
  <2>2. regs'["head"] = regs["head"]
    BY <2>1 DEF IInv, TypeOK, DeviceTypeOK, RingRegs
  <2>3. UntoldSlots'
    BY <2>1, <2>2, SameUntoldSlots DEF QInv
  <2> QED
    BY <2>1, <2>3 DEF QInv
<1>2. ASSUME pc = "client", pc' \notin {"init", "kick", "kicked"},
             UNCHANGED <<regs, vram, processing, executed, ringHead>>,
             pc' \in FlushSteps => batch' # <<>>
      PROVE  QInv'
  <2>1. UntoldSlots'
    BY <1>2, SameUntoldSlots DEF QInv
  <2> QED
    BY <1>2, <2>1 DEF QInv
<1>3. ASSUME NEW who \in Callers, pc = "client", Flush(who) PROVE QInv'
  <2>1. AfterFlush(who) \in {"client", "sync", "append"}
    BY DEF AfterFlush
  <2> QED
    BY <1>2, <1>3, <2>1 DEF Flush, FlushReturns
<1>4. CASE CmdBegin \/ Destroy
  BY <1>2, <1>4 DEF CmdBegin, Destroy
<1>5. ASSUME NEW cmd \in Commands, AddCmd(cmd) PROVE QInv'
  <2>1. CASE BatchOverflows
    BY <1>3, <1>5, <2>1 DEF AddCmd, Callers
  <2>2. CASE ~BatchOverflows
    BY <1>2, <1>5, <2>2 DEF AddCmd
  <2> QED
    BY <2>1, <2>2
<1>6. CASE Submit \/ Present
  BY <1>3, <1>6 DEF Submit, Present, Callers
<1> QED
  BY <1>1, <1>4, <1>5, <1>6 DEF ClientStep

\* GpuRingBufferInit ends with the driver's head where the device's is.
LEMMA InitStepKeepsQInv == IInv /\ IInv' /\ QInv /\ (InitWrite \/ InitBatch) => QInv'
<1> SUFFICES ASSUME IInv, IInv', QInv, InitWrite \/ InitBatch PROVE QInv'
  OBVIOUS
<1> USE DEF FlushHasBatch, StartsEmpty, ExecutesInHeadWrite, ReturnsDrained,
            FlushSteps, WaitSteps, StallSteps
<1>1. pc = "init" /\ ~processing
  BY DEF InitWrite, InitBatch, IInv, ProcessorRuns
<1>2. CASE InitWrite
  <2>1. pc' = "init" /\ UNCHANGED <<executed, batch>> /\ ~processing'
    BY <1>1, <1>2 DEF InitWrite, IInv, ProcessorRuns
  <2> QED
    BY <1>1, <2>1 DEF QInv, UntoldSlots
<1>3. CASE InitBatch
  <2>1. /\ pc' = "client" /\ initStep = 6
        /\ UNCHANGED <<regs, vram, processing, executed, ringHead, batch>>
    BY <1>3 DEF InitBatch, InitWrites
  <2>2. regs["head"] = RingStart /\ ringHead = RingStart
    BY <1>1, <2>1 DEF IInv, InitProgress
  <2>3. PICK mem \in Memory : mem = vram
    BY VramType
  <2>4. Waits(mem, RingStart, RingStart) = << >>
    BY SlotsInRing, WaitsEmpty
  <2>5. UntoldSlots'
    BY <2>1, <2>2, <2>3, <2>4 DEF UntoldSlots, Waits
  <2> QED
    BY <1>1, <2>1, <2>5 DEF QInv
<1> QED
  BY <1>2, <1>3

\* Waiting and stalling move nothing.
LEMMA WaitKeepsQInv == IInv /\ QInv /\ (WaitSpace \/ Stall) => QInv'
<1> SUFFICES ASSUME IInv, QInv, WaitSpace \/ Stall PROVE QInv'
  OBVIOUS
<1> USE DEF FlushHasBatch, StartsEmpty, ExecutesInHeadWrite, ReturnsDrained,
            FlushSteps, WaitSteps, StallSteps
<1>1. /\ pc \in WaitSteps \cup StallSteps /\ pc' \notin {"init", "kick", "kicked"}
      /\ UNCHANGED <<regs, vram, processing, executed, ringHead, batch>>
  <2>1. AfterFlush(caller) \in {"client", "sync", "append"}
    BY DEF AfterFlush
  <2>2. CASE WaitSpace
    BY <2>2 DEF WaitSpace, Granted, Stalled
  <2>3. CASE Stall
    BY <2>1, <2>3 DEF Stall, Granted, FlushReturns
  <2> QED
    BY <2>2, <2>3
<1>2. UntoldSlots'
  BY <1>1, SameUntoldSlots DEF QInv
<1> QED
  BY <1>1, <1>2 DEF QInv

\* What the padding of the dead words leaves: every pointer but the driver's
\* head, and what waits before it.
LEMMA WrapHeadKeepsWaits ==
  ASSUME IInv, ~PoolMayFail, WrapHead
  PROVE  /\ pc = "place" /\ pc' = "rewait"
         /\ UNCHANGED <<regs, processing, executed, batch>>
         /\ Waits(vram', regs["tail"], regs["head"]) = Waits(vram, regs["tail"], regs["head"])
         /\ Waits(vram', regs["head"], ringHead') = Waits(vram, regs["head"], ringHead)
<1>1. /\ pc = "place" /\ pc' = "rewait" /\ ringHead' = RingStart
      /\ BytesToWrite > RingEnd - ringHead
      /\ vram' = [w \in DOMAIN vram |->
                    IF w \in ringHead .. RingEnd - 1 THEN Noop ELSE vram[w]]
      /\ UNCHANGED <<regs, processing, executed, batch>>
  BY DEF WrapHead, SpaceAtEnd
<1>2. FreeSpace(ringHead, ringTail) >= BytesToWrite
  BY <1>1 DEF IInv, FlushProgress
<1>3. PICK a \in SlotAddresses : a = ringTail /\ a \in Ring
  BY <1>1, Pointers
<1>4. PICK b \in SlotAddresses : b = regs["tail"] /\ b \in Ring
  BY <1>1, Pointers
<1>5. PICK c \in SlotAddresses : c = regs["head"] /\ c \in Ring
  BY <1>1, Pointers
<1>6. PICK d \in SlotAddresses : d = ringHead /\ d \in Ring
  BY <1>1, Pointers
<1>7. InOrder(a, b, c, d)
  BY <1>1, <1>3, <1>4, <1>5, <1>6, Pointers
<1>8. PICK size \in Nat : size = RingEnd - d
  BY <1>6, RingAssumption DEF Ring, RingEnd
<1>9. FreeSpace(d, a) >= size /\ RingStart < a /\ a <= d
  <2>1. PICK bytes \in Nat : bytes = BytesToWrite
    BY BatchSize
  <2>2. FreeSpace(d, a) >= bytes /\ bytes > RingEnd - d /\ FreeSpace(d, a) \in Int
    BY <1>1, <1>2, <1>3, <1>6, <2>1, RingAssumption DEF FreeSpace, Ring, RingEnd
  <2>3. RingStart < a /\ a <= d
    BY <1>3, <1>6, <2>2, WrapSpace
  <2> QED
    BY <1>8, <2>2, <2>3
<1>10. PICK mem \in Memory : mem = vram
  BY VramType
<1>11. PICK new \in Memory : new = vram'
  BY <1>1, <1>10 DEF Memory, Words
<1>12. ASSUME NEW w \in Ring
       PROVE  /\ w < d \/ w >= d + size => new[w] = mem[w]
              /\ w >= d => new[w] = Noop
  <2>1. w \in DOMAIN vram /\ w \in Int
    BY <1>10, RingAssumption, DeviceAssumption DEF Memory, Ring, RingEnd
  <2>2. new[w] = IF w \in d .. RingEnd - 1 THEN Noop ELSE mem[w]
    BY <1>1, <1>6, <1>10, <1>11, <2>1
  <2>3. d + size = RingEnd /\ w <= RingEnd - 1 /\ d \in Int /\ RingEnd \in Int
    BY <1>6, <1>8, RingAssumption DEF Ring, RingEnd
  <2> QED
    BY <2>1, <2>2, <2>3
<1>13. Waits(new, b, c) = Waits(mem, b, c)
  BY <1>7, <1>9, <1>12, WriteKeepsWaits
<1>14. Waits(new, c, d) = Waits(mem, c, d)
  <2>1. InOrder(a, c, d, d)
    BY <1>3, <1>4, <1>5, <1>6, <1>7, OrderUntold
  <2> QED
    BY <1>9, <1>12, <2>1, WriteKeepsWaits
<1>15. Waits(new, c, RingStart) = Waits(mem, c, d)
  <2>1. PICK s \in SlotAddresses : s = RingStart
    BY SlotsInRing
  <2>2. InOrder(c, c, d, s)
    BY <1>3, <1>4, <1>5, <1>6, <1>7, <1>9, <2>1, OrderUntoldWrap
  <2>3. Waits(new, c, s) = Cat(Waits(new, c, d), Waits(new, d, s))
    BY <2>2, WaitsConcat
  <2>4. Waits(new, d, s) = << >>
    BY <1>12, <2>1, PaddingWaits
  <2>5. PICK v \in Seq(Words) : v = Waits(new, c, d)
    BY WaitsType
  <2>6. Cat(v, << >>) = v
    BY ConcatEmptySeq DEF Cat
  <2> QED
    BY <1>14, <2>1, <2>3, <2>4, <2>5, <2>6
<1> QED
  BY <1>1, <1>4, <1>5, <1>6, <1>10, <1>11, <1>13, <1>15

\* What the copy of the batch leaves, and what it adds behind the device's head.
LEMMA WriteBatchAddsWaits ==
  ASSUME IInv, WriteBatch,
         Waits(vram, regs["head"], ringHead) = << >>
  PROVE  /\ pc \in {"place", "write"} /\ pc' = "kick"
         /\ UNCHANGED <<regs, processing, executed, batch>>
         /\ Waits(vram', regs["tail"], regs["head"]) = Waits(vram, regs["tail"], regs["head"])
         /\ Waits(vram', regs["head"], ringHead') = batch
<1>1. /\ pc \in {"place", "write"} /\ pc' = "kick"
      /\ BytesToWrite <= RingEnd - ringHead
      /\ ringHead' = Behind(ringHead, BytesToWrite)
      /\ vram' = [w \in DOMAIN vram |->
                    IF w \in ringHead .. ringHead + BytesToWrite - 1
                      THEN BatchWord(w - ringHead) ELSE vram[w]]
      /\ FreeSpace(ringHead, ringTail) >= BytesToWrite
      /\ UNCHANGED <<regs, processing, executed, batch>>
  BY DEF WriteBatch, SpaceAtEnd, IInv, FlushProgress, Behind
<1>2. pc # "init"
  BY <1>1
<1>3. PICK a \in SlotAddresses : a = ringTail /\ a \in Ring
  BY <1>2, Pointers
<1>4. PICK b \in SlotAddresses : b = regs["tail"] /\ b \in Ring
  BY <1>2, Pointers
<1>5. PICK c \in SlotAddresses : c = regs["head"] /\ c \in Ring
  BY <1>2, Pointers
<1>6. PICK d \in SlotAddresses : d = ringHead /\ d \in Ring
  BY <1>2, Pointers
<1>7. InOrder(a, b, c, d)
  BY <1>2, <1>3, <1>4, <1>5, <1>6, Pointers
<1>8. PICK s \in Seq(Commands) : s = batch
  BY DEF IInv, TypeOK
<1>9. PICK size \in Nat : size = BytesToWrite /\ size = CmdWords * Len(s)
  BY <1>8, BatchSize
<1>10. PICK e \in SlotAddresses : e = ringHead' /\ e = Behind(d, size)
  BY <1>1, <1>6, <1>8, <1>9, BehindSlot, BatchSize
<1>11. FreeSpace(d, a) >= size /\ size <= RingEnd - d
  BY <1>1, <1>3, <1>6, <1>9
<1>12. PICK mem \in Memory : mem = vram
  BY VramType
<1>13. PICK new \in Memory : new = vram'
  <2>1. vram' \in [0 .. VramWords - 1 -> Commands \cup {Noop, Payload}]
    BY WriteKeepsIInv DEF IInv, TypeOK, DeviceTypeOK
  <2> QED
    BY <2>1 DEF Memory, Words
<1>14. ASSUME NEW w \in Ring
       PROVE  new[w] = IF d <= w /\ w < d + size THEN BatchWord(w - d) ELSE mem[w]
  <2>1. w \in DOMAIN vram /\ w \in Int /\ d \in Int
    BY <1>6, <1>12, RingAssumption, DeviceAssumption DEF Memory, Ring, RingEnd
  <2>2. w \in d .. d + size - 1 <=> d <= w /\ w < d + size
    BY <2>1
  <2> QED
    BY <1>1, <1>6, <1>9, <1>12, <1>13, <2>1, <2>2
<1>15. ASSUME NEW w \in Ring, w < d \/ w >= d + size PROVE new[w] = mem[w]
  <2>1. w \in Int /\ d \in Int
    BY <1>6, RingAssumption DEF Ring, RingEnd
  <2> QED
    BY <1>14, <1>15, <2>1
<1>16. Waits(new, b, c) = Waits(mem, b, c)
  BY <1>7, <1>11, <1>15, WriteKeepsWaits
<1>17. Waits(new, c, d) = << >>
  <2>1. InOrder(a, c, d, d)
    BY <1>3, <1>4, <1>5, <1>6, <1>7, OrderUntold
  <2>2. Waits(new, c, d) = Waits(mem, c, d)
    BY <1>11, <1>15, <2>1, WriteKeepsWaits
  <2> QED
    BY <1>5, <1>6, <1>12, <2>2
<1>18. Waits(new, d, e) = s
  <2>1. PICK n \in Nat : n = Len(s)
    BY LenProperties
  <2>2. ASSUME NEW i \in 1 .. Len(s) PROVE new[d + CmdWords * (i - 1)] = s[i]
    <3>1. i \in 1 .. n /\ size = 9 * n
      BY <1>9, <2>1 DEF CmdWords
    <3>2. PICK w \in Ring : w = d + 9 * (i - 1) /\ d <= w /\ w < d + size
      BY <1>6, <1>11, <3>1, RingAssumption DEF Ring, RingEnd
    <3>3. w - d = 9 * (i - 1) /\ (9 * (i - 1)) % 9 = 0 /\ (9 * (i - 1)) \div 9 + 1 = i
      BY <1>6, <3>1, <3>2, RingAssumption DEF Ring, RingEnd
    <3>4. BatchWord(w - d) = batch[i]
      BY <3>3 DEF BatchWord, CmdWords
    <3> QED
      BY <1>8, <1>14, <3>2, <3>4 DEF CmdWords
  <2>3. size < RingWords
    BY <1>3, <1>6, <1>11, RingAssumption DEF FreeSpace, Ring, RingEnd
  <2> QED
    BY <1>9, <1>10, <1>11, <2>2, <2>3, BatchWaits
<1>19. Waits(new, c, e) = s
  <2>1. InOrder(c, c, d, e)
    BY <1>3, <1>4, <1>5, <1>6, <1>7, <1>10, <1>11, OrderUntoldWrite
  <2>2. Waits(new, c, e) = Cat(Waits(new, c, d), Waits(new, d, e))
    BY <2>1, WaitsConcat
  <2>3. Cat(<< >>, s) = s
    BY ConcatEmptySeq DEF Cat
  <2> QED
    BY <1>17, <1>18, <2>2, <2>3
<1> QED
  BY <1>1, <1>4, <1>5, <1>8, <1>10, <1>12, <1>13, <1>16, <1>19

\* What the head write does: the device's head is the driver's, and the device
\* processes unless it is in the GOP mode or has met that head already.
LEMMA KickLaunches ==
  ASSUME IInv, Kick
  PROVE  /\ pc = "kick" /\ pc' = "kicked"
         /\ UNCHANGED <<vram, executed, ringHead, batch>>
         /\ regs'["head"] = ringHead /\ regs'["tail"] = regs["tail"]
         /\ regs'["mode"] = regs["mode"]
         /\ processing' = (regs["mode"] # ModeGop /\ regs["tail"] # ringHead)
<1> DEFINE written == [regs EXCEPT !["head"] = ringHead]
<1>1. /\ pc = "kick" /\ pc' = "kicked" /\ MmioWrite("head", ringHead)
      /\ UNCHANGED <<vram, executed, ringHead, batch>>
  BY DEF Kick
<1>2. /\ written["head"] = ringHead
      /\ \A r \in RingRegs : r # "head" => written[r] = regs[r]
  BY DEF IInv, TypeOK, DeviceTypeOK, RingRegs
<1>3. /\ written["start"] = RingStart /\ written["end"] = RingEnd
      /\ written["tail"] = regs["tail"] /\ written["mode"] = regs["mode"]
      /\ regs["tail"] \in Ring
  BY <1>1, <1>2, Pointers DEF IInv, RingRegsSet, RingRegs
<1>4. MmioWrite("head", ringHead) =
        LET launched == Triggers("head") /\ RingConfigured(written)
            checked  == IF launched THEN TailInBounds(written) ELSE written
        IN  /\ ~processing
            /\ regs' = checked
            /\ processing' = (launched /\ checked.tail # checked.head)
  BY DEF MmioWrite
<1> HIDE DEF written
<1>5. TailInBounds(written) = written /\ RingConfigured(written)
  BY <1>3, RingAssumption DEF TailInBounds, RingConfigured, Ring, RingEnd
<1>6. Triggers("head") = (regs["mode"] # ModeGop)
  BY DEF Triggers
<1>7. regs' = written /\ processing' = (regs["mode"] # ModeGop /\ written["tail"] # written["head"])
  BY <1>1, <1>4, <1>5, <1>6
<1> QED
  BY <1>1, <1>2, <1>3, <1>7

\* The driver's steps keep the invariant, as long as the padding is written.
LEMMA DriverKeepsQInv == IInv /\ IInv' /\ QInv /\ ~PoolMayFail /\ DriverStep => QInv'
<1> SUFFICES ASSUME IInv, IInv', QInv, ~PoolMayFail, DriverStep PROVE QInv'
  OBVIOUS
<1> USE DEF FlushHasBatch, StartsEmpty, ExecutesInHeadWrite, ReturnsDrained,
            FlushSteps, WaitSteps, StallSteps
<1>1. CASE WrapHead
  <2>1. /\ pc = "place" /\ pc' = "rewait" /\ UNCHANGED <<regs, processing, executed, batch>>
        /\ Waits(vram', regs["head"], ringHead') = Waits(vram, regs["head"], ringHead)
    BY <1>1, WrapHeadKeepsWaits
  <2>2. UntoldSlots'
    BY <2>1 DEF QInv, UntoldSlots, Waits
  <2> QED
    BY <2>1, <2>2 DEF QInv
<1>2. CASE WriteBatch
  <2>1. pc \in {"place", "write"}
    BY <1>2 DEF WriteBatch
  <2>2. Waits(vram, regs["head"], ringHead) = << >>
    BY <2>1 DEF QInv, UntoldSlots, Waits
  <2>3. /\ pc' = "kick" /\ UNCHANGED <<regs, processing, executed, batch>>
        /\ Waits(vram', regs["head"], ringHead') = batch
    BY <1>2, <2>2, WriteBatchAddsWaits
  <2>4. UntoldSlots'
    BY <2>3 DEF UntoldSlots, Waits
  <2> QED
    BY <2>1, <2>3, <2>4 DEF QInv
<1>3. CASE Kick
  <2>1. /\ pc = "kick" /\ pc' = "kicked"
        /\ UNCHANGED <<vram, executed, ringHead, batch>>
        /\ regs'["head"] = ringHead /\ regs'["tail"] = regs["tail"]
        /\ regs'["mode"] = regs["mode"]
        /\ processing' = (regs["mode"] # ModeGop /\ regs["tail"] # ringHead)
    BY <1>3, KickLaunches
  <2>2. PICK mem \in Memory : mem = vram
    BY VramType
  <2>3. PICK d \in SlotAddresses : d = ringHead
    BY <2>1, Pointers
  <2>4. Waits(mem, d, d) = << >>
    BY WaitsEmpty
  <2>5. UntoldSlots'
    BY <2>1, <2>2, <2>3, <2>4 DEF UntoldSlots, Waits
  <2> QED
    BY <2>1, <2>5 DEF QInv
<1>4. ASSUME pc \notin {"init", "kick"}, pc' \notin FlushSteps \cup {"init"},
             UNCHANGED <<regs, vram, processing, ringHead>>, ~processing,
             executed' = << >>
      PROVE  QInv'
  <2>1. UntoldSlots'
    BY <1>4, SameUntoldSlots DEF QInv
  <2> QED
    BY <1>4, <2>1 DEF QInv
<1>5. CASE AppendCmd \/ PresentSync \/ DestroyPoll
  <2>1. ~processing /\ executed = << >>
    BY <1>5 DEF AppendCmd, PresentSync, DestroyPoll, IInv, ProcessorRuns, QInv
  <2> QED
    BY <1>4, <1>5, <2>1 DEF AppendCmd, PresentSync, DestroyPoll
<1>6. CASE KickReturns
  <2>1. AfterFlush(caller) \in {"client", "sync", "append"}
    BY DEF AfterFlush
  <2> QED
    BY <1>4, <1>6, <2>1 DEF KickReturns, FlushReturns
<1> QED
  BY <1>1, <1>2, <1>3, <1>5, <1>6, InitStepKeepsQInv, WaitKeepsQInv DEF DriverStep

\* What an iteration of the command processor does.
LEMMA DeviceAdvances ==
  ASSUME IInv, DeviceStep
  PROVE  /\ pc = "kicked" /\ pc' = "kicked" /\ regs["tail"] # regs["head"]
         /\ UNCHANGED <<vram, ringHead, batch>>
         /\ regs'["tail"] = NextSlot(regs["tail"])
         /\ regs'["head"] = regs["head"] /\ regs'["mode"] = regs["mode"]
         /\ processing /\ processing' = (NextSlot(regs["tail"]) # regs["head"])
         /\ executed' = IF vram[regs["tail"]] = Noop
                          THEN executed ELSE Append(executed, vram[regs["tail"]])
<1>1. /\ processing /\ pc = "kicked" /\ regs["tail"] # regs["head"]
  BY DEF DeviceStep, ProcessCommand, IInv, ProcessorRuns
<1>2. AdvanceTail(regs) = NextSlot(regs["tail"])
  BY <1>1 DEF AdvanceTail, NextSlot, IInv, RingRegsSet
<1>3. PICK next : next = NextSlot(regs["tail"])
  OBVIOUS
<1>4. regs' = [regs EXCEPT !["tail"] = next]
  BY <1>2, <1>3 DEF DeviceStep, ProcessCommand
<1>5. regs'["tail"] = next /\ regs'["head"] = regs["head"] /\ regs'["mode"] = regs["mode"]
  BY <1>4 DEF IInv, TypeOK, DeviceTypeOK, RingRegs
<1> QED
  BY <1>1, <1>2, <1>3, <1>5 DEF DeviceStep, ProcessCommand

\* Every step keeps the invariant.
LEMMA NextQInv == IInv /\ IInv' /\ QInv /\ ~PoolMayFail /\ [Next]_vars => QInv'
<1> SUFFICES ASSUME IInv, IInv', QInv, ~PoolMayFail, [Next]_vars PROVE QInv'
  OBVIOUS
<1> USE DEF UntoldSlots, FlushHasBatch, StartsEmpty, ExecutesInHeadWrite, ReturnsDrained,
            FlushSteps, WaitSteps, StallSteps
<1>1. CASE DeviceStep
  <2>1. /\ pc = "kicked" /\ pc' = "kicked"
        /\ UNCHANGED <<vram, ringHead, batch>>
        /\ regs'["tail"] = NextSlot(regs["tail"])
        /\ regs'["head"] = regs["head"] /\ regs'["mode"] = regs["mode"]
        /\ processing /\ processing' = (NextSlot(regs["tail"]) # regs["head"])
    BY <1>1, DeviceAdvances
  <2> QED
    BY <2>1 DEF QInv
<1>2. CASE GuestReset
  BY <1>2 DEF GuestReset, QInv
<1>3. CASE UNCHANGED vars
  BY <1>3 DEF vars, QInv
<1> QED
  BY <1>1, <1>2, <1>3, ClientKeepsQInv, DriverKeepsQInv DEF Next

-----------------------------------------------------------------------------
(***************************************************************************)
(* Every step is a step of the queue, or leaves it alone.                  *)
(***************************************************************************)
QueueStep == [Queue!QueueNext]_(Queue!queueVars)

\* Behind GpuRingBufferInit the queue is what waits between the device's tail
\* and its head.
LEMMA QueueIsWaits ==
  /\ pc # "init" => queue = Waits(vram, regs["tail"], regs["head"])
  /\ pc' # "init" => queue' = Waits(vram', regs'["tail"], regs'["head"])
BY DEF queue, Waits

\* Where nothing of the device moves the queue stays.
LEMMA SameQueue ==
  ASSUME pc # "init", pc' # "init", UNCHANGED <<regs, vram>>
  PROVE  queue' = queue
BY DEF queue

\* GpuRingBufferInit begins and ends with an empty queue.
LEMMA EmptyAfterInit == IInv /\ InitBatch => queue = << >> /\ queue' = << >>
<1> SUFFICES ASSUME IInv, InitBatch PROVE queue = << >> /\ queue' = << >>
  OBVIOUS
<1>1. pc = "init" /\ pc' = "client" /\ initStep = 6 /\ UNCHANGED <<regs, vram>>
  BY DEF InitBatch, InitWrites
<1>2. regs'["tail"] = RingStart /\ regs'["head"] = RingStart
  BY <1>1 DEF IInv, InitProgress
<1>3. PICK mem \in Memory : mem = vram
  BY VramType
<1>4. Waits(mem, RingStart, RingStart) = << >>
  BY SlotsInRing, WaitsEmpty
<1> QED
  BY <1>1, <1>2, <1>3, <1>4, QueueIsWaits DEF queue

\* The client's calls record, discard, switch the processor or do nothing.
LEMMA ClientQueueStep == IInv /\ QInv /\ ClientStep => QueueStep
<1> SUFFICES ASSUME IInv, QInv, ClientStep PROVE QueueStep
  OBVIOUS
<1> USE DEF recorded, enabled, busy
<1>1. ASSUME NEW mode \in ClientModes, SetMode(mode) PROVE QueueStep
  <2>1. /\ pc = "client" /\ pc' = "client"
        /\ regs' = [regs EXCEPT !["mode"] = mode]
        /\ UNCHANGED <<vram, executed, batch>>
    BY <1>1 DEF SetMode, MmioWrite, Triggers
  <2>2. regs'["head"] = regs["head"] /\ regs'["tail"] = regs["tail"]
    BY <2>1 DEF IInv, TypeOK, DeviceTypeOK, RingRegs
  <2>3. queue' = queue
    BY <2>1, <2>2, QueueIsWaits
  <2>4. Queue!SwitchProcessor(enabled') /\ enabled' \in BOOLEAN
    BY <2>1, <2>3 DEF Queue!SwitchProcessor
  <2> QED
    BY <2>4 DEF QueueStep, Queue!QueueNext
<1>2. ASSUME pc = "client", pc' \notin {"init", "kicked"},
             UNCHANGED <<regs, vram, executed, batch>>
      PROVE  QueueStep
  <2>1. queue' = queue
    BY <1>2, SameQueue
  <2> QED
    BY <1>2, <2>1 DEF QueueStep, Queue!queueVars
<1>3. ASSUME NEW who \in Callers, pc = "client", Flush(who) PROVE QueueStep
  <2>1. AfterFlush(who) \in {"client", "sync", "append"}
    BY DEF AfterFlush
  <2> QED
    BY <1>2, <1>3, <2>1 DEF Flush, FlushReturns
<1>4. CASE CmdBegin
  <2>1. /\ pc = "client" /\ pc' = "client" /\ batch' = << >>
        /\ UNCHANGED <<regs, vram, executed>>
    BY <1>4 DEF CmdBegin
  <2>2. queue' = queue
    BY <2>1, SameQueue
  <2>3. Queue!Discard
    BY <2>1, <2>2 DEF Queue!Discard
  <2> QED
    BY <2>3 DEF QueueStep, Queue!QueueNext
<1>5. CASE Destroy
  BY <1>2, <1>5 DEF Destroy
<1>6. ASSUME NEW cmd \in Commands, AddCmd(cmd) PROVE QueueStep
  <2>1. CASE BatchOverflows
    BY <1>3, <1>6, <2>1 DEF AddCmd, Callers
  <2>2. CASE ~BatchOverflows
    BY <1>2, <1>6, <2>2 DEF AddCmd
  <2> QED
    BY <2>1, <2>2
<1>7. CASE Submit \/ Present
  BY <1>3, <1>7 DEF Submit, Present, Callers
<1> QED
  BY <1>1, <1>4, <1>5, <1>6, <1>7 DEF ClientStep

\* The head write submits: what the driver has filled joins the queue.
LEMMA KickSubmits == IInv /\ QInv /\ Kick => QueueStep
<1> SUFFICES ASSUME IInv, QInv, Kick PROVE QueueStep
  OBVIOUS
<1>1. /\ pc = "kick" /\ pc' = "kicked"
      /\ UNCHANGED <<vram, executed, ringHead, batch>>
      /\ regs'["head"] = ringHead /\ regs'["tail"] = regs["tail"]
      /\ regs'["mode"] = regs["mode"]
  BY KickLaunches
<1>2. pc # "init" /\ pc' # "init"
  BY <1>1
<1>3. PICK a \in SlotAddresses : a = ringTail /\ a \in Ring
  BY <1>2, Pointers
<1>4. PICK b \in SlotAddresses : b = regs["tail"] /\ b \in Ring
  BY <1>2, Pointers
<1>5. PICK c \in SlotAddresses : c = regs["head"] /\ c \in Ring
  BY <1>2, Pointers
<1>6. PICK d \in SlotAddresses : d = ringHead /\ d \in Ring
  BY <1>2, Pointers
<1>7. InOrder(b, b, c, d)
  <2>1. InOrder(a, b, c, d)
    BY <1>2, <1>3, <1>4, <1>5, <1>6, Pointers
  <2> QED
    BY <1>3, <1>4, <1>5, <1>6, <2>1, OrderReread
<1>8. PICK mem \in Memory : mem = vram
  BY VramType
<1>9. Waits(mem, b, d) = Cat(Waits(mem, b, c), Waits(mem, c, d))
  BY <1>7, WaitsConcat
<1>10. Waits(mem, c, d) = batch
  BY <1>1, <1>5, <1>6, <1>8 DEF QInv, UntoldSlots, Waits
<1>11. queue' = queue \o batch
  BY <1>1, <1>2, <1>4, <1>5, <1>6, <1>8, <1>9, <1>10, QueueIsWaits DEF Cat
<1>12. batch # << >>
  BY <1>1 DEF QInv, FlushHasBatch, FlushSteps
<1>13. Queue!Submit
  BY <1>1, <1>11, <1>12 DEF Queue!Submit, recorded, enabled, busy
<1> QED
  BY <1>13 DEF QueueStep, Queue!QueueNext

\* The return of the head write returns the submission, or, when nothing was
\* processed, is none of the queue's business.
LEMMA KickReturnsReturns == IInv /\ QInv /\ KickReturns => QueueStep
<1> SUFFICES ASSUME IInv, QInv, KickReturns PROVE QueueStep
  OBVIOUS
<1>1. /\ pc = "kicked" /\ ~processing /\ executed' = << >> /\ batch' = << >>
      /\ UNCHANGED <<regs, vram>> /\ pc' \in {"client", "sync", "append"}
  <2>1. AfterFlush(caller) \in {"client", "sync", "append"}
    BY DEF AfterFlush
  <2> QED
    BY <2>1 DEF KickReturns, FlushReturns
<1>2. queue' = queue
  BY <1>1, SameQueue
<1>3. CASE regs["mode"] = ModeGop
  <2>1. executed = << >>
    BY <1>3 DEF QInv, ExecutesInHeadWrite
  <2> QED
    BY <1>1, <1>2, <1>3, <2>1 DEF QueueStep, Queue!queueVars, recorded, enabled, busy
<1>4. CASE regs["mode"] # ModeGop
  <2>1. regs["tail"] = regs["head"]
    BY <1>1, <1>4 DEF QInv, ReturnsDrained
  <2>2. PICK mem \in Memory : mem = vram
    BY VramType
  <2>3. PICK t \in SlotAddresses : t = regs["tail"]
    BY <1>1, Pointers
  <2>4. Waits(mem, t, t) = << >>
    BY WaitsEmpty
  <2>5. queue = << >>
    BY <1>1, <2>1, <2>2, <2>3, <2>4, QueueIsWaits
  <2>6. Queue!Return
    BY <1>1, <1>2, <1>4, <2>5 DEF Queue!Return, recorded, enabled, busy
  <2> QED
    BY <2>6 DEF QueueStep, Queue!QueueNext
<1> QED
  BY <1>3, <1>4

\* The driver's steps record, submit, return, discard or do nothing.
LEMMA DriverQueueStep == IInv /\ QInv /\ ~PoolMayFail /\ DriverStep => QueueStep
<1> SUFFICES ASSUME IInv, QInv, ~PoolMayFail, DriverStep PROVE QueueStep
  OBVIOUS
<1>1. CASE InitWrite
  <2>1. /\ pc = "init" /\ pc' = "init" /\ UNCHANGED <<executed, batch>>
    BY <1>1 DEF InitWrite
  <2>2. Queue!SwitchProcessor(enabled') /\ enabled' \in BOOLEAN
    BY <2>1 DEF Queue!SwitchProcessor, queue, recorded, enabled, busy
  <2> QED
    BY <2>2 DEF QueueStep, Queue!QueueNext
<1>2. CASE InitBatch
  <2>1. /\ pc = "init" /\ pc' = "client" /\ UNCHANGED <<regs, executed, batch>>
    BY <1>2 DEF InitBatch
  <2>2. queue' = queue
    BY <1>2, EmptyAfterInit
  <2> QED
    BY <2>1, <2>2 DEF QueueStep, Queue!queueVars, recorded, enabled, busy
<1>3. CASE AppendCmd
  <2>1. /\ pc = "append" /\ pc' \in {"client", "fault"}
        /\ UNCHANGED <<regs, vram, executed>>
        /\ batch' = batch \/ batch' = Append(batch, caller)
    BY <1>3 DEF AppendCmd
  <2>2. queue' = queue
    BY <2>1, SameQueue
  <2>3. caller \in Commands
    BY <2>1 DEF IInv, AppendHasCommand
  <2>4. CASE batch' = batch
    BY <2>1, <2>2, <2>4 DEF QueueStep, Queue!queueVars, recorded, enabled, busy
  <2>5. CASE batch' = Append(batch, caller)
    <3>1. Queue!Record(caller)
      BY <2>1, <2>2, <2>5 DEF Queue!Record, recorded, enabled, busy
    <3> QED
      BY <2>3, <3>1 DEF QueueStep, Queue!QueueNext
  <2> QED
    BY <2>1, <2>4, <2>5
<1>4. ASSUME pc \notin {"init", "kicked"}, pc' \notin {"init", "kicked"},
             UNCHANGED <<regs, executed, batch>>, queue' = queue
      PROVE  QueueStep
  BY <1>4 DEF QueueStep, Queue!queueVars, recorded, enabled, busy
<1>5. CASE WaitSpace \/ Stall \/ PresentSync
  <2>1. AfterFlush(caller) \in {"client", "sync", "append"}
    BY DEF AfterFlush
  <2>2. /\ pc \in WaitSteps \cup StallSteps \cup {"sync"} /\ pc' \notin {"init", "kicked"}
        /\ UNCHANGED <<regs, vram, executed, batch>>
    <3>1. CASE WaitSpace
      BY <3>1 DEF WaitSpace, Granted, Stalled, WaitSteps
    <3>2. CASE Stall
      BY <2>1, <3>2 DEF Stall, Granted, FlushReturns, StallSteps
    <3>3. CASE PresentSync
      BY <3>3 DEF PresentSync
    <3> QED
      BY <1>5, <3>1, <3>2, <3>3
  <2>3. pc \notin {"init", "kicked"}
    BY <2>2 DEF WaitSteps, StallSteps
  <2>4. queue' = queue
    BY <2>2, <2>3, SameQueue
  <2> QED
    BY <1>4, <2>2, <2>3, <2>4
<1>6. CASE WrapHead
  <2>1. /\ pc = "place" /\ pc' = "rewait"
        /\ UNCHANGED <<regs, processing, executed, batch>>
        /\ Waits(vram', regs["tail"], regs["head"]) = Waits(vram, regs["tail"], regs["head"])
    BY <1>6, WrapHeadKeepsWaits
  <2>2. queue' = queue
    BY <2>1, QueueIsWaits
  <2> QED
    BY <1>4, <2>1, <2>2
<1>7. CASE WriteBatch
  <2>1. pc \in {"place", "write"}
    BY <1>7 DEF WriteBatch
  <2>2. Waits(vram, regs["head"], ringHead) = << >>
    BY <2>1 DEF QInv, UntoldSlots, Waits
  <2>3. /\ pc' = "kick"
        /\ UNCHANGED <<regs, processing, executed, batch>>
        /\ Waits(vram', regs["tail"], regs["head"]) = Waits(vram, regs["tail"], regs["head"])
    BY <1>7, <2>2, WriteBatchAddsWaits
  <2>4. queue' = queue
    BY <2>1, <2>3, QueueIsWaits
  <2> QED
    BY <1>4, <2>1, <2>3, <2>4
<1>8. CASE DestroyPoll
  <2>1. /\ pc = "destroy" /\ pc' \in {"client", "destroy"}
        /\ UNCHANGED <<regs, vram, executed>>
        /\ batch' = batch \/ batch' = << >>
    BY <1>8 DEF DestroyPoll
  <2>2. queue' = queue
    BY <2>1, SameQueue
  <2>3. CASE batch' = batch
    BY <2>1, <2>2, <2>3 DEF QueueStep, Queue!queueVars, recorded, enabled, busy
  <2>4. CASE batch' = << >>
    <3>1. Queue!Discard
      BY <2>1, <2>2, <2>4 DEF Queue!Discard, recorded, enabled, busy
    <3> QED
      BY <3>1 DEF QueueStep, Queue!QueueNext
  <2> QED
    BY <2>1, <2>3, <2>4
<1> QED
  BY <1>1, <1>2, <1>3, <1>5, <1>6, <1>7, <1>8, KickSubmits, KickReturnsReturns
     DEF DriverStep

\* An iteration of the command processor executes the oldest command, or passes
\* over padding.
LEMMA DeviceQueueStep == IInv /\ QInv /\ DeviceStep => QueueStep
<1> SUFFICES ASSUME IInv, QInv, DeviceStep PROVE QueueStep
  OBVIOUS
<1>1. /\ pc = "kicked" /\ pc' = "kicked" /\ regs["tail"] # regs["head"]
      /\ UNCHANGED <<vram, ringHead, batch>>
      /\ regs'["tail"] = NextSlot(regs["tail"])
      /\ regs'["head"] = regs["head"] /\ regs'["mode"] = regs["mode"]
      /\ processing
      /\ executed' = IF vram[regs["tail"]] = Noop
                       THEN executed ELSE Append(executed, vram[regs["tail"]])
  BY DeviceAdvances
<1>2. regs["mode"] # ModeGop
  BY <1>1 DEF QInv, ExecutesInHeadWrite
<1>3. PICK t \in SlotAddresses : t = regs["tail"]
  BY <1>1, Pointers
<1>4. PICK h \in SlotAddresses : h = regs["head"]
  BY <1>1, Pointers
<1>5. PICK mem \in Memory : mem = vram
  BY VramType
<1>6. PICK n \in SlotAddresses : n = NextSlot(t)
  BY NextSlotIsSlot
<1>7. PICK rest \in Seq(Words) : rest = Waits(mem, n, h)
  BY WaitsType
<1>8. queue' = rest
  BY <1>1, <1>3, <1>4, <1>5, <1>6, <1>7, QueueIsWaits
<1>9. queue = IF mem[t] = Noop THEN rest ELSE Cat(<<mem[t]>>, rest)
  BY <1>1, <1>3, <1>4, <1>5, <1>6, <1>7, QueueIsWaits, WaitsFirst
<1>10. CASE mem[t] = Noop
  <2>1. queue' = queue /\ executed' = executed
    BY <1>1, <1>3, <1>5, <1>8, <1>9, <1>10
  <2> QED
    BY <1>1, <2>1 DEF QueueStep, Queue!queueVars, recorded, enabled, busy
<1>11. CASE mem[t] # Noop
  <2>1. executed' = Append(executed, mem[t]) /\ queue = Cat(<<mem[t]>>, rest)
    BY <1>1, <1>3, <1>5, <1>9, <1>11
  <2>2. mem[t] \in Words
    BY SlotsInRing, RingAssumption, DeviceAssumption DEF Memory, Ring, RingEnd
  <2>3. queue # << >> /\ Head(queue) = mem[t] /\ Tail(queue) = rest
    BY <2>1, <2>2, CatHead
  <2>4. Queue!Execute
    BY <1>1, <1>2, <1>8, <2>1, <2>3 DEF Queue!Execute, recorded, enabled, busy
  <2> QED
    BY <2>4 DEF QueueStep, Queue!QueueNext
<1> QED
  BY <1>10, <1>11

\* A guest that restarts forgets what it recorded and what was queued.
LEMMA ResetQueueStep == IInv /\ QInv /\ GuestReset => QueueStep
<1> SUFFICES ASSUME IInv, QInv, GuestReset PROVE QueueStep
  OBVIOUS
<1>1. /\ ~processing /\ pc' = "init" /\ batch' = << >> /\ executed' = << >>
      /\ UNCHANGED regs
  BY DEF GuestReset
<1>2. ASSUME busy PROVE queue = << >>
  <2>1. pc = "kicked" /\ regs["tail"] = regs["head"]
    BY <1>1, <1>2 DEF busy, enabled, QInv, ReturnsDrained
  <2>2. PICK mem \in Memory : mem = vram
    BY VramType
  <2>3. PICK t \in SlotAddresses : t = regs["tail"]
    BY <2>1, Pointers
  <2>4. Waits(mem, t, t) = << >>
    BY WaitsEmpty
  <2> QED
    BY <2>1, <2>2, <2>3, <2>4, QueueIsWaits
<1>3. Queue!Restart
  BY <1>1, <1>2 DEF Queue!Restart, queue, recorded, enabled, busy
<1> QED
  BY <1>3 DEF QueueStep, Queue!QueueNext

\* The commands of every flush run in the order they were recorded, each once,
\* before the head write returns, through wraps, timeouts and resets, for every
\* ring size, batch size and mode (ringbuffer.c:105, gpu.c:146).
THEOREM RingImplementsQueue ==
  ASSUME ~PoolMayFail
  PROVE  Spec => ImplementsQueue
<1>1. Init => Queue!QueueInit
  BY DEF Init, DeviceInit, Queue!QueueInit, queue, recorded, enabled, busy, RingRegs,
         ModeGop
<1>2. IInv /\ QInv /\ [Next]_vars => QueueStep
  <2>1. ASSUME UNCHANGED vars PROVE QueueStep
    BY <2>1 DEF vars, QueueStep, Queue!queueVars, queue, recorded, enabled, busy
  <2> QED
    BY <2>1, ClientQueueStep, DriverQueueStep, DeviceQueueStep, ResetQueueStep DEF Next
<1>3. Spec => []QInv
  <2>1. Init => QInv
    BY InitQInv
  <2>2. IInv /\ IInv' /\ QInv /\ [Next]_vars => QInv'
    BY NextQInv
  <2> QED
    BY <2>1, <2>2, Invariant, PTL DEF Spec
<1> QED
  BY <1>1, <1>2, <1>3, Invariant, PTL DEF Spec, ImplementsQueue, Queue!QueueSpec, QueueStep
=============================================================================
