--------------------------- MODULE Registers_proofs ---------------------------
(***************************************************************************)
(* The arithmetic of the registers, for every number of values of a byte:  *)
(* a word is its four bytes, an update puts its bytes among them, and an   *)
(* update of four bytes is an assignment.                                  *)
(***************************************************************************)
EXTENDS Registers, SequenceTheorems, TLAPS

Byte == 0 .. LaneBase - 1

\* The word of four bytes, lowest first.
WordOf(a, b, c, d) == a + b * Weight(1) + c * Weight(2) + d * Weight(3)

\* A product of which one factor is at least one is no less than the other.
LEMMA AtLeastOne ==
  ASSUME NEW a \in Nat, NEW k \in Nat, k >= 1
  PROVE  a * k >= a
<1>1. PICK m \in Nat : k = m + 1
  BY SMT
<1>2. a * m \in Nat
  BY SMT
<1>3. a * (m + 1) = a * m + a
  BY SMT
<1>. QED BY <1>1, <1>2, <1>3, SMT

\* Division has one quotient and one remainder.
LEMMA DivisionUnique ==
  ASSUME NEW m \in Nat, NEW q \in Int, NEW r \in 0 .. m - 1
  PROVE  (q * m + r) \div m = q /\ (q * m + r) % m = r
<1>. DEFINE v == q * m + r
            s == v \div m
            t == v % m
<1>1. m > 0 /\ q * m \in Int /\ v \in Int
  BY SMT
<1>2. s \in Int /\ t \in 0 .. m - 1 /\ v = s * m + t
  BY <1>1, SMT
<1>3. s = q
  <2>1. ASSUME s > q PROVE FALSE
    <3>1. m * (s - q) >= m
      BY <1>1, <1>2, <2>1, AtLeastOne, SMT
    <3>2. m * (s - q) = r - t
      BY <1>1, <1>2, SMT
    <3>. HIDE DEF s, t
    <3>. QED BY <1>1, <1>2, <3>1, <3>2, SMT
  <2>2. ASSUME q > s PROVE FALSE
    <3>1. m * (q - s) >= m
      BY <1>1, <1>2, <2>2, AtLeastOne, SMT
    <3>2. m * (q - s) = t - r
      BY <1>1, <1>2, SMT
    <3>. HIDE DEF s, t
    <3>. QED BY <1>1, <1>2, <3>1, <3>2, SMT
  <2>. HIDE DEF s, t
  <2>. QED BY <1>2, <2>1, <2>2, SMT
<1>4. t = r
  BY <1>1, <1>2, <1>3, SMT
<1>. QED BY <1>3, <1>4

\* The weights of the bytes of a word.
LEMMA Weights ==
  /\ LaneBase \in Nat /\ LaneBase >= 2
  /\ Weight(0) = 1
  /\ Weight(1) = LaneBase
  /\ Weight(2) = LaneBase * LaneBase
  /\ Weight(3) = LaneBase * LaneBase * LaneBase
  /\ Weight(4) = (LaneBase * LaneBase) * (LaneBase * LaneBase)
BY RegistersAssumption, SMT DEF Weight

\* A number below the divisor is its own remainder.
LEMMA SmallRemainder ==
  ASSUME NEW m \in Nat, NEW r \in 0 .. m - 1
  PROVE  r % m = r
BY SMT

\* The weights are positive, each LaneBase times the one before.
LEMMA WeightSteps ==
  /\ \A k \in 0 .. 4 : Weight(k) \in Nat /\ Weight(k) >= 1
  /\ \A k \in 0 .. 3 : Weight(k + 1) = LaneBase * Weight(k)
<1>. DEFINE B == LaneBase
<1>1. B \in Nat /\ B >= 2
  BY Weights
<1>2. B * B \in Nat /\ B * B >= 1
  BY <1>1, AtLeastOne, SMT
<1>3. B * B * B \in Nat /\ B * B * B >= 1 /\ B * B * B = B * (B * B)
  BY <1>1, <1>2, AtLeastOne, SMT
<1>4. /\ (B * B) * (B * B) \in Nat /\ (B * B) * (B * B) >= 1
      /\ (B * B) * (B * B) = B * (B * B * B)
  BY <1>1, <1>2, AtLeastOne, SMT
<1>5. /\ Weight(0) = 1 /\ Weight(1) = B /\ Weight(2) = B * B
      /\ Weight(3) = B * B * B /\ Weight(4) = (B * B) * (B * B)
  BY Weights
<1>6. \A k \in 0 .. 4 : Weight(k) \in Nat /\ Weight(k) >= 1
  <2>. SUFFICES ASSUME NEW k \in 0 .. 4 PROVE Weight(k) \in Nat /\ Weight(k) >= 1
    OBVIOUS
  <2>1. k = 0 \/ k = 1 \/ k = 2 \/ k = 3 \/ k = 4
    BY SMT
  <2>. QED BY <1>1, <1>2, <1>3, <1>4, <1>5, <2>1
<1>7. \A k \in 0 .. 3 : Weight(k + 1) = B * Weight(k)
  <2>. SUFFICES ASSUME NEW k \in 0 .. 3 PROVE Weight(k + 1) = B * Weight(k)
    OBVIOUS
  <2>1. CASE k = 0
    BY <1>1, <1>5, <2>1, SMT
  <2>2. CASE k = 1
    BY <1>5, <2>2, SMT
  <2>3. CASE k = 2
    BY <1>3, <1>5, <2>3, SMT
  <2>4. CASE k = 3
    BY <1>4, <1>5, <2>4, SMT
  <2>. QED BY <2>1, <2>2, <2>3, <2>4, SMT
<1>. QED BY <1>6, <1>7

\* A byte at its place stays below the next byte's place.
LEMMA ByteScaled ==
  ASSUME NEW d \in Byte, NEW k \in 0 .. 3
  PROVE  d * Weight(k) \in 0 .. Weight(k + 1) - Weight(k)
<1>1. LaneBase \in Nat /\ LaneBase >= 2
  BY Weights
<1>2. PICK w \in Nat : w = Weight(k) /\ Weight(k + 1) = LaneBase * w
  BY WeightSteps, SMT
<1>3. d \in Nat /\ LaneBase - 1 - d \in Nat
  BY <1>1, SMT DEF Byte
<1>4. d * w \in Nat /\ (LaneBase - 1 - d) * w \in Nat
  BY <1>3, SMT
<1>5. (LaneBase - 1 - d) * w = LaneBase * w - w - d * w
  BY <1>1, <1>3, SMT
<1>6. LaneBase * w \in Nat
  BY <1>1, SMT
<1>. QED BY <1>2, <1>4, <1>5, <1>6, SMT

\* A word shifted down by k bytes.
LEMMA ShiftedWord ==
  ASSUME NEW a \in Byte, NEW b \in Byte, NEW c \in Byte, NEW d \in Byte
  PROVE  LET w == WordOf(a, b, c, d) IN
         /\ w \in Word
         /\ w \div Weight(0) = w
         /\ w \div Weight(1) = b + c * Weight(1) + d * Weight(2)
         /\ w \div Weight(2) = c + d * Weight(1)
         /\ w \div Weight(3) = d
<1>. DEFINE w == WordOf(a, b, c, d)
            W(k) == Weight(k)
<1>1. /\ W(0) = 1 /\ W(1) \in Nat /\ W(2) \in Nat /\ W(3) \in Nat /\ W(4) \in Nat
      /\ W(1) >= 1 /\ W(2) >= 1 /\ W(3) >= 1
  BY Weights, WeightSteps, SMT
<1>2. /\ a \in 0 .. W(1) - 1 /\ b \in 0 .. W(1) - 1
      /\ c \in 0 .. W(1) - 1 /\ d \in 0 .. W(1) - 1
  BY Weights DEF Byte
<1>3. /\ b * W(1) \in 0 .. W(2) - W(1) /\ c * W(1) \in 0 .. W(2) - W(1)
      /\ c * W(2) \in 0 .. W(3) - W(2) /\ d * W(3) \in 0 .. W(4) - W(3)
      /\ d * W(1) \in 0 .. W(2) - W(1) /\ d * W(2) \in 0 .. W(3) - W(2)
  BY ByteScaled, SMT
<1>4. w \in Word
  BY <1>1, <1>2, <1>3, SMT DEF WordOf, Word
<1>5. w \div W(0) = w
  BY <1>1, <1>4, SMT DEF Word
<1>6. w \div W(1) = b + c * W(1) + d * W(2)
  <2>1. (b + c * W(1) + d * W(2)) * W(1) + a = w
    BY Weights, <1>2, SMT DEF WordOf, Byte
  <2>2. b + c * W(1) + d * W(2) \in Int
    BY <1>2, <1>3, SMT
  <2>. DEFINE q == b + c * W(1) + d * W(2)
  <2>3. (q * W(1) + a) \div W(1) = q
    <3>. HIDE DEF q
    <3>. QED BY <1>1, <1>2, <2>2, DivisionUnique DEF q
  <2>. QED BY <2>1, <2>3
<1>7. w \div W(2) = c + d * W(1)
  <2>1. (c + d * W(1)) * W(2) + (a + b * W(1)) = w
    BY Weights, <1>2, SMT DEF WordOf, Byte
  <2>2. c + d * W(1) \in Int /\ a + b * W(1) \in 0 .. W(2) - 1
    BY <1>1, <1>2, <1>3, SMT
  <2>. QED BY <1>1, <2>1, <2>2, DivisionUnique
<1>8. w \div W(3) = d
  <2>1. d * W(3) + (a + b * W(1) + c * W(2)) = w
    BY <1>1, <1>2, <1>3, SMT DEF WordOf
  <2>2. d \in Int /\ a + b * W(1) + c * W(2) \in 0 .. W(3) - 1
    BY <1>1, <1>2, <1>3, SMT
  <2>. QED BY <1>1, <2>1, <2>2, DivisionUnique
<1>. QED BY <1>4, <1>5, <1>6, <1>7, <1>8

\* The bytes of a word, and the numbers that neighbours among them make.
LEMMA BytesOfWord ==
  ASSUME NEW a \in Byte, NEW b \in Byte, NEW c \in Byte, NEW d \in Byte
  PROVE  LET w == WordOf(a, b, c, d) IN
         /\ Lane(w, 0) = a /\ Lane(w, 1) = b /\ Lane(w, 2) = c /\ Lane(w, 3) = d
         /\ Field(w, 0, 1) = a /\ Field(w, 1, 1) = b
         /\ Field(w, 2, 1) = c /\ Field(w, 3, 1) = d
         /\ Field(w, 0, 2) = a + b * Weight(1)
         /\ Field(w, 1, 2) = b + c * Weight(1)
         /\ Field(w, 2, 2) = c + d * Weight(1)
         /\ Field(w, 0, 4) = w
<1>. DEFINE w == WordOf(a, b, c, d)
            W(k) == Weight(k)
<1>1. /\ W(0) = 1 /\ W(1) \in Nat /\ W(2) \in Nat /\ W(3) \in Nat /\ W(4) \in Nat
      /\ W(1) >= 1 /\ W(2) >= 1 /\ W(3) >= 1 /\ W(1) = LaneBase
      /\ W(2) = W(1) * W(1) /\ W(3) = W(2) * W(1)
  BY Weights, WeightSteps, SMT
<1>2. /\ a \in 0 .. W(1) - 1 /\ b \in 0 .. W(1) - 1
      /\ c \in 0 .. W(1) - 1 /\ d \in 0 .. W(1) - 1
  BY Weights DEF Byte
<1>3. /\ w \in Word /\ w \div W(0) = w
      /\ w \div W(1) = b + c * W(1) + d * W(2)
      /\ w \div W(2) = c + d * W(1)
      /\ w \div W(3) = d
  BY ShiftedWord
<1>4. /\ b * W(1) \in 0 .. W(2) - W(1) /\ c * W(1) \in 0 .. W(2) - W(1)
      /\ d * W(1) \in 0 .. W(2) - W(1) /\ c * W(2) \in Int /\ d * W(2) \in Int
      /\ d * W(3) \in Int
  BY ByteScaled, <1>1, SMT
<1>. HIDE DEF w
<1>5. w % W(1) = a
  <2>. DEFINE q == b + c * W(1) + d * W(2)
  <2>1. w = q * W(1) + a
    BY <1>1, <1>2, <1>4, SMT DEF w, WordOf
  <2>2. q \in Int
    BY <1>2, <1>4, SMT
  <2>. HIDE DEF q
  <2>. QED BY <1>1, <1>2, <2>1, <2>2, DivisionUnique
<1>6. w % W(2) = a + b * W(1)
  <2>. DEFINE q == c + d * W(1)
              r == a + b * W(1)
  <2>1. w = q * W(2) + r
    BY <1>1, <1>2, <1>4, SMT DEF w, WordOf
  <2>2. q \in Int /\ r \in 0 .. W(2) - 1
    BY <1>1, <1>2, <1>4, SMT
  <2>. HIDE DEF q, r
  <2>3. w % W(2) = r
    BY <1>1, <2>1, <2>2, DivisionUnique
  <2>. QED BY <2>3 DEF r
<1>7. (b + c * W(1) + d * W(2)) % W(1) = b
  <2>. DEFINE q == c + d * W(1)
  <2>1. b + c * W(1) + d * W(2) = q * W(1) + b
    BY <1>1, <1>2, <1>4, SMT
  <2>2. q \in Int
    BY <1>2, <1>4, SMT
  <2>. HIDE DEF q
  <2>. QED BY <1>1, <1>2, <2>1, <2>2, DivisionUnique
<1>8. (b + c * W(1) + d * W(2)) % W(2) = b + c * W(1)
  <2>. DEFINE r == b + c * W(1)
  <2>1. b + c * W(1) + d * W(2) = d * W(2) + r
    BY <1>1, <1>2, <1>4, SMT
  <2>2. d \in Int /\ r \in 0 .. W(2) - 1
    BY <1>1, <1>2, <1>4, SMT
  <2>. HIDE DEF r
  <2>3. (d * W(2) + r) % W(2) = r
    BY <1>1, <2>2, DivisionUnique
  <2>. QED BY <2>1, <2>3 DEF r
<1>9. (c + d * W(1)) % W(1) = c
  <2>1. c + d * W(1) = d * W(1) + c
    BY <1>2, <1>4, SMT
  <2>2. d \in Int
    BY <1>2, SMT
  <2>. QED BY <1>1, <1>2, <2>1, <2>2, DivisionUnique
<1>10. (c + d * W(1)) % W(2) = c + d * W(1)
  <2>1. c + d * W(1) \in 0 .. W(2) - 1
    BY <1>1, <1>2, <1>4, SMT
  <2>. QED BY <1>1, <2>1, SmallRemainder
<1>11. d % W(1) = d
  BY <1>1, <1>2, SmallRemainder
<1>12. w % W(4) = w
  <2>1. w \in 0 .. W(4) - 1
    BY <1>3 DEF Word
  <2>. QED BY <1>1, <2>1, SmallRemainder
<1>13. Lane(w, 0) = a /\ Lane(w, 1) = b /\ Lane(w, 2) = c /\ Lane(w, 3) = d
  BY <1>1, <1>3, <1>5, <1>7, <1>9, <1>11 DEF Lane
<1>14. /\ Field(w, 0, 1) = a /\ Field(w, 1, 1) = b
       /\ Field(w, 2, 1) = c /\ Field(w, 3, 1) = d
  BY <1>1, <1>3, <1>5, <1>7, <1>9, <1>11 DEF Field
<1>15. /\ Field(w, 0, 2) = a + b * W(1) /\ Field(w, 1, 2) = b + c * W(1)
       /\ Field(w, 2, 2) = c + d * W(1) /\ Field(w, 0, 4) = w
  BY <1>1, <1>3, <1>6, <1>8, <1>10, <1>12 DEF Field
<1>. QED BY <1>13, <1>14, <1>15 DEF w

\* Every word has four bytes.
LEMMA WordHasBytes ==
  ASSUME NEW v \in Word
  PROVE  \E a, b, c, d \in Byte : v = WordOf(a, b, c, d)
<1>. DEFINE B == LaneBase
            v1 == v \div B
            v2 == v1 \div B
            v3 == v2 \div B
            a == v % B
            b == v1 % B
            c == v2 % B
<1>1. B \in Nat /\ B >= 2
  BY Weights
<1>2. Weight(1) \in Nat /\ Weight(2) \in Nat /\ Weight(3) \in Nat /\ Weight(4) \in Nat
  BY WeightSteps, SMT
<1>3. v \in Nat /\ v < Weight(4)
  BY <1>2, SMT DEF Word
<1>4. v1 \in Nat /\ a \in Byte /\ v = v1 * B + a
  BY <1>1, <1>3, SMT DEF Byte
<1>5. v2 \in Nat /\ b \in Byte /\ v1 = v2 * B + b
  <2>. HIDE DEF v1
  <2>. QED BY <1>1, <1>4, SMT DEF Byte
<1>6. v3 \in Nat /\ c \in Byte /\ v2 = v3 * B + c
  <2>. HIDE DEF v2
  <2>. QED BY <1>1, <1>5, SMT DEF Byte
<1>. HIDE DEF v1, v2, v3, a, b, c
<1>7. v = WordOf(a, b, c, v3)
  BY Weights, <1>4, <1>5, <1>6, SMT DEF WordOf, Byte
<1>8. v3 \in Byte
  <2>1. /\ a \in Nat /\ b * Weight(1) \in Nat /\ c * Weight(2) \in Nat
    BY <1>2, <1>4, <1>5, <1>6, SMT DEF Byte
  <2>2. v3 * Weight(3) \in Nat /\ v3 * Weight(3) < Weight(4)
    BY <1>2, <1>3, <1>6, <1>7, <2>1, SMT DEF WordOf
  <2>3. ASSUME v3 >= B PROVE FALSE
    <3>1. PICK e \in Nat : v3 = B + e
      BY <1>1, <1>6, <2>3, SMT
    <3>2. e * Weight(3) \in Nat
      BY <1>2, SMT
    <3>3. v3 * Weight(3) = B * Weight(3) + e * Weight(3)
      BY <1>1, <1>2, <3>1, SMT
    <3>4. B * Weight(3) = Weight(4)
      BY WeightSteps, SMT
    <3>. QED BY <1>2, <2>2, <3>2, <3>3, <3>4, SMT
  <2>. QED BY <1>1, <1>6, <2>3, SMT DEF Byte
<1>. QED BY <1>4, <1>5, <1>6, <1>7, <1>8

\* What a store instruction can carry.
Stored(data) == data \in Seq(Byte) /\ Len(data) \in {1, 2, 4}

\* The value of a store's bytes, cut to their number.
LEMMA StoredValue ==
  ASSUME NEW data, Stored(data)
  PROVE  Field(Value(data), 0, Len(data)) = Value(data)
<1>. DEFINE W1 == Weight(1)
<1>1. W1 \in Nat /\ W1 >= 1 /\ 0 \in Byte
  BY Weights, WeightSteps, SMT DEF Byte
<1>2. \A k \in 1 .. Len(data) : data[k] \in Byte
  BY DEF Stored
<1>3. CASE Len(data) = 1
  <2>1. data[1] \in Byte
    BY <1>2, <1>3
  <2>2. Value(data) = data[1]
    BY <1>3, <2>1, SMT DEF Value, Byte
  <2>3. WordOf(data[1], 0, 0, 0) = data[1]
    BY <2>1, WeightSteps, SMT DEF WordOf, Byte
  <2>. QED BY <1>1, <1>3, <2>1, <2>2, <2>3, BytesOfWord
<1>4. CASE Len(data) = 2
  <2>1. data[1] \in Byte /\ data[2] \in Byte
    BY <1>2, <1>4
  <2>2. data[1] \in Int /\ data[2] * W1 \in Int
    BY <1>1, <2>1, SMT DEF Byte
  <2>3. Value(data) = data[1] + data[2] * W1
    BY <1>4, <2>2, SMT DEF Value
  <2>4. WordOf(data[1], data[2], 0, 0) = data[1] + data[2] * W1
    BY <2>2, WeightSteps, SMT DEF WordOf
  <2>. QED BY <1>1, <1>4, <2>1, <2>3, <2>4, BytesOfWord
<1>5. CASE Len(data) = 4
  <2>1. data[1] \in Byte /\ data[2] \in Byte /\ data[3] \in Byte /\ data[4] \in Byte
    BY <1>2, <1>5
  <2>2. /\ data[1] \in Int /\ data[2] * W1 \in Int /\ data[3] * Weight(2) \in Int
        /\ data[4] * Weight(3) \in Int
    BY <1>1, <2>1, WeightSteps, SMT DEF Byte
  <2>3. Value(data) = WordOf(data[1], data[2], data[3], data[4])
    BY <1>5, <2>2, SMT DEF Value, WordOf
  <2>. QED BY <1>5, <2>1, <2>3, BytesOfWord
<1>. QED BY <1>3, <1>4, <1>5 DEF Stored

\* An update puts the store's bytes at their places and keeps the others.
LEMMA UpdatedBytes ==
  ASSUME NEW old \in Word, NEW data, Stored(data), NEW off \in 0 .. 3,
         off + Len(data) <= 4
  PROVE  LET new == UpdateRegister(old, off, Value(data), Len(data)) IN
         /\ new \in Word
         /\ \A k \in 0 .. 3 :
              Lane(new, k) = IF k \in off .. off + Len(data) - 1
                               THEN data[k - off + 1] ELSE Lane(old, k)
<1>. DEFINE n == Len(data)
            new == UpdateRegister(old, off, Value(data), n)
            W(k) == Weight(k)
<1>1. PICK a \in Byte, b \in Byte, c \in Byte, d \in Byte : old = WordOf(a, b, c, d)
  BY WordHasBytes
<1>2. /\ Lane(old, 0) = a /\ Lane(old, 1) = b /\ Lane(old, 2) = c /\ Lane(old, 3) = d
      /\ Field(old, 0, 1) = a /\ Field(old, 1, 1) = b
      /\ Field(old, 2, 1) = c /\ Field(old, 3, 1) = d
      /\ Field(old, 0, 2) = a + b * W(1)
      /\ Field(old, 1, 2) = b + c * W(1)
      /\ Field(old, 2, 2) = c + d * W(1)
      /\ Field(old, 0, 4) = old
  BY <1>1, BytesOfWord
<1>3. new = old - Field(old, off, n) * W(off) + Value(data) * W(off)
  BY StoredValue DEF UpdateRegister
<1>4. /\ W(0) = 1 /\ W(1) \in Nat /\ W(2) \in Nat /\ W(3) \in Nat
      /\ W(2) = W(1) * W(1) /\ W(3) = W(2) * W(1)
  BY Weights, WeightSteps, SMT
<1>5. a \in Int /\ b \in Int /\ c \in Int /\ d \in Int
  BY SMT DEF Byte
<1>6. old = a + b * W(1) + c * W(2) + d * W(3)
  BY <1>1 DEF WordOf
<1>7. \A k \in 1 .. n : data[k] \in Byte /\ data[k] \in Int
  <2>1. \A k \in 1 .. n : data[k] \in Byte
    BY DEF Stored
  <2>2. \A e \in Byte : e \in Int
    BY SMT DEF Byte
  <2>. QED BY <2>1, <2>2
<1>8. ASSUME n = 1
      PROVE  \/ off = 0 /\ new = WordOf(data[1], b, c, d)
             \/ off = 1 /\ new = WordOf(a, data[1], c, d)
             \/ off = 2 /\ new = WordOf(a, b, data[1], d)
             \/ off = 3 /\ new = WordOf(a, b, c, data[1])
  <2>1. data[1] \in Int /\ Value(data) = data[1]
    BY <1>7, <1>8, SMT DEF Value
  <2>2. off = 0 \/ off = 1 \/ off = 2 \/ off = 3
    BY SMT
  <2>. HIDE DEF new, W
  <2>3. CASE off = 0
    BY <1>2, <1>3, <1>4, <1>5, <1>6, <1>8, <2>1, <2>3, SMT DEF WordOf, W
  <2>4. CASE off = 1
    BY <1>2, <1>3, <1>4, <1>5, <1>6, <1>8, <2>1, <2>4, SMT DEF WordOf, W
  <2>5. CASE off = 2
    BY <1>2, <1>3, <1>4, <1>5, <1>6, <1>8, <2>1, <2>5, SMT DEF WordOf, W
  <2>6. CASE off = 3
    BY <1>2, <1>3, <1>4, <1>5, <1>6, <1>8, <2>1, <2>6, SMT DEF WordOf, W
  <2>. QED BY <2>2, <2>3, <2>4, <2>5, <2>6
<1>9. ASSUME n = 2
      PROVE  \/ off = 0 /\ new = WordOf(data[1], data[2], c, d)
             \/ off = 1 /\ new = WordOf(a, data[1], data[2], d)
             \/ off = 2 /\ new = WordOf(a, b, data[1], data[2])
  <2>1. data[1] \in Int /\ data[2] \in Int
    BY <1>7, <1>9, SMT
  <2>2. Value(data) = data[1] + data[2] * W(1)
    BY <1>4, <1>9, <2>1, SMT DEF Value
  <2>3. off = 0 \/ off = 1 \/ off = 2
    BY <1>9, SMT
  <2>. HIDE DEF new, W
  <2>4. CASE off = 0
    BY <1>2, <1>3, <1>4, <1>5, <1>6, <1>9, <2>1, <2>2, <2>4, SMT DEF WordOf, W
  <2>5. CASE off = 1
    BY <1>2, <1>3, <1>4, <1>5, <1>6, <1>9, <2>1, <2>2, <2>5, SMT DEF WordOf, W
  <2>6. CASE off = 2
    BY <1>2, <1>3, <1>4, <1>5, <1>6, <1>9, <2>1, <2>2, <2>6, SMT DEF WordOf, W
  <2>. QED BY <2>3, <2>4, <2>5, <2>6
<1>10. ASSUME n = 4
       PROVE  off = 0 /\ new = WordOf(data[1], data[2], data[3], data[4])
  <2>1. data[1] \in Int /\ data[2] \in Int /\ data[3] \in Int /\ data[4] \in Int
    BY <1>7, <1>10, SMT
  <2>2. Value(data) = data[1] + data[2] * W(1) + data[3] * W(2) + data[4] * W(3)
    BY <1>4, <1>10, <2>1, SMT DEF Value
  <2>3. off = 0 /\ old \in Int
    BY <1>4, <1>5, <1>6, <1>10, SMT
  <2>. HIDE DEF new, W
  <2>. QED BY <1>2, <1>3, <1>4, <1>10, <2>1, <2>2, <2>3, SMT DEF WordOf, W
<1>. HIDE DEF new
<1>. DEFINE E(k) == IF k \in off .. off + n - 1 THEN data[k - off + 1] ELSE Lane(old, k)
<1>11. E(0) \in Byte /\ E(1) \in Byte /\ E(2) \in Byte /\ E(3) \in Byte
  <2>1. \A k \in 0 .. 3 : Lane(old, k) \in Byte
    BY <1>2, SMT
  <2>2. n \in Nat /\ \A k \in off .. off + n - 1 : k - off + 1 \in 1 .. n
    BY SMT DEF Stored
  <2>3. \A k \in off .. off + n - 1 : data[k - off + 1] \in Byte
    BY <1>7, <2>2
  <2>4. \A k \in 0 .. 3 : E(k) \in Byte
    BY <2>1, <2>3
  <2>. HIDE DEF E
  <2>. QED BY <2>4, SMT
<1>12. new = WordOf(E(0), E(1), E(2), E(3))
  <2>1. CASE n = 1 /\ off = 0
    <3>1. E(0) = data[1] /\ E(1) = b /\ E(2) = c /\ E(3) = d
      BY <1>2, <2>1, SMT
    <3>. QED BY <1>8, <2>1, <3>1
  <2>2. CASE n = 1 /\ off = 1
    <3>1. E(0) = a /\ E(1) = data[1] /\ E(2) = c /\ E(3) = d
      BY <1>2, <2>2, SMT
    <3>. QED BY <1>8, <2>2, <3>1
  <2>3. CASE n = 1 /\ off = 2
    <3>1. E(0) = a /\ E(1) = b /\ E(2) = data[1] /\ E(3) = d
      BY <1>2, <2>3, SMT
    <3>. QED BY <1>8, <2>3, <3>1
  <2>4. CASE n = 1 /\ off = 3
    <3>1. E(0) = a /\ E(1) = b /\ E(2) = c /\ E(3) = data[1]
      BY <1>2, <2>4, SMT
    <3>. QED BY <1>8, <2>4, <3>1
  <2>5. CASE n = 2 /\ off = 0
    <3>1. E(0) = data[1] /\ E(1) = data[2] /\ E(2) = c /\ E(3) = d
      BY <1>2, <2>5, SMT
    <3>. QED BY <1>9, <2>5, <3>1
  <2>6. CASE n = 2 /\ off = 1
    <3>1. E(0) = a /\ E(1) = data[1] /\ E(2) = data[2] /\ E(3) = d
      BY <1>2, <2>6, SMT
    <3>. QED BY <1>9, <2>6, <3>1
  <2>7. CASE n = 2 /\ off = 2
    <3>1. E(0) = a /\ E(1) = b /\ E(2) = data[1] /\ E(3) = data[2]
      BY <1>2, <2>7, SMT
    <3>. QED BY <1>9, <2>7, <3>1
  <2>8. CASE n = 4 /\ off = 0
    <3>1. E(0) = data[1] /\ E(1) = data[2] /\ E(2) = data[3] /\ E(3) = data[4]
      BY <1>2, <2>8, SMT
    <3>. QED BY <1>10, <2>8, <3>1
  <2>9. \/ n = 1 /\ (off = 0 \/ off = 1 \/ off = 2 \/ off = 3)
        \/ n = 2 /\ (off = 0 \/ off = 1 \/ off = 2)
        \/ n = 4 /\ off = 0
    <3>1. n = 1 \/ n = 2 \/ n = 4
      BY DEF Stored
    <3>2. off + n <= 4 /\ off \in 0 .. 3
      OBVIOUS
    <3>. HIDE DEF n
    <3>. QED BY <3>1, <3>2, SMT
  <2>. HIDE DEF E, n
  <2>. QED BY <2>1, <2>2, <2>3, <2>4, <2>5, <2>6, <2>7, <2>8, <2>9
<1>13. /\ new \in Word /\ Lane(new, 0) = E(0) /\ Lane(new, 1) = E(1)
       /\ Lane(new, 2) = E(2) /\ Lane(new, 3) = E(3)
  <2>. HIDE DEF E
  <2>. QED BY <1>11, <1>12, BytesOfWord, ShiftedWord
<1>14. \A k \in 0 .. 3 : Lane(new, k) = E(k)
  <2>. HIDE DEF E
  <2>1. \A k \in 0 .. 3 : k = 0 \/ k = 1 \/ k = 2 \/ k = 3
    BY SMT
  <2>. QED BY <1>13, <2>1
<1>. QED BY <1>13, <1>14 DEF new

\* The registers have different names.
LEMMA NamesDiffer ==
  /\ \A j, k \in 1 .. 12 : RegisterAt[j] = RegisterAt[k] => j = k
  /\ \A k \in 1 .. 12 : RegisterAt[k] = "time" <=> k = 11
  /\ \A k \in 1 .. 12 : RegisterAt[k] \in {"start", "end"} <=> k \in {4, 5}
  /\ \A k \in 1 .. 12 : RegisterAt[k] \in {"mode", "tail"} <=> k \in {1, 3}
  /\ \A k \in 1 .. 12 : RegisterAt[k] \in Names
<1>1. \A j, k \in 1 .. 12 : RegisterAt[j] = RegisterAt[k] => j = k
  BY SMT DEF RegisterAt
<1>2. \A k \in 1 .. 12 : RegisterAt[k] \in Names
  BY DEF Names
<1>. QED BY <1>1, <1>2, SMT DEF RegisterAt

\* The address of the k-th register.
LEMMA AddressOf ==
  ASSUME NEW k \in 0 .. 11
  PROVE  AddrOf(RegisterAt[k + 1]) = 4 * k
<1>. DEFINE P(i) == RegisterAt[i + 1] = RegisterAt[k + 1]
            c == CHOOSE i \in 0 .. 11 : P(i)
<1>1. c \in 0 .. 11 /\ P(c)
  BY Zenon
<1>2. c = k
  BY <1>1, NamesDiffer, SMT
<1>. QED BY <1>2 DEF AddrOf

\* A place in the window: its word and the byte in the word.
LEMMA Places ==
  ASSUME NEW a \in Nat
  PROVE  /\ a \div 4 \in Nat /\ Offset(a) \in 0 .. 3 /\ a = 4 * (a \div 4) + Offset(a)
         /\ IsRegister(a) <=> a \div 4 \in 0 .. 11
         /\ Register(a) = RegisterAt[a \div 4 + 1]
BY SMT DEF Offset, IsRegister, Register

FileOK == file \in [Names -> Word]

\* A store of any size leaves every register a word, and in the cells of the
\* window its own bytes and the bytes that were there.
LEMMA StoredCells ==
  ASSUME FileOK, NEW addr \in Nat, NEW data, Stored(data), Accepts(addr, Len(data)),
         MmioWrite(addr, data)
  PROVE  /\ FileOK'
         /\ \A c \in 0 .. 47 :
              Lane(file'[Register(c)], Offset(c)) =
                IF c \in addr .. addr + Len(data) - 1
                  THEN data[c - addr + 1] ELSE Lane(file[Register(c)], Offset(c))
<1>. DEFINE n == Len(data)
            r == Register(addr)
            new == UpdateRegister(file[r], Offset(addr), Value(data), n)
<1>1. /\ Offset(addr) \in 0 .. 3 /\ Offset(addr) + n <= 4
      /\ addr \div 4 \in 0 .. 11 /\ addr = 4 * (addr \div 4) + Offset(addr)
  BY Places DEF Accepts
<1>2. r \in Names /\ file[r] \in Word
  <2>1. addr \div 4 + 1 \in 1 .. 12
    BY <1>1, SMT
  <2>. QED BY <2>1, NamesDiffer DEF Register, FileOK
<1>3. file' = [file EXCEPT ![r] = new]
  BY DEF MmioWrite
<1>4. /\ new \in Word
      /\ \A k \in 0 .. 3 :
           Lane(new, k) = IF k \in Offset(addr) .. Offset(addr) + n - 1
                            THEN data[k - Offset(addr) + 1] ELSE Lane(file[r], k)
  BY <1>1, <1>2, UpdatedBytes
<1>. HIDE DEF new
<1>5. FileOK'
  BY <1>2, <1>3, <1>4 DEF FileOK
<1>6. ASSUME NEW c \in 0 .. 47
      PROVE  Lane(file'[Register(c)], Offset(c)) =
               IF c \in addr .. addr + n - 1
                 THEN data[c - addr + 1] ELSE Lane(file[Register(c)], Offset(c))
  <2>1. /\ c \div 4 \in 0 .. 11 /\ Offset(c) \in 0 .. 3 /\ c = 4 * (c \div 4) + Offset(c)
        /\ Register(c) = RegisterAt[c \div 4 + 1] /\ r = RegisterAt[addr \div 4 + 1]
    <3>1. c \in Nat /\ c < 48
      BY SMT
    <3>2. /\ Offset(c) \in 0 .. 3 /\ c = 4 * (c \div 4) + Offset(c) /\ c \div 4 \in Nat
          /\ Register(c) = RegisterAt[c \div 4 + 1]
      BY <3>1, Places
    <3>3. c \div 4 \in 0 .. 11
      BY <3>1, SMT
    <3>. QED BY <3>2, <3>3, Places
  <2>2. Register(c) = r <=> c \div 4 = addr \div 4
    <3>1. c \div 4 + 1 \in 1 .. 12 /\ addr \div 4 + 1 \in 1 .. 12
      BY <1>1, <2>1, SMT
    <3>2. RegisterAt[c \div 4 + 1] = RegisterAt[addr \div 4 + 1]
            => c \div 4 + 1 = addr \div 4 + 1
      BY <3>1, NamesDiffer
    <3>. QED BY <2>1, <3>2, SMT
  <2>3. n \in Nat /\ n >= 1
    BY SMT DEF Stored
  <2>4. Register(c) \in Names
    <3>1. c \div 4 + 1 \in 1 .. 12
      BY <2>1, SMT
    <3>. QED BY <2>1, <3>1, NamesDiffer
  <2>. HIDE DEF n, r
  <2>5. CASE c \div 4 = addr \div 4
    <3>1. file'[Register(c)] = new
      BY <1>2, <1>3, <2>2, <2>5 DEF FileOK
    <3>2. /\ c \in addr .. addr + n - 1
                <=> Offset(c) \in Offset(addr) .. Offset(addr) + n - 1
          /\ c - addr = Offset(c) - Offset(addr)
      <4>. DEFINE q == addr \div 4
                  o == Offset(addr)
                  p == Offset(c)
      <4>1. addr = 4 * q + o /\ c = 4 * q + p /\ o \in 0 .. 3 /\ p \in 0 .. 3 /\ q \in 0 .. 11
        BY <1>1, <2>1, <2>5
      <4>. HIDE DEF q, o, p
      <4>2. /\ c \in addr .. addr + n - 1 <=> p \in o .. o + n - 1
            /\ c - addr = p - o
        BY <2>3, <4>1, SMT
      <4>. QED BY <4>2 DEF o, p
    <3>. QED BY <1>4, <2>1, <2>2, <2>5, <3>1, <3>2
  <2>6. CASE c \div 4 # addr \div 4
    <3>1. file'[Register(c)] = file[Register(c)]
      BY <1>3, <2>2, <2>4, <2>6 DEF FileOK
    <3>2. c \notin addr .. addr + n - 1
      BY <1>1, <2>1, <2>3, <2>6, SMT
    <3>. QED BY <3>1, <3>2
  <2>. QED BY <2>5, <2>6
<1>. QED BY <1>5, <1>6

\* Which stores take effect, said in cells.
LEMMA AcceptedCells ==
  ASSUME NEW addr \in Nat, NEW n \in 1 .. 4
  PROVE  Accepts(addr, n) <=>
           Readable!InOneWord(addr, n) /\ Readable!Span(addr, n) \subseteq Readable!Cells \ Readable!ReadOnly
<1>. DEFINE q == addr \div 4
            o == Offset(addr)
            span == addr .. addr + n - 1
<1>1. q \in Nat /\ o \in 0 .. 3 /\ addr = 4 * q + o /\ (IsRegister(addr) <=> q \in 0 .. 11)
      /\ Register(addr) = RegisterAt[q + 1]
  BY Places
<1>2. q \in 0 .. 11 => (Register(addr) = "time" <=> q = 10)
  BY <1>1, NamesDiffer, SMT
<1>3. o = addr % 4
  BY DEF Offset
<1>. HIDE DEF q, o
<1>4. Accepts(addr, n) <=> q \in 0 .. 11 /\ q # 10 /\ o + n <= 4
  BY <1>1, <1>2 DEF Accepts, o
<1>5. ASSUME o + n <= 4
      PROVE  span \subseteq (0 .. 47) \ (40 .. 43) <=> q \in 0 .. 11 /\ q # 10
  <2>1. ASSUME q \in 0 .. 11, q # 10 PROVE span \subseteq (0 .. 47) \ (40 .. 43)
    BY <1>1, <1>5, <2>1, SMT
  <2>2. ASSUME span \subseteq (0 .. 47) \ (40 .. 43) PROVE q \in 0 .. 11 /\ q # 10
    <3>1. addr \in span
      BY SMT
    <3>2. addr \in (0 .. 47) \ (40 .. 43)
      BY <2>2, <3>1
    <3>. QED BY <1>1, <3>2, SMT
  <2>. QED BY <2>1, <2>2
<1>. QED BY <1>3, <1>4, <1>5, SMT
         DEF Readable!InOneWord, Readable!Span, Readable!Cells, Readable!ReadOnly

\* A word moved down by some bytes is one whose upper bytes are 0.
LEMMA ShiftedBytes ==
  ASSUME NEW w \in Word, NEW off \in 0 .. 3
  PROVE  /\ w \div Weight(off) \in Word
         /\ \A k \in 0 .. 3 :
              Lane(w \div Weight(off), k) = IF off + k <= 3 THEN Lane(w, off + k) ELSE 0
<1>. DEFINE v == w \div Weight(off)
            E(k) == IF off + k <= 3 THEN Lane(w, off + k) ELSE 0
<1>1. PICK a \in Byte, b \in Byte, c \in Byte, d \in Byte : w = WordOf(a, b, c, d)
  BY WordHasBytes
<1>2. Lane(w, 0) = a /\ Lane(w, 1) = b /\ Lane(w, 2) = c /\ Lane(w, 3) = d
  BY <1>1, BytesOfWord
<1>3. /\ w \in Word /\ w \div Weight(0) = w
      /\ w \div Weight(1) = b + c * Weight(1) + d * Weight(2)
      /\ w \div Weight(2) = c + d * Weight(1)
      /\ w \div Weight(3) = d
  BY <1>1, ShiftedWord
<1>4. /\ 0 \in Byte /\ a \in Int /\ b \in Int /\ c \in Int /\ d \in Int
      /\ Weight(1) \in Nat /\ Weight(2) \in Nat /\ Weight(3) \in Nat
  BY Weights, WeightSteps, SMT DEF Byte
<1>5. /\ c * Weight(1) \in Int /\ d * Weight(1) \in Int /\ d * Weight(2) \in Int
      /\ 0 * Weight(1) = 0 /\ 0 * Weight(2) = 0 /\ 0 * Weight(3) = 0
  BY <1>4, SMT
<1>6. v = WordOf(E(0), E(1), E(2), E(3))
  <2>1. CASE off = 0
    <3>1. E(0) = a /\ E(1) = b /\ E(2) = c /\ E(3) = d
      BY <1>2, <2>1, SMT
    <3>. QED BY <1>1, <1>3, <2>1, <3>1
  <2>2. CASE off = 1
    <3>1. E(0) = b /\ E(1) = c /\ E(2) = d /\ E(3) = 0
      BY <1>2, <2>2, SMT
    <3>2. WordOf(b, c, d, 0) = b + c * Weight(1) + d * Weight(2)
      BY <1>4, <1>5, SMT DEF WordOf
    <3>. QED BY <1>3, <2>2, <3>1, <3>2
  <2>3. CASE off = 2
    <3>1. E(0) = c /\ E(1) = d /\ E(2) = 0 /\ E(3) = 0
      BY <1>2, <2>3, SMT
    <3>2. WordOf(c, d, 0, 0) = c + d * Weight(1)
      BY <1>4, <1>5, SMT DEF WordOf
    <3>. QED BY <1>3, <2>3, <3>1, <3>2
  <2>4. CASE off = 3
    <3>1. E(0) = d /\ E(1) = 0 /\ E(2) = 0 /\ E(3) = 0
      BY <1>2, <2>4, SMT
    <3>2. WordOf(d, 0, 0, 0) = d
      BY <1>4, <1>5, SMT DEF WordOf
    <3>. QED BY <1>3, <2>4, <3>1, <3>2
  <2>5. off = 0 \/ off = 1 \/ off = 2 \/ off = 3
    BY SMT
  <2>. HIDE DEF v, E
  <2>. QED BY <2>1, <2>2, <2>3, <2>4, <2>5
<1>7. E(0) \in Byte /\ E(1) \in Byte /\ E(2) \in Byte /\ E(3) \in Byte
  <2>1. \A k \in 0 .. 3 : Lane(w, k) \in Byte
    BY <1>2, SMT
  <2>2. \A k \in 0 .. 3 : off + k <= 3 => off + k \in 0 .. 3
    BY SMT
  <2>3. \A k \in 0 .. 3 : E(k) \in Byte
    BY <1>4, <2>1, <2>2
  <2>. HIDE DEF E
  <2>. QED BY <2>3, SMT
<1>. HIDE DEF v, E
<1>8. v \in Word /\ Lane(v, 0) = E(0) /\ Lane(v, 1) = E(1) /\ Lane(v, 2) = E(2) /\ Lane(v, 3) = E(3)
  BY <1>6, <1>7, BytesOfWord, ShiftedWord
<1>9. \A k \in 0 .. 3 : k = 0 \/ k = 1 \/ k = 2 \/ k = 3
  BY SMT
<1>. QED BY <1>8, <1>9 DEF v, E

\* The lowest bytes of a word are themselves a word with the same bytes.
LEMMA LowBytes ==
  ASSUME NEW w \in Word, NEW n \in {1, 2, 4}
  PROVE  /\ w % Weight(n) \in Word
         /\ \A k \in 0 .. n - 1 : Lane(w % Weight(n), k) = Lane(w, k)
<1>1. PICK a \in Byte, b \in Byte, c \in Byte, d \in Byte : w = WordOf(a, b, c, d)
  BY WordHasBytes
<1>2. /\ Lane(w, 0) = a /\ Lane(w, 1) = b /\ Lane(w, 2) = c /\ Lane(w, 3) = d
      /\ Field(w, 0, 1) = a /\ Field(w, 0, 2) = a + b * Weight(1) /\ Field(w, 0, 4) = w
      /\ w \div Weight(0) = w
  BY <1>1, BytesOfWord, ShiftedWord
<1>3. w % Weight(1) = a /\ w % Weight(2) = a + b * Weight(1) /\ w % Weight(4) = w
  BY <1>2 DEF Field
<1>4. /\ 0 \in Byte /\ a \in Int /\ b * Weight(1) \in Int
      /\ Weight(1) \in Nat /\ Weight(2) \in Nat /\ Weight(3) \in Nat
  BY Weights, WeightSteps, SMT DEF Byte
<1>5. WordOf(a, 0, 0, 0) = a /\ WordOf(a, b, 0, 0) = a + b * Weight(1)
  BY <1>4, SMT DEF WordOf
<1>6. CASE n = 1
  <2>1. w % Weight(n) \in Word /\ Lane(w % Weight(n), 0) = a
    BY <1>3, <1>4, <1>5, <1>6, BytesOfWord, ShiftedWord
  <2>2. \A k \in 0 .. n - 1 : k = 0
    BY <1>6, SMT
  <2>. QED BY <1>2, <2>1, <2>2
<1>7. CASE n = 2
  <2>1. w % Weight(n) \in Word /\ Lane(w % Weight(n), 0) = a /\ Lane(w % Weight(n), 1) = b
    BY <1>3, <1>4, <1>5, <1>7, BytesOfWord, ShiftedWord
  <2>2. \A k \in 0 .. n - 1 : k = 0 \/ k = 1
    BY <1>7, SMT
  <2>. QED BY <1>2, <2>1, <2>2
<1>8. CASE n = 4
  BY <1>3, <1>8
<1>. QED BY <1>6, <1>7, <1>8

\* A load returns the bytes from its place on, and 0 behind the word's end.
LEMMA LoadedBytes ==
  ASSUME FileOK, NEW addr \in Nat, NEW n \in {1, 2, 4}
  PROVE  /\ MmioRead(addr, n) \in Word
         /\ \A k \in 0 .. n - 1 :
              Lane(MmioRead(addr, n), k) =
                IF addr \div 4 \in (0 .. 11) \ {3, 4} /\ Offset(addr) + k <= 3
                  THEN Lane(file[Register(addr)], Offset(addr) + k) ELSE 0
<1>. DEFINE q == addr \div 4
            o == Offset(addr)
            w == file[Register(addr)]
<1>1. q \in Nat /\ o \in 0 .. 3 /\ (IsRegister(addr) <=> q \in 0 .. 11)
      /\ Register(addr) = RegisterAt[q + 1]
  BY Places
<1>2. n - 1 \in 0 .. 3 /\ \A k \in 0 .. n - 1 : k \in 0 .. 3
  BY SMT
<1>3. CASE q \in (0 .. 11) \ {3, 4}
  <2>1. Register(addr) \in Names /\ Register(addr) \notin {"start", "end"}
    <3>1. q + 1 \in 1 .. 12 /\ q + 1 \notin {4, 5}
      BY <1>1, <1>3, SMT
    <3>. QED BY <1>1, <3>1, NamesDiffer
  <2>2. w \in Word
    BY <2>1 DEF FileOK
  <2>. DEFINE v == w \div Weight(o)
  <2>3. MmioRead(addr, n) = v % Weight(n)
    BY <1>1, <1>3, <2>1 DEF MmioRead, Field
  <2>4. /\ v \in Word
        /\ \A k \in 0 .. 3 : Lane(v, k) = IF o + k <= 3 THEN Lane(w, o + k) ELSE 0
    BY <1>1, <2>2, ShiftedBytes
  <2>. HIDE DEF v, w
  <2>5. v % Weight(n) \in Word /\ \A k \in 0 .. n - 1 : Lane(v % Weight(n), k) = Lane(v, k)
    BY <2>4, LowBytes
  <2>. QED BY <1>2, <1>3, <2>3, <2>4, <2>5 DEF w
<1>4. CASE q \notin (0 .. 11) \ {3, 4}
  <2>1. MmioRead(addr, n) = 0
    <3>1. CASE q \in {3, 4}
      <4>1. q + 1 \in 1 .. 12 /\ q + 1 \in {4, 5}
        BY <3>1, SMT
      <4>2. Register(addr) \in {"start", "end"}
        BY <1>1, <4>1, NamesDiffer
      <4>. QED BY <4>2 DEF MmioRead
    <3>2. CASE q \notin 0 .. 11
      BY <1>1, <3>2 DEF MmioRead
    <3>. QED BY <1>4, <3>1, <3>2
  <2>2. 0 \in Byte /\ Weight(1) \in Nat /\ Weight(2) \in Nat /\ Weight(3) \in Nat
    BY Weights, WeightSteps, SMT DEF Byte
  <2>3. WordOf(0, 0, 0, 0) = 0
    BY <2>2, SMT DEF WordOf
  <2>4. 0 \in Word /\ Lane(0, 0) = 0 /\ Lane(0, 1) = 0 /\ Lane(0, 2) = 0 /\ Lane(0, 3) = 0
    BY <2>2, <2>3, BytesOfWord, ShiftedWord
  <2>5. \A k \in 0 .. 3 : k = 0 \/ k = 1 \/ k = 2 \/ k = 3
    BY SMT
  <2>. QED BY <1>2, <1>4, <2>1, <2>4, <2>5
<1>. QED BY <1>3, <1>4

\* A store of the driver's is an assignment.
LEMMA DriverAssigns ==
  ASSUME FileOK, NEW k \in 0 .. 11, k # 10, NEW v \in Word,
         GpuMmioWrite32(RegisterAt[k + 1], v)
  PROVE  /\ file' = [file EXCEPT ![RegisterAt[k + 1]] = v]
         /\ AddrOf(RegisterAt[k + 1]) \in Nat /\ Stored(BytesOf(v, 4))
<1>. DEFINE r == RegisterAt[k + 1]
            data == BytesOf(v, 4)
            addr == AddrOf(r)
<1>1. addr = 4 * k
  BY AddressOf
<1>2. PICK a \in Byte, b \in Byte, c \in Byte, d \in Byte : v = WordOf(a, b, c, d)
  BY WordHasBytes
<1>3. Lane(v, 0) = a /\ Lane(v, 1) = b /\ Lane(v, 2) = c /\ Lane(v, 3) = d
  BY <1>2, BytesOfWord
<1>4. data = [j \in 1 .. 4 |-> Lane(v, j - 1)]
  BY DEF BytesOf
<1>5. data[1] = a /\ data[2] = b /\ data[3] = c /\ data[4] = d
  <2>. HIDE DEF data
  <2>. QED BY <1>3, <1>4, SMT
<1>6. data \in Seq(Byte) /\ Len(data) = 4
  <2>1. \A j \in 1 .. 4 : j = 1 \/ j = 2 \/ j = 3 \/ j = 4
    BY SMT
  <2>2. \A j \in 1 .. 4 : Lane(v, j - 1) \in Byte
    BY <1>4, <1>5, <2>1
  <2>3. 4 \in Nat
    BY SMT
  <2>. HIDE DEF data
  <2>. QED BY <1>4, <2>2, <2>3, IsASeq, SMT
<1>7. Value(data) = v
  <2>1. a \in Int /\ b * Weight(1) \in Int /\ c * Weight(2) \in Int /\ d * Weight(3) \in Int
    BY WeightSteps, SMT DEF Byte
  <2>. HIDE DEF data
  <2>. QED BY <1>2, <1>5, <1>6, <2>1, SMT DEF Value, WordOf
<1>8. Register(addr) = r /\ Offset(addr) = 0 /\ IsRegister(addr)
  <2>1. addr \in Nat /\ addr \div 4 = k /\ addr % 4 = 0
    BY <1>1, SMT
  <2>. QED BY <2>1, SMT DEF Register, Offset, IsRegister
<1>9. r # "time" /\ r \in Names
  <2>1. k + 1 \in 1 .. 12 /\ k + 1 # 11
    BY SMT
  <2>. QED BY <2>1, NamesDiffer
<1>10. file' = [file EXCEPT ![r] = UpdateRegister(file[r], 0, v, 4)]
  <2>1. MmioWrite(addr, data)
    BY DEF GpuMmioWrite32, Store
  <2>. HIDE DEF addr, r, data
  <2>2. Accepts(addr, 4)
    BY <1>8, <1>9, SMT DEF Accepts
  <2>. QED BY <1>6, <1>7, <1>8, <2>1, <2>2 DEF MmioWrite
<1>11. UpdateRegister(file[r], 0, v, 4) = v
  <2>1. file[r] \in Word
    BY <1>9 DEF FileOK
  <2>2. PICK e \in Byte, f \in Byte, g \in Byte, h \in Byte : file[r] = WordOf(e, f, g, h)
    BY <2>1, WordHasBytes
  <2>3. Field(file[r], 0, 4) = file[r] /\ Field(v, 0, 4) = v
    BY <1>2, <2>2, BytesOfWord
  <2>4. file[r] \in Int /\ v \in Int /\ Weight(0) = 1
    BY <2>1, Weights, WeightSteps, SMT DEF Word
  <2>. QED BY <2>3, <2>4, SMT DEF UpdateRegister
<1>12. AddrOf(r) \in Nat /\ Stored(data)
  <2>. HIDE DEF data
  <2>. QED BY <1>1, <1>6, SMT DEF Stored
<1>. QED BY <1>10, <1>11, <1>12

-----------------------------------------------------------------------------
(***************************************************************************)
(* Each kind of access is one of RegisterBytes.                            *)
(***************************************************************************)
Cell(c) == Lane(file[Register(c)], Offset(c))

\* A store is a store of bytes.
LEMMA StoreImplements ==
  ASSUME FileOK, NEW addr \in Nat, NEW data, Stored(data), Store(addr, data)
  PROVE  FileOK' /\ Readable!BytesNext
<1>. DEFINE n == Len(data)
<1>1. n \in 1 .. 4 /\ MmioWrite(addr, data)
  BY SMT DEF Stored, Store
<1>2. request'.op = "store" /\ request'.addr = addr /\ request'.data = data
  BY DEF Store
<1>3. BytesOf(loaded'.value, loaded'.n) = <<>>
  <2>1. loaded'.n = 0
    BY DEF Store
  <2>. QED BY <2>1, SMT DEF BytesOf
<1>4. Accepts(addr, n) <=>
        Readable!InOneWord(addr, n) /\ Readable!Span(addr, n) \subseteq Readable!Cells \ Readable!ReadOnly
  BY <1>1, AcceptedCells
<1>5. CASE Accepts(addr, n)
  <2>1. /\ FileOK'
        /\ \A c \in 0 .. 47 :
             Lane(file'[Register(c)], Offset(c)) =
               IF c \in addr .. addr + n - 1
                 THEN data[c - addr + 1] ELSE Lane(file[Register(c)], Offset(c))
    BY <1>1, <1>5, StoredCells
  <2>2. Readable!StoreBytes(addr, data)
    BY <1>3, <1>4, <1>5, <2>1
       DEF Readable!StoreBytes, Readable!Cells, Readable!Span, LaneAt, Reply
  <2>. QED BY <1>2, <2>1, <2>2 DEF Readable!BytesNext, Readable!Access
<1>6. CASE ~Accepts(addr, n)
  <2>1. file' = file
    BY <1>1, <1>6 DEF MmioWrite
  <2>2. Readable!StoreBytes(addr, data)
    BY <1>3, <1>4, <1>6, <2>1 DEF Readable!StoreBytes, LaneAt, Reply
  <2>. QED BY <1>2, <2>1, <2>2 DEF Readable!BytesNext, Readable!Access, FileOK
<1>. QED BY <1>5, <1>6

\* A load is a load of bytes.
LEMMA LoadImplements ==
  ASSUME FileOK, NEW addr \in Nat, NEW data, Stored(data), Load(addr, data)
  PROVE  FileOK' /\ Readable!BytesNext
<1>. DEFINE n == Len(data)
            q == addr \div 4
            o == Offset(addr)
            value == MmioRead(addr, n)
<1>1. n \in {1, 2, 4}
  BY DEF Stored
<1>2. /\ request'.op = "load" /\ request'.addr = addr /\ request'.data = data
      /\ loaded'.n = n /\ loaded'.value = value /\ file' = file
  BY DEF Load
<1>3. \A k \in 0 .. n - 1 :
        Lane(value, k) = IF q \in (0 .. 11) \ {3, 4} /\ o + k <= 3
                           THEN Lane(file[Register(addr)], o + k) ELSE 0
  BY <1>1, LoadedBytes
<1>4. q \in Nat /\ o \in 0 .. 3 /\ addr = 4 * q + o
  BY Places
<1>5. ASSUME NEW k \in 1 .. n
      PROVE  IF addr + k - 1 \in Readable!Span(addr - (addr % 4), 4) \cap Readable!Cells
               THEN addr + k - 1 \notin 12 .. 19 => Lane(value, k - 1) = Cell(addr + k - 1)
               ELSE Lane(value, k - 1) = 0
  <2>. DEFINE c == addr + k - 1
  <2>0. k - 1 \in 0 .. n - 1 /\ k - 1 \in Nat /\ c \in Nat /\ c = 4 * q + (o + (k - 1))
        /\ addr % 4 = o
    BY <1>1, <1>4, SMT DEF Offset
  <2>1. /\ c \in Readable!Span(addr - (addr % 4), 4) \cap Readable!Cells
             <=> q \in 0 .. 11 /\ o + (k - 1) <= 3
        /\ o + (k - 1) <= 3 /\ q \in {3, 4} => c \in 12 .. 19
    <3>. HIDE DEF q, o, c
    <3>. QED BY <1>4, <2>0, SMT DEF Readable!Span, Readable!Cells
  <2>2. ASSUME o + (k - 1) <= 3
        PROVE  Cell(c) = Lane(file[Register(addr)], o + (k - 1))
    <3>1. c \div 4 = q /\ c % 4 = o + (k - 1)
      <4>. HIDE DEF q, o, c
      <4>. QED BY <1>4, <2>0, <2>2, SMT
    <3>. QED BY <3>1 DEF Cell, Register, Offset
  <2>. QED BY <1>3, <2>0, <2>1, <2>2
<1>6. Readable!LoadBytes(addr, n)
  <2>. DEFINE reply == Reply'
  <2>1. reply = [k \in 1 .. n |-> Lane(value, k - 1)]
    BY <1>2 DEF BytesOf, Reply
  <2>2. \A k \in 1 .. n : addr + k - 1 \in Readable!Cells =>
          Cell(addr + k - 1) = LaneAt[addr + k - 1]
    BY DEF Cell, Readable!Cells, LaneAt
  <2>3. ASSUME NEW k \in 1 .. n
        PROVE  IF addr + k - 1 \in Readable!Span(addr - (addr % 4), 4) \cap Readable!Cells
                 THEN addr + k - 1 \notin 12 .. 19 => reply[k] = LaneAt[addr + k - 1]
                 ELSE reply[k] = 0
    <3>1. reply[k] = Lane(value, k - 1)
      <4>. HIDE DEF value, reply
      <4>. QED BY <2>1
    <3>. HIDE DEF value, reply
    <3>. QED BY <1>5, <2>2, <3>1, Zenon
  <2>4. DOMAIN reply = 1 .. n
    <3>. HIDE DEF value, reply
    <3>. QED BY <2>1
  <2>5. UNCHANGED LaneAt
    BY <1>2 DEF LaneAt
  <2>. HIDE DEF value, n
  <2>. QED BY <2>3, <2>4, <2>5 DEF Readable!LoadBytes
<1>. QED BY <1>2, <1>6 DEF Readable!BytesNext, Readable!Access, FileOK

\* What the device changes by itself lies in the registers it owns.
LEMMA DeviceImplements ==
  ASSUME FileOK, NEW m \in Word, NEW t \in Word,
         file' = [file EXCEPT !["mode"] = m, !["tail"] = t], UNCHANGED <<request, loaded>>
  PROVE  FileOK' /\ Readable!BytesNext
<1>1. FileOK'
  BY DEF FileOK
<1>2. ASSUME NEW c \in Readable!Cells \ Readable!DeviceOwned
      PROVE  Lane(file'[Register(c)], Offset(c)) = Lane(file[Register(c)], Offset(c))
  <2>1. c \in Nat /\ c \div 4 \in 0 .. 11 /\ c \div 4 # 0 /\ c \div 4 # 2
    BY SMT DEF Readable!Cells, Readable!DeviceOwned, Readable!Span
  <2>2. c \div 4 + 1 \in 1 .. 12 /\ c \div 4 + 1 \notin {1, 3}
    BY <2>1, SMT
  <2>3. Register(c) \in Names /\ Register(c) \notin {"mode", "tail"}
    BY <2>2, NamesDiffer DEF Register
  <2>. QED BY <2>3 DEF FileOK
<1>3. Readable!DeviceStores
  <2>. QED BY <1>2 DEF Readable!DeviceStores, Readable!Cells, LaneAt, Reply
<1>. QED BY <1>1, <1>3 DEF Readable!BytesNext
=============================================================================
