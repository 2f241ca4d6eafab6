---------------------------- MODULE MqttWireProofs ----------------------------
(***************************************************************************)
(* Proofs about MqttWire: the types of its variables and that a read never *)
(* overruns in_buffer, that writer and reader stay in step, and that what  *)
(* was published is what is delivered.                                     *)
(*                                                                         *)
(* The argument has three invariants.  WireInv is about the writer: the    *)
(* length and the offset of a fragmented message never spoil another one,  *)
(* and the outbox holds whole packets.  InSync is about the reader: in     *)
(* each of its stages the buffer is a beginning of the packet of the first *)
(* message that is not delivered (Begun), and buffer and wire are together *)
(* the packets of the messages not delivered (Whole); while the data of a  *)
(* large message is being read, what has come and what is to come make     *)
(* that message, or what is made of one whose identifier does not fit in   *)
(* the buffer (Halfway).  Buffered bounds what a read may add to the       *)
(* buffer, also when the stream has been cut.                              *)
(*                                                                         *)
(* What they rest on are facts about data: that the length fini_message    *)
(* writes, digit by digit, is the one that mqtt_get_total_length reads     *)
(* (TotalLengthRead), what FlattenSeq does (SequenceLemmas), and where the *)
(* parts of a packet are.                                                  *)
(*                                                                         *)
(* The calls in Plan are such that they avoid what the code gets wrong     *)
(* (see MqttWire): the hypotheses name it.                                 *)
(***************************************************************************)
EXTENDS MqttWire, SequenceLemmas, FiniteSetTheorems

-----------------------------------------------------------------------------
(* The remaining length *)

\* Quotient and remainder make the number again.
LEMMA DivMod ==
  ASSUME NEW B \in Nat, B > 0, NEW n \in Nat
  PROVE  /\ n \div B \in Nat /\ (n % B) \in 0 .. B - 1
         /\ n = B * (n \div B) + (n % B)
  OBVIOUS

\* A quotient is below k when the number is below k times the divisor.
LEMMA DivBound ==
  ASSUME NEW B \in Nat, B > 0, NEW n \in Nat, NEW k \in Nat, n < B * k
  PROVE  n \div B < k
  OBVIOUS

\* A number below the divisor is its own remainder.
LEMMA DivSmall ==
  ASSUME NEW B \in Nat, B > 0, NEW n \in Nat, n < B
  PROVE  n \div B = 0 /\ n % B = n
  OBVIOUS

\* What is left of a length before a byte of it is B times what is left before
\* the next and the seven bits of the byte.
LEMMA LeftFacts ==
  ASSUME NEW n \in Nat
  PROVE  /\ Left(n) \in [1 .. 4 -> Nat]
         /\ Left(n)[1] = n
         /\ \A i \in 1 .. 3 : Left(n)[i] = Base * Left(n)[i + 1] + (Left(n)[i] % Base)
         /\ \A i \in 1 .. 4 : (Left(n)[i] % Base) \in 0 .. Base - 1
         /\ n <= MaxLength => Left(n)[4] < Base
<1> DEFINE a == n \div Base
           b == a \div Base
           c == b \div Base
<1>0. Base \in Nat /\ Base > 0
  BY MessageAssumption
<1>1. a \in Nat /\ n = Base * a + (n % Base) /\ (n % Base) \in 0 .. Base - 1
  BY <1>0, DivMod
<1>2. b \in Nat /\ a = Base * b + (a % Base) /\ (a % Base) \in 0 .. Base - 1
  <2> HIDE DEF a
  <2> QED BY <1>0, <1>1, DivMod
<1>3. c \in Nat /\ b = Base * c + (b % Base) /\ (b % Base) \in 0 .. Base - 1
  <2> HIDE DEF b
  <2> QED BY <1>0, <1>2, DivMod
<1>4. (c % Base) \in 0 .. Base - 1
  <2> HIDE DEF c
  <2> QED BY <1>0, <1>3, DivMod
<1>5. ASSUME n <= MaxLength PROVE c < Base
  <2>1. /\ Base * Base \in Nat /\ Base * (Base * Base) \in Nat
        /\ Base * Base * Base * Base = Base * (Base * (Base * Base))
    BY <1>0
  <2>2. n < Base * (Base * (Base * Base))
    <3> DEFINE M == Base * Base * Base * Base
    <3>1. M \in Nat /\ n <= M - 1
      BY <1>0, <1>5, <2>1 DEF MaxLength
    <3> HIDE DEF M
    <3>2. n < M
      BY <3>1
    <3> QED BY <3>2, <2>1 DEF M
  <2>3. a < Base * (Base * Base)
    BY <1>0, <2>1, <2>2, DivBound
  <2>4. b < Base * Base
    <3> HIDE DEF a
    <3> QED BY <1>0, <1>1, <2>1, <2>3, DivBound
  <2> HIDE DEF b
  <2> QED BY <1>0, <1>2, <2>1, <2>4, DivBound
<1>6. Left(n) = <<n, a, b, c>>
  BY DEF Left
<1> HIDE DEF a, b, c
<1>7. Left(n) \in [1 .. 4 -> Nat]
  BY <1>1, <1>2, <1>3, <1>6
<1>8. /\ Left(n)[1] = n /\ Left(n)[2] = a /\ Left(n)[3] = b /\ Left(n)[4] = c
  BY <1>6
<1>9. ASSUME NEW i \in 1 .. 3
      PROVE  Left(n)[i] = Base * Left(n)[i + 1] + (Left(n)[i] % Base)
  <2>1. i = 1 \/ i = 2 \/ i = 3
    OBVIOUS
  <2> QED BY <2>1, <1>1, <1>2, <1>3, <1>8
<1>10. ASSUME NEW i \in 1 .. 4 PROVE (Left(n)[i] % Base) \in 0 .. Base - 1
  <2>1. i = 1 \/ i = 2 \/ i = 3 \/ i = 4
    OBVIOUS
  <2> QED BY <2>1, <1>1, <1>2, <1>3, <1>4, <1>8
<1> QED BY <1>5, <1>7, <1>8, <1>9, <1>10

\* The number of bytes is the first before which less than Base is left.
LEMMA LengthBytesIs ==
  ASSUME NEW n \in Nat, n <= MaxLength
  PROVE  /\ LengthBytes(n) \in 1 .. 4
         /\ Left(n)[LengthBytes(n)] < Base
         /\ \A j \in 1 .. LengthBytes(n) - 1 : Left(n)[j] >= Base
<1>0. Base \in Nat
  BY MessageAssumption
<1>1. /\ Left(n)[4] < Base /\ Left(n)[1] \in Nat /\ Left(n)[2] \in Nat
      /\ Left(n)[3] \in Nat /\ Left(n)[4] \in Nat
  BY LeftFacts
<1> DEFINE Is(k) == Left(n)[k] < Base /\ \A j \in 1 .. k - 1 : Left(n)[j] >= Base
<1>2. \E k \in 1 .. 4 : Is(k)
  <2>1. CASE Left(n)[1] < Base
    <3> Is(1)
      BY <2>1
    <3> QED OBVIOUS
  <2>2. CASE Left(n)[1] >= Base /\ Left(n)[2] < Base
    <3>1. \A j \in 1 .. 2 - 1 : j = 1
      OBVIOUS
    <3> Is(2)
      BY <2>2, <3>1
    <3> QED OBVIOUS
  <2>3. CASE Left(n)[1] >= Base /\ Left(n)[2] >= Base /\ Left(n)[3] < Base
    <3>1. \A j \in 1 .. 3 - 1 : j = 1 \/ j = 2
      OBVIOUS
    <3> Is(3)
      BY <2>3, <3>1
    <3> QED OBVIOUS
  <2>4. CASE Left(n)[1] >= Base /\ Left(n)[2] >= Base /\ Left(n)[3] >= Base
    <3>1. \A j \in 1 .. 4 - 1 : j = 1 \/ j = 2 \/ j = 3
      OBVIOUS
    <3> Is(4)
      BY <2>4, <3>1, <1>1
    <3> QED OBVIOUS
  <2> QED BY <1>0, <1>1, <2>1, <2>2, <2>3, <2>4
<1>3. LengthBytes(n) = CHOOSE k \in 1 .. 4 : Is(k)
  BY DEF LengthBytes
<1> HIDE DEF Is
<1>4. LengthBytes(n) \in 1 .. 4 /\ Is(LengthBytes(n))
  BY <1>2, <1>3
<1> QED BY <1>4 DEF Is

\* A digit with its high bit set or not is the same digit.
LEMMA ModPlus ==
  ASSUME NEW B \in Nat, B > 0, NEW d \in 0 .. B - 1
  PROVE  d % B = d /\ (d + B) % B = d
  OBVIOUS

\* The high bit of a byte says that another follows, the others are a digit of
\* the length.
LEMMA RemainingLengthIs ==
  ASSUME NEW n \in Nat, n <= MaxLength
  PROVE  /\ RemainingLength(n) \in Seq(Byte)
         /\ Len(RemainingLength(n)) = LengthBytes(n)
         /\ \A i \in 1 .. LengthBytes(n) :
              /\ RemainingLength(n)[i] % Base = Left(n)[i] % Base
              /\ RemainingLength(n)[i] >= Base <=> i < LengthBytes(n)
<1> DEFINE k == LengthBytes(n)
           r == RemainingLength(n)
<1>0. Base \in Nat /\ Base > 0
  BY MessageAssumption
<1>1. k \in 1 .. 4
  BY LengthBytesIs
<1>2. \A i \in 1 .. k : (Left(n)[i] % Base) \in 0 .. Base - 1
  <2>1. \A i \in 1 .. 4 : (Left(n)[i] % Base) \in 0 .. Base - 1
    BY LeftFacts
  <2> HIDE DEF k
  <2> QED BY <1>1, <2>1
<1> DEFINE e(i) == (Left(n)[i] % Base) + (IF i < k THEN Base ELSE 0)
<1>3. ASSUME NEW i \in 1 .. k
      PROVE  /\ e(i) \in Byte /\ e(i) % Base = Left(n)[i] % Base
             /\ e(i) >= Base <=> i < k
  <2> DEFINE d == Left(n)[i] % Base
  <2>1. d \in 0 .. Base - 1
    BY <1>2
  <2> HIDE DEF d
  <2>2. d % Base = d /\ (d + Base) % Base = d
    BY <1>0, <2>1, ModPlus
  <2>3. CASE i < k
    <3>1. e(i) = d + Base
      BY <2>3 DEF d
    <3> HIDE DEF e
    <3>2. e(i) \in Byte /\ e(i) >= Base
      BY <3>1, <2>1, <1>0 DEF Byte
    <3> QED BY <3>1, <3>2, <2>2, <2>3 DEF d
  <2>4. CASE ~(i < k)
    <3>1. e(i) = d
      BY <2>4, <2>1, <1>0 DEF d
    <3> HIDE DEF e
    <3>2. e(i) \in Byte /\ ~(e(i) >= Base)
      BY <3>1, <2>1, <1>0 DEF Byte
    <3> QED BY <3>1, <3>2, <2>2, <2>4 DEF d
  <2> QED BY <2>3, <2>4
<1>4. r = [i \in 1 .. k |-> e(i)]
  BY DEF RemainingLength
<1> HIDE DEF e
<1>5. r \in Seq(Byte) /\ Len(r) = k
  <2>1. \A i \in 1 .. k : e(i) \in Byte
    BY <1>3
  <2>2. k \in Nat
    BY <1>1
  <2> HIDE DEF r, k
  <2> QED BY <1>4, <2>1, <2>2
<1>6. \A i \in 1 .. k : r[i] = e(i)
  BY <1>4
<1> QED BY <1>3, <1>5, <1>6

\* v is the function by which TotalLength(b) is defined
Values(v, b) ==
  v = [i \in 2 .. Len(b) + 1 |->
         IF i \notin LengthAt(b) THEN 0 ELSE (b[i] % Base) + Base * v[i + 1]]

\* A fixed header has a length, whatever the bytes are.
LEMMA FixedLengthType ==
  ASSUME NEW b \in Seq(Byte)
  PROVE  FixedLength(b) \in Nat /\ FixedLength(b) >= 1
<1>1. IsFiniteSet(2 .. Len(b)) /\ LengthAt(b) \subseteq 2 .. Len(b)
  BY FS_Interval DEF LengthAt
<1>2. IsFiniteSet(LengthAt(b))
  BY <1>1, FS_Subset
<1>3. Cardinality(LengthAt(b)) \in Nat
  BY <1>2, FS_CardinalityType
<1> QED BY <1>3 DEF FixedLength

\* There is such a function, and the total length is a number.
LEMMA TotalLengthIs ==
  ASSUME NEW b \in Seq(Byte), b # <<>>
  PROVE  \E v \in [2 .. Len(b) + 1 -> Nat] :
           Values(v, b) /\ TotalLength(b) = v[2] + FixedLength(b)
<1> DEFINE n == Len(b) + 1
           A == LengthAt(b)
           digit(i) == b[i] % Base
           step == [j \in Nat |-> [x \in Nat |->
                      IF n - (j + 1) \in A THEN digit(n - (j + 1)) + Base * x ELSE 0]]
<1>0. Base \in Nat /\ Base > 0
  BY MessageAssumption
<1>1. n \in Nat /\ n >= 2 /\ n \notin A /\ A \subseteq 2 .. n
  BY EmptySeq DEF LengthAt
<1>2. \A i \in A : digit(i) \in Nat
  <2>1. ASSUME NEW i \in A PROVE digit(i) \in Nat
    <3>1. i \in 1 .. Len(b)
      BY DEF LengthAt
    <3>2. b[i] \in Nat
      BY <3>1, <1>0 DEF Byte
    <3> QED BY <3>2, <1>0, DivMod
  <2> QED BY <2>1
<1>3. step \in [Nat -> [Nat -> Nat]]
  <2> HIDE DEF A, n, digit
  <2> QED BY <1>0, <1>2
<1>4. PICK g : Iterates(g, Nat, 0, step, n - 2)
  <2>1. n - 2 \in Nat
    BY <1>1
  <2> HIDE DEF n, step
  <2> QED BY <1>3, <2>1, Iteration
<1> DEFINE v == [i \in 2 .. n |-> g[n - i]]
<1> HIDE DEF n, A, digit
<1>5. v \in [2 .. n -> Nat]
  <2>1. \A i \in 2 .. n : n - i \in 0 .. n - 2
    BY <1>1
  <2> HIDE DEF step
  <2> QED BY <1>4, <2>1 DEF Iterates
<1>6. ASSUME NEW i \in 2 .. n
      PROVE  v[i] = IF i \notin A THEN 0 ELSE digit(i) + Base * v[i + 1]
  <2>1. CASE i = n
    <3>1. v[i] = g[0] /\ g[0] = 0
      BY <2>1, <1>1, <1>4 DEF Iterates
    <3> QED BY <3>1, <2>1, <1>1
  <2>2. CASE i # n
    <3> DEFINE j == n - (i + 1)
    <3>1. /\ j \in 0 .. (n - 2) - 1 /\ j \in Nat /\ j \in 0 .. n - 2 /\ n - (j + 1) = i
          /\ j + 1 = n - i /\ i + 1 \in 2 .. n
      BY <2>2, <1>1
    <3>2. g[j + 1] = step[j][g[j]] /\ g[j] \in Nat
      <4> HIDE DEF step, j
      <4> QED BY <1>4, <3>1 DEF Iterates
    <3>3. v[i] = g[j + 1] /\ v[i + 1] = g[j]
      BY <3>1
    <3> HIDE DEF j, v
    <3>4. step[j][g[j]] =
            IF n - (j + 1) \in A THEN digit(n - (j + 1)) + Base * g[j] ELSE 0
      BY <3>1, <3>2
    <3> QED BY <3>1, <3>2, <3>3, <3>4
  <2> QED BY <2>1, <2>2
<1>7. Values(v, b)
  <2> HIDE DEF v
  <2>1. v = [i \in 2 .. n |-> IF i \notin A THEN 0 ELSE digit(i) + Base * v[i + 1]]
    BY <1>5, <1>6
  <2> QED BY <2>1 DEF Values, n, A, digit
<1> DEFINE c == CHOOSE c : c = [i \in 2 .. Len(b) + 1 |->
                  IF i \notin LengthAt(b) THEN 0 ELSE (b[i] % Base) + Base * c[i + 1]]
<1>8. TotalLength(b) = c[2] + FixedLength(b)
  BY DEF TotalLength
<1>9. Values(c, b)
  <2> HIDE DEF v
  <2> QED BY <1>7 DEF Values
<1> HIDE DEF c, v
<1>10. c \in [2 .. n -> Nat]
  <2> DEFINE Good(k) == k \in 0 .. n - 2 => c[n - k] \in Nat
             S == {k \in Nat : Good(k)}
  <2>1. ASSUME NEW i \in 2 .. n
        PROVE  c[i] = IF i \notin A THEN 0 ELSE digit(i) + Base * c[i + 1]
    BY <1>9 DEF Values, n, A, digit
  <2>2. 0 \in S
    <3>1. n - 0 = n /\ n \in 2 .. n
      BY <1>1
    <3>2. c[n] = 0
      BY <2>1, <3>1, <1>1
    <3> QED BY <3>1, <3>2
  <2>3. ASSUME NEW k \in S PROVE k + 1 \in S
    <3>1. k \in Nat /\ k + 1 \in Nat /\ Good(k)
      OBVIOUS
    <3>2. SUFFICES ASSUME k + 1 \in 0 .. n - 2 PROVE c[n - (k + 1)] \in Nat
      <4>1. Good(k + 1)
        OBVIOUS
      <4> HIDE DEF Good
      <4> QED BY <4>1, <3>1
    <3> DEFINE i == n - (k + 1)
    <3>3. i \in 2 .. n /\ i + 1 = n - k /\ k \in 0 .. n - 2
      BY <3>1, <3>2, <1>1
    <3>4. c[i + 1] \in Nat
      BY <3>1, <3>3
    <3> HIDE DEF i, S, Good
    <3>5. c[i] = IF i \notin A THEN 0 ELSE digit(i) + Base * c[i + 1]
      BY <2>1, <3>3
    <3>6. c[i] \in Nat
      BY <3>4, <3>5, <1>0, <1>2
    <3> QED BY <3>6 DEF i
  <2>4. S = Nat
    <3>1. S \subseteq Nat
      OBVIOUS
    <3> HIDE DEF S
    <3> QED BY <2>2, <2>3, <3>1, InductionOnNat
  <2>5. ASSUME NEW i \in 2 .. n PROVE c[i] \in Nat
    <3>1. n - i \in Nat /\ n - i \in 0 .. n - 2 /\ n - (n - i) = i
      BY <1>1
    <3>2. Good(n - i)
      <4> HIDE DEF Good
      <4> QED BY <2>4, <3>1
    <3> QED BY <3>1, <3>2
  <2>6. c = [i \in 2 .. n |-> c[i]]
    BY <1>9 DEF Values, n
  <2> QED BY <2>5, <2>6
<1> QED BY <1>8, <1>9, <1>10 DEF n

\* mqtt_get_total_length returns a natural number, whatever the bytes are.
LEMMA TotalLengthType ==
  ASSUME NEW b \in Seq(Byte), b # <<>>
  PROVE  TotalLength(b) \in Nat
<1>1. PICK v \in [2 .. Len(b) + 1 -> Nat] : TotalLength(b) = v[2] + FixedLength(b)
  BY TotalLengthIs
<1>2. 2 \in 2 .. Len(b) + 1
  BY EmptySeq
<1> QED BY <1>1, <1>2, FixedLengthType

\* b holds the whole remaining length n
HasLength(b, n) ==
  /\ b \in Seq(Byte) /\ Len(b) >= LengthBytes(n) + 1
  /\ \A i \in 1 .. LengthBytes(n) :
       /\ b[i + 1] % Base = Left(n)[i] % Base
       /\ b[i + 1] >= Base <=> i < LengthBytes(n)

\* mqtt_get_total_length goes through just the bytes of the length that
\* fini_message has written.
LEMMA LengthAtIs ==
  ASSUME NEW n \in Nat, n <= MaxLength, NEW b, HasLength(b, n)
  PROVE  LengthAt(b) = 2 .. LengthBytes(n) + 1 /\ FixedLength(b) = LengthBytes(n) + 1
<1> DEFINE k == LengthBytes(n)
<1>0. k \in 1 .. 4 /\ Base \in Nat
  BY LengthBytesIs, MessageAssumption
<1>1. /\ b \in Seq(Byte) /\ Len(b) \in Nat /\ Len(b) >= k + 1
      /\ \A i \in 1 .. k : b[i + 1] >= Base <=> i < k
  BY DEF HasLength
<1> HIDE DEF k
<1>2. \A j \in 2 .. k : b[j] >= Base
  <2>1. ASSUME NEW j \in 2 .. k PROVE b[j] >= Base
    <3>1. j - 1 \in 1 .. k /\ (j - 1) + 1 = j /\ j - 1 < k
      BY <1>0
    <3> QED BY <1>1, <3>1
  <2> QED BY <2>1
<1>3. ~(b[k + 1] >= Base)
  <2> k \in 1 .. k /\ ~(k < k)
    BY <1>0
  <2> QED BY <1>1
<1>4. ASSUME NEW i \in LengthAt(b) PROVE i \in 2 .. k + 1
  <2>1. i \in 2 .. Len(b) /\ \A j \in 2 .. i - 1 : b[j] >= Base
    BY DEF LengthAt
  <2>2. ASSUME i > k + 1 PROVE FALSE
    <3> k + 1 \in 2 .. i - 1
      BY <2>1, <2>2, <1>0
    <3> QED BY <2>1, <1>3
  <2> QED BY <2>1, <2>2, <1>0
<1>5. ASSUME NEW i \in 2 .. k + 1 PROVE i \in LengthAt(b)
  <2>1. i \in 2 .. Len(b)
    BY <1>0, <1>1
  <2>2. \A j \in 2 .. i - 1 : j \in 2 .. k
    BY <1>0
  <2> QED BY <2>1, <2>2, <1>2 DEF LengthAt
<1>6. LengthAt(b) = 2 .. k + 1
  BY <1>4, <1>5
<1>7. Cardinality(2 .. k + 1) = k
  <2>1. 2 \in Int /\ k + 1 \in Int /\ 2 <= k + 1
    BY <1>0
  <2>2. Cardinality(2 .. k + 1) = (k + 1) - 2 + 1
    BY <2>1, FS_Interval
  <2> QED BY <2>2, <1>0
<1> QED BY <1>6, <1>7, <1>0 DEF FixedLength, k

\* What mqtt_get_total_length returns is the length that fini_message has
\* written, with the header.
THEOREM TotalLengthRead ==
  ASSUME NEW n \in Nat, n <= MaxLength, NEW b, HasLength(b, n)
  PROVE  TotalLength(b) = n + LengthBytes(n) + 1
<1> DEFINE k == LengthBytes(n)
           left == Left(n)
<1>0. k \in 1 .. 4 /\ Base \in Nat /\ Base > 0
  BY LengthBytesIs, MessageAssumption
<1>1. /\ b \in Seq(Byte) /\ Len(b) \in Nat /\ Len(b) >= k + 1 /\ b # <<>>
      /\ \A i \in 1 .. k : b[i + 1] % Base = left[i] % Base
  BY <1>0, EmptySeq DEF HasLength
<1>2. LengthAt(b) = 2 .. k + 1 /\ FixedLength(b) = k + 1
  BY LengthAtIs
<1>3. /\ left \in [1 .. 4 -> Nat] /\ left[1] = n /\ left[k] < Base
      /\ \A i \in 1 .. 3 : left[i] = Base * left[i + 1] + (left[i] % Base)
  BY LeftFacts, LengthBytesIs
<1>4. PICK v \in [2 .. Len(b) + 1 -> Nat] :
        Values(v, b) /\ TotalLength(b) = v[2] + FixedLength(b)
  BY <1>1, TotalLengthIs
<1> HIDE DEF k, left
<1>5. ASSUME NEW i \in 2 .. k + 1
      PROVE  v[i] = (left[i - 1] % Base) + Base * v[i + 1]
  <2>1. i \in 2 .. Len(b) + 1 /\ i - 1 \in 1 .. k /\ (i - 1) + 1 = i
    BY <1>0, <1>1
  <2>2. v[i] = (b[i] % Base) + Base * v[i + 1]
    BY <2>1, <1>2, <1>4 DEF Values
  <2>3. b[i] % Base = left[i - 1] % Base
    BY <2>1, <1>1
  <2> QED BY <2>2, <2>3
<1>6. v[k + 2] = 0
  <2>1. k + 2 \in 2 .. Len(b) + 1 /\ k + 2 \notin 2 .. k + 1
    BY <1>0, <1>1
  <2> QED BY <2>1, <1>2, <1>4 DEF Values
<1>7. v[k + 1] = left[k]
  <2>1. v[k + 1] = (left[k] % Base) + Base * v[k + 2]
    <3> k + 1 \in 2 .. k + 1 /\ (k + 1) - 1 = k /\ (k + 1) + 1 = k + 2
      BY <1>0
    <3> QED BY <1>5
  <2>2. left[k] \in Nat /\ left[k] % Base = left[k]
    BY <1>0, <1>3, DivSmall
  <2> QED BY <2>1, <2>2, <1>0, <1>6
<1>8. ASSUME NEW i \in 1 .. 3, i < k, v[i + 2] = left[i + 1]
      PROVE  v[i + 1] = left[i]
  <2>1. i + 1 \in 2 .. k + 1 /\ (i + 1) - 1 = i /\ (i + 1) + 1 = i + 2
    BY <1>0, <1>8
  <2>2. v[i + 1] = (left[i] % Base) + Base * v[i + 2]
    BY <1>5, <2>1
  <2>3. left[i] = Base * left[i + 1] + (left[i] % Base)
    BY <1>3
  <2>4. left[i] \in Nat /\ left[i + 1] \in Nat
    BY <1>3
  <2>5. left[i] % Base \in Nat
    BY <2>4, <1>0, DivMod
  <2> QED BY <2>2, <2>3, <2>4, <2>5, <1>8, <1>0
<1>9. v[2] = left[1]
  <2>1. CASE k = 1
    BY <2>1, <1>7
  <2>2. CASE k = 2
    BY <2>2, <1>7, <1>8
  <2>3. CASE k = 3
    <3>1. v[3] = left[2]
      BY <2>3, <1>7, <1>8
    <3> QED BY <3>1, <2>3, <1>8
  <2>4. CASE k = 4
    <3>1. v[4] = left[3]
      BY <2>4, <1>7, <1>8
    <3>2. v[3] = left[2]
      BY <3>1, <2>4, <1>8
    <3> QED BY <3>2, <2>4, <1>8
  <2> QED BY <2>1, <2>2, <2>3, <2>4, <1>0
<1>10. TotalLength(b) = n + (k + 1)
  BY <1>2, <1>3, <1>4, <1>9
<1> QED BY <1>10, <1>0 DEF k

-----------------------------------------------------------------------------
(* Beginnings of sequences *)

\* b is a beginning of p
Begins(b, p) ==
  /\ Len(b) \in Nat /\ Len(b) <= Len(p)
  /\ \A i \in 1 .. Len(b) : b[i] = p[i]

\* w is what comes after c in p, and r
After(c, p, r, w) == w = SubSeq(p, Len(c) + 1, Len(p)) \o r

\* c and w are together p and r
Same(c, w, p, r) == c \o w = p \o r

\* Of two sequences that are parts of the same one, the shorter is a beginning
\* of the longer.
LEMMA Cut ==
  ASSUME NEW x \in Seq(Byte), NEW y \in Seq(Byte), NEW z \in Seq(Byte),
         NEW w \in Seq(Byte), Same(x, y, z, w), Len(x) <= Len(z)
  PROVE  Begins(x, z) /\ After(x, z, w, y)
<1> DEFINE a == Len(x)
           b == Len(z)
           s == SubSeq(z, a + 1, b)
           t == x \o y
<1>1. a \in Nat /\ b \in Nat /\ a <= b /\ Len(y) \in Nat /\ Len(w) \in Nat
  OBVIOUS
<1>2. /\ Len(t) = a + Len(y)
      /\ \A i \in 1 .. Len(t) : t[i] = IF i <= a THEN x[i] ELSE y[i - a]
  BY ConcatProperties
<1>3. /\ Len(t) = b + Len(w)
      /\ \A i \in 1 .. Len(t) : t[i] = IF i <= b THEN z[i] ELSE w[i - b]
  BY ConcatProperties DEF Same
<1>4. s \in Seq(Byte) /\ Len(s) = b - a /\ \A i \in 1 .. b - a : s[i] = z[a + i]
  BY <1>1, SubSeqProperties
<1>5. /\ s \o w \in Seq(Byte) /\ Len(s \o w) = (b - a) + Len(w)
      /\ \A i \in 1 .. Len(s \o w) :
           (s \o w)[i] = IF i <= b - a THEN s[i] ELSE w[i - (b - a)]
  <2> HIDE DEF s, a, b, t
  <2>1. /\ s \o w \in Seq(Byte) /\ Len(s \o w) = Len(s) + Len(w)
        /\ \A i \in 1 .. Len(s) + Len(w) :
             (s \o w)[i] = IF i <= Len(s) THEN s[i] ELSE w[i - Len(s)]
    BY <1>4, ConcatProperties
  <2> QED BY <2>1, <1>4
<1>6. ASSUME NEW i \in 1 .. a PROVE x[i] = z[i]
  <2> HIDE DEF t
  <2>1. i \in 1 .. Len(t) /\ i <= a /\ i <= b
    BY <1>1, <1>2
  <2> QED BY <2>1, <1>2, <1>3
<1>7. Len(y) = Len(s \o w)
  BY <1>1, <1>2, <1>3, <1>5
<1>8. ASSUME NEW i \in 1 .. Len(y) PROVE y[i] = (s \o w)[i]
  <2> HIDE DEF t, s
  <2>1. /\ a + i \in 1 .. Len(t) /\ ~(a + i <= a) /\ (a + i) - a = i
        /\ i \in 1 .. Len(s \o w)
    BY <1>1, <1>2, <1>7
  <2>2. t[a + i] = y[i]
    BY <2>1, <1>2
  <2>3. CASE a + i <= b
    <3>1. i <= b - a /\ i \in 1 .. b - a
      BY <2>3, <1>1
    <3>2. t[a + i] = z[a + i]
      BY <2>3, <2>1, <1>3
    <3>3. (s \o w)[i] = s[i]
      BY <3>1, <2>1, <1>5
    <3> QED BY <2>2, <3>1, <3>2, <3>3, <1>4
  <2>4. CASE ~(a + i <= b)
    <3>1. ~(i <= b - a) /\ (a + i) - b = i - (b - a)
      BY <2>4, <1>1
    <3>2. t[a + i] = w[(a + i) - b]
      BY <2>4, <2>1, <1>3
    <3>3. (s \o w)[i] = w[i - (b - a)]
      BY <3>1, <2>1, <1>5
    <3> QED BY <2>2, <3>1, <3>2, <3>3
  <2> QED BY <2>3, <2>4
<1>9. y = s \o w
  BY <1>5, <1>7, <1>8, SeqEqual
<1>10. After(x, z, w, y)
  BY <1>9 DEF After
<1>11. Begins(x, z)
  BY <1>1, <1>6 DEF Begins
<1> QED BY <1>10, <1>11

\* A beginning as long as the whole is the whole.
LEMMA BeginsAll ==
  ASSUME NEW V, NEW b \in Seq(V), NEW p \in Seq(V), Begins(b, p), Len(b) = Len(p)
  PROVE  b = p
  BY SeqEqual DEF Begins

\* What a read takes from the connection and what it leaves are what was there.
LEMMA Split ==
  ASSUME NEW V, NEW s \in Seq(V), NEW k \in 0 .. Len(s)
  PROVE  /\ SubSeq(s, 1, k) \in Seq(V) /\ Len(SubSeq(s, 1, k)) = k
         /\ SubSeq(s, k + 1, Len(s)) \in Seq(V)
         /\ Len(SubSeq(s, k + 1, Len(s))) = Len(s) - k
         /\ \A i \in 1 .. k : SubSeq(s, 1, k)[i] = s[i]
         /\ SubSeq(s, 1, k) \o SubSeq(s, k + 1, Len(s)) = s
<1> DEFINE x == SubSeq(s, 1, k)
           y == SubSeq(s, k + 1, Len(s))
<1>1. k \in Nat /\ Len(s) \in Nat /\ k <= Len(s)
  OBVIOUS
<1>2. x \in Seq(V) /\ Len(x) = k /\ \A i \in 1 .. k : x[i] = s[i]
  BY <1>1, SubSeqProperties
<1>3. /\ y \in Seq(V) /\ Len(y) = Len(s) - k
      /\ \A i \in 1 .. Len(s) - k : y[i] = s[k + i]
  BY <1>1, SubSeqProperties
<1> HIDE DEF x, y
<1>4. /\ x \o y \in Seq(V) /\ Len(x \o y) = Len(s)
      /\ \A i \in 1 .. Len(s) : (x \o y)[i] = IF i <= k THEN x[i] ELSE y[i - k]
  BY <1>1, <1>2, <1>3, ConcatProperties
<1>5. ASSUME NEW i \in 1 .. Len(s) PROVE (x \o y)[i] = s[i]
  <2>1. CASE i <= k
    BY <2>1, <1>1, <1>2, <1>4
  <2>2. CASE ~(i <= k)
    <3>1. i - k \in 1 .. Len(s) - k /\ k + (i - k) = i
      BY <2>2, <1>1
    <3> QED BY <3>1, <2>2, <1>3, <1>4
  <2> QED BY <2>1, <2>2
<1>6. x \o y = s
  BY <1>4, <1>5, SeqEqual
<1> QED BY <1>2, <1>3, <1>6 DEF x, y

\* Three sequences of bytes, one after the other.
LEMMA Associative ==
  ASSUME NEW x \in Seq(Byte), NEW y \in Seq(Byte), NEW z \in Seq(Byte)
  PROVE  (x \o y) \o z = x \o (y \o z)
  BY ConcatAssociative

\* A concatenation, position by position
LEMMA Joined ==
  ASSUME NEW V, NEW x \in Seq(V), NEW y \in Seq(V)
  PROVE  /\ Len(x) \in Nat /\ Len(y) \in Nat
         /\ x \o y \in Seq(V) /\ Len(x \o y) = Len(x) + Len(y)
         /\ \A i \in 1 .. Len(x) : (x \o y)[i] = x[i]
         /\ \A i \in 1 .. Len(y) : (x \o y)[Len(x) + i] = y[i]
<1> DEFINE n == Len(x)
           l == Len(y)
<1>1. n \in Nat /\ l \in Nat
  OBVIOUS
<1>2. /\ x \o y \in Seq(V) /\ Len(x \o y) = n + l
      /\ \A i \in 1 .. n + l : (x \o y)[i] = IF i <= n THEN x[i] ELSE y[i - n]
  BY ConcatProperties
<1> HIDE DEF n, l
<1>4. ASSUME NEW i \in 1 .. l PROVE (x \o y)[n + i] = y[i]
  <2>1. n + i \in 1 .. n + l /\ ~(n + i <= n) /\ (n + i) - n = i
    BY <1>1
  <2>2. (x \o y)[n + i] = y[(n + i) - n]
    BY <2>1, <1>2
  <2> QED BY <2>1, <2>2
<1>5. \A i \in 1 .. n : (x \o y)[i] = x[i]
  BY <1>1, <1>2
<1> QED BY <1>1, <1>2, <1>4, <1>5 DEF n, l

-----------------------------------------------------------------------------
(* Words *)

\* A word is its high byte and its low byte.
LEMMA WordDiv ==
  ASSUME NEW C \in Nat, C > 0, NEW n \in Nat, n < C * C
  PROVE  /\ n \div C \in 0 .. C - 1 /\ (n % C) \in 0 .. C - 1
         /\ (n \div C) * C + (n % C) = n
  BY DivMod, DivBound

\* Two bytes hold the lengths and identifiers of MQTT.
LEMMA WordIs ==
  ASSUME NEW n \in 0 .. 4 * Base * Base - 1
  PROVE  /\ Word(n) \in Seq(Byte) /\ Len(Word(n)) = 2
         /\ Word(n)[1] * 2 * Base + Word(n)[2] = n
<1>0. Base \in Nat /\ Base >= 4
  BY MessageAssumption
<1> DEFINE C == 2 * Base
<1>1. C \in Nat /\ C > 0 /\ C * C = 4 * Base * Base /\ n \in Nat /\ n < C * C
  BY <1>0
<1>2. /\ n \div C \in 0 .. C - 1 /\ (n % C) \in 0 .. C - 1
      /\ (n \div C) * C + (n % C) = n
  <2> HIDE DEF C
  <2> QED BY <1>1, WordDiv
<1> DEFINE a == n \div C
           b == n % C
<1>3. Word(n) = <<a, b>>
  BY DEF Word
<1>4. a \in Byte /\ b \in Byte
  BY <1>2 DEF Byte
<1>5. a * 2 * Base = a * C
  <2>1. a \in Nat
    BY <1>2, <1>1
  <2> HIDE DEF a
  <2> QED BY <2>1, <1>0
<1> HIDE DEF a, b
<1>6. Word(n) \in Seq(Byte) /\ Len(Word(n)) = 2 /\ Word(n)[1] = a /\ Word(n)[2] = b
  BY <1>3, <1>4
<1> QED BY <1>2, <1>5, <1>6 DEF a, b

-----------------------------------------------------------------------------
(* Packets *)

\* What the application asks for, as the assumption on Plan says.
LEMMA MessageIs ==
  ASSUME NEW m \in Messages
  PROVE  /\ m \in Publications \/ m \in Others
         /\ m.type = "PUBLISH" <=> m \in Publications
         /\ m.type = "PUBLISH" => m.topic # <<>> /\ (m.qos = 0 => m.id = 0)
         /\ m.type = "BARE" => m.id = 0 /\ m.data = <<>>
         /\ m.topic \in Seq(Byte) /\ Len(m.topic) \in 0 .. 4 * Base * Base - 1
         /\ Len(m.topic) \in Nat
         /\ m.data \in Seq(Byte) /\ m.id \in 0 .. 4 * Base * Base - 1
         /\ Len(Body(m)) <= MaxLength
<1>1. PICK p \in Plan : m = p[2]
  BY DEF Messages
<1>2. m \in Publications \/ m \in Others
  BY <1>1, PlanAssumption
<1>3. /\ m.type = "PUBLISH" => m.topic # <<>>
      /\ m.type = "PUBLISH" /\ m.qos = 0 => m.id = 0
      /\ Len(m.topic) < 4 * Base * Base
      /\ m.type = "BARE" => m.id = 0 /\ m.data = <<>>
      /\ Len(Body(m)) <= MaxLength
  BY <1>1, PlanAssumption
<1>4. /\ m \in Publications => m.type = "PUBLISH" /\ m.topic \in Seq(Byte)
      /\ m \in Others => m.type # "PUBLISH" /\ m.topic = <<>>
      /\ m.data \in Seq(Byte) /\ m.id \in 0 .. 4 * Base * Base - 1
  BY <1>2 DEF Publications, Others
<1>5. m.topic \in Seq(Byte)
  <2>1. <<>> \in Seq(Byte)
    OBVIOUS
  <2> QED BY <2>1, <1>2, <1>4
<1>6. Len(m.topic) \in Nat /\ Base \in Nat
  BY <1>5, MessageAssumption
<1>7. 4 * Base * Base \in Nat
  BY <1>6
<1>8. Len(m.topic) \in 0 .. 4 * Base * Base - 1
  <2> DEFINE M == 4 * Base * Base
  <2>1. M \in Nat /\ Len(m.topic) < M
    BY <1>3, <1>7
  <2> HIDE DEF M
  <2>2. Len(m.topic) \in 0 .. M - 1
    BY <2>1, <1>6
  <2> QED BY <2>2 DEF M
<1> QED BY <1>2, <1>3, <1>4, <1>5, <1>6, <1>8

\* What the first byte of a packet tells its reader.
LEMMA FirstByteIs ==
  ASSUME NEW m \in Messages
  PROVE  /\ FirstByte(m) \in Byte
         /\ IsPublish(FirstByte(m)) <=> m.type = "PUBLISH"
         /\ m.type = "PUBLISH" => FirstByte(m) = m.qos
         /\ HasValidHeader(FirstByte(m)) => m.type # "AUTH"
         /\ FirstByte(m) = 3 <=> m.type = "WITH_ID"
<1>1. Base \in Nat /\ Base >= 4
  BY MessageAssumption
<1>2. m \in Publications \/ m \in Others
  BY MessageIs
<1>3. \/ m.type = "PUBLISH" /\ m.qos \in 0 .. 2
      \/ m.type = "WITH_ID" \/ m.type = "BARE" \/ m.type = "AUTH"
  BY <1>2 DEF Publications, Others
<1> QED BY <1>1, <1>3 DEF FirstByte, IsPublish, HasValidHeader, Byte

\* The topic's length, the topic and the identifier
LEMMA VariableHeaderIs ==
  ASSUME NEW m \in Messages, m.type = "PUBLISH"
  PROVE  /\ VariableHeader(m) \in Seq(Byte)
         /\ Len(VariableHeader(m)) = 2 + Len(m.topic) + IF m.qos > 0 THEN 2 ELSE 0
         /\ VariableHeader(m)[1] * 2 * Base + VariableHeader(m)[2] = Len(m.topic)
         /\ \A i \in 1 .. Len(m.topic) : VariableHeader(m)[2 + i] = m.topic[i]
         /\ m.qos > 0 => VariableHeader(m)[3 + Len(m.topic)] * 2 * Base
                         + VariableHeader(m)[4 + Len(m.topic)] = m.id
<1> DEFINE t == m.topic
           w == Word(Len(t))
           d == IF m.qos > 0 THEN Word(m.id) ELSE <<>>
           x == w \o t
           h == x \o d
           n == Len(t)
<1>1. /\ t \in Seq(Byte) /\ n \in 0 .. 4 * Base * Base - 1 /\ n \in Nat
      /\ m.id \in 0 .. 4 * Base * Base - 1
  BY MessageIs
<1>2. w \in Seq(Byte) /\ Len(w) = 2 /\ w[1] * 2 * Base + w[2] = n
  BY <1>1, WordIs
<1>3. /\ d \in Seq(Byte) /\ Len(d) = IF m.qos > 0 THEN 2 ELSE 0
      /\ m.qos > 0 => d[1] * 2 * Base + d[2] = m.id
  <2>1. CASE m.qos > 0
    <3>1. d = Word(m.id)
      BY <2>1
    <3> QED BY <3>1, <2>1, <1>1, WordIs
  <2>2. CASE ~(m.qos > 0)
    <3>1. d = <<>>
      BY <2>2
    <3> QED BY <3>1, <2>2
  <2> QED BY <2>1, <2>2
<1>4. VariableHeader(m) = h
  BY <1>1, <1>2, <1>3, ConcatAssociative DEF VariableHeader
<1> HIDE DEF w, d, t
<1>5. /\ x \in Seq(Byte) /\ Len(x) = 2 + n
      /\ \A i \in 1 .. 2 : x[i] = w[i]
      /\ \A i \in 1 .. n : x[2 + i] = t[i]
  <2>0. w \in Seq(Byte) /\ t \in Seq(Byte)
    BY <1>1, <1>2
  <2>1. /\ x \in Seq(Byte) /\ Len(x) = Len(w) + Len(t)
        /\ \A i \in 1 .. Len(w) : x[i] = w[i]
        /\ \A i \in 1 .. Len(t) : x[Len(w) + i] = t[i]
    BY <2>0, Joined
  <2> QED BY <2>1, <1>2
<1> HIDE DEF x
<1>6. Len(d) \in Nat
  BY <1>3
<1>7. /\ h \in Seq(Byte) /\ Len(h) = (2 + n) + Len(d)
      /\ \A i \in 1 .. 2 + n : h[i] = x[i]
      /\ \A i \in 1 .. Len(d) : h[(2 + n) + i] = d[i]
  <2>1. /\ h \in Seq(Byte) /\ Len(h) = Len(x) + Len(d)
        /\ \A i \in 1 .. Len(x) : h[i] = x[i]
        /\ \A i \in 1 .. Len(d) : h[Len(x) + i] = d[i]
    <3>1. x \in Seq(Byte) /\ d \in Seq(Byte)
      BY <1>3, <1>5
    <3> QED BY <3>1, Joined
  <2> HIDE DEF h, n
  <2> QED BY <2>1, <1>5
<1> HIDE DEF h, n
<1>8. h[1] = w[1] /\ h[2] = w[2]
  BY <1>1, <1>5, <1>6, <1>7
<1>9. ASSUME NEW i \in 1 .. n PROVE h[2 + i] = t[i]
  <2>1. 2 + i \in 1 .. 2 + n
    BY <1>1
  <2> QED BY <2>1, <1>5, <1>7
<1>10. ASSUME m.qos > 0 PROVE h[3 + n] * 2 * Base + h[4 + n] = m.id
  <2>1. Len(d) = 2 /\ d[1] * 2 * Base + d[2] = m.id
    BY <1>3, <1>10
  <2>2. h[3 + n] = d[1] /\ h[4 + n] = d[2]
    <3>1. /\ (2 + n) + 1 = 3 + n /\ (2 + n) + 2 = 4 + n
          /\ 1 \in 1 .. Len(d) /\ 2 \in 1 .. Len(d)
      BY <2>1, <1>1
    <3> QED BY <3>1, <1>7
  <2> QED BY <2>1, <2>2
<1>11. Len(h) = 2 + n + IF m.qos > 0 THEN 2 ELSE 0
  BY <1>1, <1>3, <1>7
<1>12. h[1] * 2 * Base + h[2] = n
  BY <1>8, <1>2
<1> QED BY <1>4, <1>7, <1>9, <1>10, <1>11, <1>12 DEF n, t

\* The body of a packet is made of bytes, and its length can be written.
LEMMA BodyIs ==
  ASSUME NEW m \in Messages
  PROVE  /\ Body(m) \in Seq(Byte) /\ Len(Body(m)) \in Nat /\ Len(Body(m)) <= MaxLength
         /\ m.type # "PUBLISH" => OtherBody(m) \in Seq(Byte)
<1>1. /\ m.data \in Seq(Byte) /\ m.id \in 0 .. 4 * Base * Base - 1
      /\ Len(Body(m)) <= MaxLength
  BY MessageIs
<1>2. CASE m.type = "PUBLISH"
  <2>1. VariableHeader(m) \in Seq(Byte)
    BY <1>2, VariableHeaderIs
  <2>2. Body(m) \in Seq(Byte)
    BY <2>1, <1>1, <1>2, ConcatProperties DEF Body
  <2> QED BY <2>2, <1>1, <1>2
<1>3. CASE m.type # "PUBLISH"
  <2>1. Word(m.id) \in Seq(Byte)
    BY <1>1, WordIs
  <2>2. Word(m.id) \o m.data \in Seq(Byte)
    BY <2>1, <1>1, ConcatProperties
  <2>3. OtherBody(m) \in Seq(Byte)
    BY <2>2 DEF OtherBody
  <2>4. Body(m) = OtherBody(m)
    BY <1>3 DEF Body
  <2> QED BY <2>3, <2>4, <1>1
<1> QED BY <1>2, <1>3

\* The first byte, the length and the body
LEMMA PacketIs ==
  ASSUME NEW m \in Messages, NEW n, n = Len(Body(m)), NEW k, k = LengthBytes(n)
  PROVE  /\ n \in Nat /\ n <= MaxLength /\ k \in 1 .. 4
         /\ Packet(m) \in Seq(Byte) /\ Len(Packet(m)) = 1 + k + n
         /\ Packet(m)[1] = FirstByte(m)
         /\ \A i \in 1 .. k : /\ Packet(m)[i + 1] % Base = Left(n)[i] % Base
                              /\ Packet(m)[i + 1] >= Base <=> i < k
         /\ \A i \in 1 .. n : Packet(m)[1 + k + i] = Body(m)[i]
<1> DEFINE f == <<FirstByte(m)>>
           r == RemainingLength(n)
           b == Body(m)
           x == f \o r
           p == x \o b
<1>1. n \in Nat /\ n <= MaxLength /\ k \in 1 .. 4 /\ k \in Nat
  BY BodyIs, LengthBytesIs
<1>2. f \in Seq(Byte) /\ Len(f) = 1 /\ f[1] = FirstByte(m)
  BY FirstByteIs
<1>3. /\ r \in Seq(Byte) /\ Len(r) = k
      /\ \A i \in 1 .. k : /\ r[i] % Base = Left(n)[i] % Base
                           /\ r[i] >= Base <=> i < k
  BY <1>1, RemainingLengthIs
<1>4. b \in Seq(Byte) /\ Len(b) = n
  BY BodyIs
<1>5. Packet(m) = p
  BY <1>2, <1>3, <1>4, ConcatAssociative DEF Packet
<1> HIDE DEF f, r, b
<1>6. /\ x \in Seq(Byte) /\ Len(x) = 1 + k
      /\ \A i \in 1 .. 1 : x[i] = f[i]
      /\ \A i \in 1 .. k : x[1 + i] = r[i]
  <2>0. f \in Seq(Byte) /\ r \in Seq(Byte)
    BY <1>2, <1>3
  <2>1. /\ x \in Seq(Byte) /\ Len(x) = Len(f) + Len(r)
        /\ \A i \in 1 .. Len(f) : x[i] = f[i]
        /\ \A i \in 1 .. Len(r) : x[Len(f) + i] = r[i]
    BY <2>0, Joined
  <2> QED BY <2>1, <1>2, <1>3
<1> HIDE DEF x
<1>7. /\ p \in Seq(Byte) /\ Len(p) = (1 + k) + n
      /\ \A i \in 1 .. 1 + k : p[i] = x[i]
      /\ \A i \in 1 .. n : p[(1 + k) + i] = b[i]
  <2>0. x \in Seq(Byte) /\ b \in Seq(Byte)
    BY <1>4, <1>6
  <2>1. /\ p \in Seq(Byte) /\ Len(p) = Len(x) + Len(b)
        /\ \A i \in 1 .. Len(x) : p[i] = x[i]
        /\ \A i \in 1 .. Len(b) : p[Len(x) + i] = b[i]
    BY <2>0, Joined
  <2> HIDE DEF p
  <2> QED BY <2>1, <1>4, <1>6
<1> HIDE DEF p
<1>8. p[1] = FirstByte(m)
  <2>1. 1 \in 1 .. 1 + k /\ 1 \in 1 .. 1
    BY <1>1
  <2> QED BY <2>1, <1>2, <1>6, <1>7
<1>9. ASSUME NEW i \in 1 .. k PROVE p[i + 1] = r[i]
  <2>1. i + 1 \in 1 .. 1 + k /\ 1 + i = i + 1
    BY <1>1
  <2> QED BY <2>1, <1>6, <1>7
<1>10. ASSUME NEW i \in 1 .. n PROVE p[1 + k + i] = b[i]
  BY <1>7
<1>11. Len(p) = 1 + k + n
  BY <1>1, <1>7
<1> QED BY <1>1, <1>3, <1>5, <1>7, <1>8, <1>9, <1>10, <1>11 DEF b

\* Where the parts of a PUBLISH and of another packet are in its body
LEMMA PublishBody ==
  ASSUME NEW m \in Messages, m.type = "PUBLISH", NEW h, h = Len(VariableHeader(m))
  PROVE  /\ h \in Nat /\ Len(m.data) \in Nat /\ Len(Body(m)) = h + Len(m.data)
         /\ \A i \in 1 .. h : Body(m)[i] = VariableHeader(m)[i]
         /\ \A i \in 1 .. Len(m.data) : Body(m)[h + i] = m.data[i]
<1>1. VariableHeader(m) \in Seq(Byte) /\ m.data \in Seq(Byte)
  BY VariableHeaderIs, MessageIs
<1>2. Body(m) = VariableHeader(m) \o m.data
  BY DEF Body
<1> QED BY <1>1, <1>2, Joined

\* The body of a packet with an identifier begins with it.
LEMMA OtherBodyIs ==
  ASSUME NEW m \in Messages, m.type = "WITH_ID"
  PROVE  /\ Len(m.data) \in Nat /\ Len(Body(m)) = 2 + Len(m.data)
         /\ Body(m)[1] * 2 * Base + Body(m)[2] = m.id
         /\ \A i \in 1 .. Len(m.data) : Body(m)[2 + i] = m.data[i]
<1> DEFINE w == Word(m.id)
           d == m.data
<1>1. w \in Seq(Byte) /\ Len(w) = 2 /\ w[1] * 2 * Base + w[2] = m.id
  BY MessageIs, WordIs
<1>2. d \in Seq(Byte)
  BY MessageIs
<1>3. Body(m) = w \o d
  BY DEF Body, OtherBody
<1> HIDE DEF w, d
<1>4. /\ Len(d) \in Nat /\ Len(w \o d) = Len(w) + Len(d)
      /\ \A i \in 1 .. Len(w) : (w \o d)[i] = w[i]
      /\ \A i \in 1 .. Len(d) : (w \o d)[Len(w) + i] = d[i]
  <2>1. w \in Seq(Byte)
    BY <1>1
  <2> QED BY <2>1, <1>2, Joined
<1>5. (w \o d)[1] = w[1] /\ (w \o d)[2] = w[2]
  BY <1>1, <1>4
<1> QED BY <1>1, <1>3, <1>4, <1>5 DEF d

\* What a reader that has a beginning of a packet knows of it
LEMMA PacketBegins ==
  ASSUME NEW m \in Messages, NEW n, n = Len(Body(m)), NEW k, k = LengthBytes(n),
         NEW b \in Seq(Byte), b # <<>>, Begins(b, Packet(m))
  PROVE  /\ k \in 1 .. 4 /\ n \in Nat /\ Len(Packet(m)) = 1 + k + n
         /\ Len(b) \in 1 .. 1 + k + n
         /\ b[1] = FirstByte(m)
         /\ \A i \in 2 .. k : i <= Len(b) => b[i] >= Base
         /\ k + 1 <= Len(b) => /\ b[k + 1] < Base
                               /\ HasLength(b, n) /\ FixedLength(b) = k + 1
                               /\ TotalLength(b) = 1 + k + n
<1> DEFINE p == Packet(m)
<1>1. /\ n \in Nat /\ n <= MaxLength /\ k \in 1 .. 4
      /\ p \in Seq(Byte) /\ Len(p) = 1 + k + n
      /\ p[1] = FirstByte(m)
      /\ \A i \in 1 .. k : /\ p[i + 1] % Base = Left(n)[i] % Base
                           /\ p[i + 1] >= Base <=> i < k
  BY PacketIs
<1> HIDE DEF p
<1>2. /\ Len(b) \in Nat /\ Len(b) # 0 /\ Len(b) <= Len(p)
      /\ \A i \in 1 .. Len(b) : b[i] = p[i]
  BY EmptySeq DEF Begins, p
<1>3. b[1] = p[1]
  <2> 1 \in 1 .. Len(b)
    BY <1>2
  <2> QED BY <1>2
<1>4. ASSUME NEW i \in 2 .. k, i <= Len(b) PROVE b[i] >= Base
  <2>1. i - 1 \in 1 .. k /\ (i - 1) + 1 = i /\ i - 1 < k /\ i \in 1 .. Len(b)
    BY <1>1, <1>2, <1>4
  <2>2. p[i] >= Base
    BY <2>1, <1>1
  <2> QED BY <2>1, <2>2, <1>2
<1>5. ASSUME k + 1 <= Len(b) PROVE HasLength(b, n) /\ b[k + 1] < Base
  <2>1. ASSUME NEW i \in 1 .. k PROVE b[i + 1] = p[i + 1]
    <3> i + 1 \in 1 .. Len(b)
      BY <1>1, <1>2, <1>5
    <3> QED BY <1>2
  <2>2. HasLength(b, n)
    BY <1>1, <1>2, <1>5, <2>1 DEF HasLength
  <2>3. b[k + 1] \in Nat /\ Base \in Nat
    <3>1. k + 1 \in 1 .. Len(b)
      BY <1>1, <1>2, <1>5
    <3>2. b[k + 1] \in Byte
      BY <3>1
    <3> QED BY <3>2, MessageAssumption DEF Byte
  <2>4. ~(b[k + 1] >= Base)
    <3> k \in 1 .. k /\ ~(k < k)
      BY <1>1
    <3> QED BY <1>1, <2>1
  <2> QED BY <2>2, <2>3, <2>4
<1>6. ASSUME k + 1 <= Len(b) PROVE FixedLength(b) = k + 1 /\ TotalLength(b) = 1 + k + n
  <2>1. HasLength(b, n)
    BY <1>5, <1>6
  <2>2. FixedLength(b) = LengthBytes(n) + 1 /\ TotalLength(b) = n + LengthBytes(n) + 1
    BY <1>1, <2>1, LengthAtIs, TotalLengthRead
  <2> QED BY <2>2, <1>1
<1>7. Len(b) \in 1 .. 1 + k + n
  BY <1>1, <1>2
<1> QED BY <1>1, <1>3, <1>4, <1>5, <1>6, <1>7 DEF p

\* Once the topic's length has come, the length of the variable header is
\* known.
LEMMA PublishBegins ==
  ASSUME NEW m \in Messages, m.type = "PUBLISH", NEW k, k = LengthBytes(Len(Body(m))),
         NEW b \in Seq(Byte), Begins(b, Packet(m)), k + 3 <= Len(b)
  PROVE  /\ FixedLength(b) = k + 1
         /\ WordAt(b, k + 2) = Len(m.topic)
         /\ IsPublish(b[1]) /\ Qos(b[1]) = m.qos
         /\ VariableLength(b) = Len(VariableHeader(m))
<1> DEFINE n == Len(Body(m))
           h == VariableHeader(m)
           p == Packet(m)
<1>1. /\ n \in Nat /\ k \in 1 .. 4 /\ Len(p) = 1 + k + n
      /\ \A i \in 1 .. n : p[1 + k + i] = Body(m)[i]
  BY PacketIs
<1>2. b # <<>>
  BY <1>1
<1>3. b[1] = FirstByte(m) /\ FixedLength(b) = k + 1
  <2>1. k + 1 <= Len(b)
    BY <1>1
  <2> QED BY <1>2, <2>1, PacketBegins
<1>4. /\ Len(h) = 2 + Len(m.topic) + IF m.qos > 0 THEN 2 ELSE 0
      /\ h[1] * 2 * Base + h[2] = Len(m.topic)
      /\ Len(m.topic) \in Nat
  <2>1. Len(m.topic) \in Nat
    BY MessageIs
  <2> QED BY <2>1, VariableHeaderIs
<1>5. /\ n = Len(h) + Len(m.data) /\ Len(m.data) \in Nat
      /\ \A i \in 1 .. Len(h) : Body(m)[i] = h[i]
  BY PublishBody
<1> HIDE DEF n, h, p
<1>6. Len(b) \in Nat /\ \A i \in 1 .. Len(b) : b[i] = p[i]
  BY DEF Begins, p
<1>0. Len(h) \in Nat /\ Len(h) >= 2 /\ n >= 2
  <2>1. Len(h) = 2 + Len(m.topic) + 2 \/ Len(h) = 2 + Len(m.topic) + 0
    BY <1>4
  <2>2. Len(m.topic) \in Nat /\ Len(m.data) \in Nat /\ n = Len(h) + Len(m.data)
    BY <1>4, <1>5
  <2>3. Len(h) \in Nat /\ Len(h) >= 2
    BY <2>1, <2>2
  <2> QED BY <2>2, <2>3
<1>7. /\ 1 \in 1 .. n /\ 2 \in 1 .. n /\ 1 \in 1 .. Len(h) /\ 2 \in 1 .. Len(h)
      /\ k + 2 \in 1 .. Len(b) /\ k + 3 \in 1 .. Len(b)
      /\ 1 + k + 1 = k + 2 /\ 1 + k + 2 = k + 3 /\ (k + 2) + 1 = k + 3
  BY <1>0, <1>1, <1>6, SMTT(30)
<1>8. b[k + 2] = h[1] /\ b[k + 3] = h[2]
  <2>1. p[1 + k + 1] = Body(m)[1] /\ p[1 + k + 2] = Body(m)[2]
    BY <1>1, <1>7
  <2>2. Body(m)[1] = h[1] /\ Body(m)[2] = h[2]
    BY <1>5, <1>7
  <2> QED BY <2>1, <2>2, <1>6, <1>7
<1>9. WordAt(b, k + 2) = Len(m.topic)
  BY <1>4, <1>7, <1>8 DEF WordAt
<1>10. IsPublish(b[1]) /\ b[1] = m.qos
  BY <1>3, FirstByteIs
<1>11. FixedLength(b) + 1 = k + 2
  BY <1>1, <1>3
<1>12. VariableLength(b) = Len(h)
  BY <1>4, <1>9, <1>10, <1>11 DEF VariableLength, Qos
<1> QED BY <1>3, <1>9, <1>10, <1>12 DEF h, Qos

\* A piece of a sequence is another sequence when it has its elements.
LEMMA Piece ==
  ASSUME NEW V, NEW b \in Seq(V), NEW t \in Seq(V), NEW a \in Nat, NEW c \in Nat,
         a + c <= Len(b), c <= Len(t), \A i \in 1 .. c : b[a + i] = t[i]
  PROVE  SubSeq(b, a + 1, a + c) = SubSeq(t, 1, c)
<1> DEFINE x == SubSeq(b, a + 1, a + c)
           y == SubSeq(t, 1, c)
<1>1. x \in Seq(V) /\ Len(x) = c /\ \A i \in 1 .. c : x[i] = b[a + i]
  <2>1. /\ a + 1 \in 1 .. Len(b) + 1 /\ a + c \in a + 1 - 1 .. Len(b)
        /\ (a + c) - (a + 1) + 1 = c
        /\ \A i \in 1 .. c : (a + 1) + i - 1 = a + i
    OBVIOUS
  <2> QED BY <2>1, SubSeqProperties
<1>2. y \in Seq(V) /\ Len(y) = c /\ \A i \in 1 .. c : y[i] = t[i]
  BY SubSeqProperties
<1> HIDE DEF x, y
<1>3. x = y
  BY <1>1, <1>2, SeqEqual
<1> QED BY <1>3 DEF x, y

\* The whole of a sequence is a piece of it.
LEMMA SubSeqAll ==
  ASSUME NEW V, NEW t \in Seq(V)
  PROVE  SubSeq(t, 1, Len(t)) = t
<1>1. /\ SubSeq(t, 1, Len(t)) \in Seq(V) /\ Len(SubSeq(t, 1, Len(t))) = Len(t)
      /\ \A i \in 1 .. Len(t) : SubSeq(t, 1, Len(t))[i] = t[i]
  BY SubSeqProperties
<1> QED BY <1>1, SeqEqual

\* The lengths of a packet's header, of its variable header, topic and data, and
\* of what has come
Measures(k, h, l, d, e) ==
  /\ k + 3 <= e /\ (k + 1) + 2 < e /\ (k + 3) + l <= e /\ (k + 1) + 2 + l <= e
  /\ k + 3 \in Nat /\ k + 1 + h \in Nat /\ e - (k + 1 + h) \in 0 .. d
  /\ (k + 1 + h) + (e - (k + 1 + h)) = e
  /\ \A i \in 1 .. h :
       (k + 1) + i \in 1 .. e /\ (k + 1) + i = 1 + k + i /\ i \in 1 .. h + d
  /\ \A i \in 1 .. e - (k + 1 + h) :
       /\ (k + 1 + h) + i \in 1 .. e /\ (k + 1 + h) + i = 1 + k + (h + i)
       /\ h + i \in 1 .. h + d /\ i \in 1 .. d
  /\ \A i \in 1 .. l : 2 + i \in 1 .. h /\ (k + 1) + (2 + i) = (k + 3) + i

\* What deliver_publish computes of a PUBLISH whose topic length l was found,
\* in numbers.
LEMMA PublishMeasures ==
  ASSUME NEW k \in 1 .. 4, NEW h \in Nat, NEW l \in Nat, NEW d \in Nat, NEW e \in Nat,
         l >= 1, h >= 2 + l, e <= 1 + k + (h + d), k + 1 + h <= e
  PROVE  Measures(k, h, l, d, e)
  BY DEF Measures

\* A publication with other data.
LEMMA WithData ==
  ASSUME NEW m \in Publications, NEW x
  PROVE  [m EXCEPT !.data = x] =
           [type |-> m.type, qos |-> m.qos, topic |-> m.topic, data |-> x, id |-> m.id]
  BY DEF Publications

\* A PUBLISH whose variable header has come is delivered with its level, topic
\* and identifier, and with as much of its data as has come.
LEMMA DecodedPublish ==
  ASSUME NEW m \in Messages, m.type = "PUBLISH", NEW k, k = LengthBytes(Len(Body(m))),
         NEW h, h = Len(VariableHeader(m)),
         NEW b \in Seq(Byte), Begins(b, Packet(m)), k + 1 + h <= Len(b)
  PROVE  /\ ~Malformed(b)
         /\ Len(b) - (k + 1 + h) \in 0 .. Len(m.data)
         /\ Decoded(b) = [m EXCEPT !.data = SubSeq(m.data, 1, Len(b) - (k + 1 + h))]
<1> DEFINE n == Len(Body(m))
           v == VariableHeader(m)
           p == Packet(m)
           t == m.topic
           d == m.data
           l == Len(t)
           q == m.qos
           j == Len(b) - (k + 1 + h)
<1>1. /\ n \in Nat /\ k \in 1 .. 4 /\ Len(p) = 1 + k + n
      /\ \A i \in 1 .. n : p[1 + k + i] = Body(m)[i]
  BY PacketIs
<1>2. /\ h = 2 + l + IF q > 0 THEN 2 ELSE 0
      /\ \A i \in 1 .. l : v[2 + i] = t[i]
      /\ q > 0 => v[3 + l] * 2 * Base + v[4 + l] = m.id
  BY VariableHeaderIs
<1>3. /\ l \in Nat /\ t \in Seq(Byte) /\ d \in Seq(Byte) /\ t # <<>>
      /\ (q = 0 => m.id = 0) /\ m \in Publications
  BY MessageIs
<1>4. /\ h \in Nat /\ Len(d) \in Nat /\ n = h + Len(d)
      /\ \A i \in 1 .. h : Body(m)[i] = v[i]
      /\ \A i \in 1 .. Len(d) : Body(m)[h + i] = d[i]
  BY PublishBody
<1>5. l >= 1
  BY <1>3, EmptySeq
<1>6. q \in 0 .. 2 /\ m.type = "PUBLISH"
  BY <1>3 DEF Publications
<1>7. h >= 2 + l /\ (q > 0 => h = 4 + l)
  <2> HIDE DEF l, q
  <2> QED BY <1>2, <1>3, <1>4, <1>6
<1> HIDE DEF n, v, p, t, d, l, q
<1>8. Len(b) \in Nat /\ Len(b) <= Len(p) /\ \A i \in 1 .. Len(b) : b[i] = p[i]
  BY DEF Begins, p
<1>0. /\ k \in 1 .. 4 /\ n \in Nat /\ h \in Nat /\ l \in Nat /\ Len(d) \in Nat
      /\ l >= 1 /\ h >= 2 + l /\ n = h + Len(d)
      /\ Len(b) \in Nat /\ Len(b) <= 1 + k + n /\ k + 1 + h <= Len(b)
  <2>1. l \in Nat /\ Len(d) \in Nat /\ h \in Nat /\ n = h + Len(d)
    BY <1>3, <1>4
  <2>2. k \in 1 .. 4 /\ n \in Nat /\ Len(b) <= 1 + k + n
    BY <1>1, <1>8
  <2> QED BY <2>1, <2>2, <1>5, <1>7, <1>8
<1> DEFINE e == Len(b)
           c == Len(d)
<1>9. /\ k + 3 <= e /\ (k + 1) + 2 < e /\ (k + 3) + l <= e /\ (k + 1) + 2 + l <= e
      /\ k + 3 \in Nat /\ k + 1 + h \in Nat /\ e - (k + 1 + h) \in 0 .. c
      /\ (k + 1 + h) + (e - (k + 1 + h)) = e
      /\ \A i \in 1 .. h :
           (k + 1) + i \in 1 .. e /\ (k + 1) + i = 1 + k + i /\ i \in 1 .. h + c
      /\ \A i \in 1 .. e - (k + 1 + h) :
           /\ (k + 1 + h) + i \in 1 .. e /\ (k + 1 + h) + i = 1 + k + (h + i)
           /\ h + i \in 1 .. h + c /\ i \in 1 .. c
      /\ \A i \in 1 .. l : 2 + i \in 1 .. h /\ (k + 1) + (2 + i) = (k + 3) + i
  <2>1. /\ k \in 1 .. 4 /\ h \in Nat /\ l \in Nat /\ c \in Nat /\ e \in Nat
        /\ l >= 1 /\ h >= 2 + l /\ e <= 1 + k + (h + c) /\ k + 1 + h <= e
    BY <1>0
  <2> HIDE DEF e, c
  <2>2. Measures(k, h, l, c, e)
    BY <2>1, PublishMeasures
  <2> QED BY <2>2 DEF Measures
<1>10. /\ FixedLength(b) = k + 1 /\ WordAt(b, k + 2) = l
       /\ IsPublish(b[1]) /\ Qos(b[1]) = q /\ VariableLength(b) = h
  BY <1>9, PublishBegins DEF l, t, q
<1>11. ASSUME NEW i \in 1 .. h PROVE b[(k + 1) + i] = v[i]
  <2>1. (k + 1) + i \in 1 .. Len(b) /\ (k + 1) + i = 1 + k + i /\ i \in 1 .. n
    BY <1>0, <1>9
  <2> QED BY <2>1, <1>1, <1>4, <1>8, SMTT(30)
<1>12. j \in 0 .. Len(d)
  BY <1>9
<1>13. ASSUME NEW i \in 1 .. j PROVE b[(k + 1 + h) + i] = d[i]
  <2>1. /\ (k + 1 + h) + i \in 1 .. Len(b) /\ (k + 1 + h) + i = 1 + k + (h + i)
        /\ h + i \in 1 .. n /\ i \in 1 .. Len(d)
    BY <1>0, <1>9
  <2>2. b[(k + 1 + h) + i] = p[1 + k + (h + i)]
    BY <2>1, <1>8
  <2>3. p[1 + k + (h + i)] = Body(m)[h + i]
    BY <2>1, <1>1
  <2> QED BY <2>1, <2>2, <2>3, <1>4
<1>14. ~Malformed(b)
  <2>1. (k + 1) + 1 = k + 2
    BY <1>1
  <2>2. (k + 1) + 2 < Len(b) /\ (k + 1) + 2 + l <= Len(b)
    BY <1>9
  <2> QED BY <2>1, <2>2, <1>10 DEF Malformed
<1>15. PublishTopic(b) = t
  <2>1. ASSUME NEW i \in 1 .. l PROVE b[(k + 3) + i] = t[i]
    <3>1. 2 + i \in 1 .. h /\ (k + 1) + (2 + i) = (k + 3) + i
      BY <1>9
    <3> QED BY <3>1, <1>2, <1>11
  <2>2. k + 3 \in Nat /\ (k + 3) + l <= Len(b)
    BY <1>9
  <2>3. SubSeq(b, (k + 3) + 1, (k + 3) + l) = SubSeq(t, 1, l)
    <3>1. b \in Seq(Byte) /\ t \in Seq(Byte) /\ l \in Nat /\ l <= Len(t)
      BY <1>3 DEF l
    <3> DEFINE a == k + 3
    <3>2. /\ a \in Nat /\ a + l <= Len(b)
          /\ \A i \in 1 .. l : b[a + i] = t[i]
      BY <2>1, <2>2
    <3> HIDE DEF a, l, t
    <3>3. SubSeq(b, a + 1, a + l) = SubSeq(t, 1, l)
      BY <3>1, <3>2, Piece
    <3> QED BY <3>3 DEF a
  <2>4. SubSeq(t, 1, l) = t
    BY <1>3, SubSeqAll DEF l
  <2>5. (k + 1) + 3 = (k + 3) + 1 /\ (k + 1) + 2 + l = (k + 3) + l /\ (k + 1) + 1 = k + 2
    BY <1>0, SMTT(30)
  <2> QED BY <2>3, <2>4, <2>5, <1>10 DEF PublishTopic
<1>16. PublishData(b) = SubSeq(d, 1, j)
  <2>1. k + 1 + h \in Nat /\ j \in Nat /\ (k + 1 + h) + j = Len(b) /\ j <= Len(d)
    BY <1>0, <1>9
  <2>2. \A i \in 1 .. j : b[(k + 1 + h) + i] = d[i]
    BY <1>13
  <2>3. d \in Seq(Byte)
    BY <1>3
  <2> DEFINE a == k + 1 + h
  <2> HIDE DEF j, a
  <2>4. a \in Nat /\ a + j <= Len(b) /\ \A i \in 1 .. j : b[a + i] = d[i]
    BY <2>1, <2>2 DEF a
  <2>5. SubSeq(b, a + 1, a + j) = SubSeq(d, 1, j)
    BY <2>1, <2>3, <2>4, Piece
  <2> QED BY <2>1, <2>5, <1>10 DEF PublishData, a
<1>17. MessageId(b) = m.id
  <2>1. CASE q = 0
    BY <2>1, <1>3, <1>10 DEF MessageId
  <2>2. CASE q # 0
    <3>1. q > 0 /\ h = 4 + l
      BY <2>2, <1>6, <1>7
    <3>2. 3 + l \in 1 .. h /\ 4 + l \in 1 .. h
      BY <3>1, <1>3
    <3>3. b[(k + 1) + (3 + l)] = v[3 + l] /\ b[(k + 1) + (4 + l)] = v[4 + l]
      BY <3>2, <1>11
    <3>4. /\ (k + 1) + (3 + l) = (k + 1) + h - 1
          /\ (k + 1) + (4 + l) = ((k + 1) + h - 1) + 1
          /\ ~((k + 1) + h > Len(b))
      <4>1. k \in Int /\ l \in Int /\ h \in Int /\ Len(b) \in Int /\ k + 1 + h <= Len(b)
        BY <1>0
      <4>2. ~((k + 1) + h > Len(b))
        BY <4>1
      <4> QED BY <4>1, <4>2, <3>1
    <3>5. WordAt(b, (k + 1) + h - 1) = m.id
      BY <3>1, <3>3, <3>4, <1>2 DEF WordAt
    <3> QED BY <2>2, <3>4, <3>5, <1>10 DEF MessageId
  <2> QED BY <2>1, <2>2
<1>18. Decoded(b) = [type |-> "PUBLISH", qos |-> q, topic |-> t,
                     data |-> SubSeq(d, 1, j), id |-> m.id]
  BY <1>10, <1>15, <1>16, <1>17 DEF Decoded
<1>19. [m EXCEPT !.data = SubSeq(d, 1, j)] =
         [type |-> "PUBLISH", qos |-> q, topic |-> t, data |-> SubSeq(d, 1, j),
          id |-> m.id]
  <2>1. m \in Publications /\ m.type = "PUBLISH"
    BY <1>3, <1>6
  <2>2. q = m.qos /\ t = m.topic
    BY DEF q, t
  <2> QED BY <2>1, <2>2, WithData
<1> QED BY <1>12, <1>14, <1>18, <1>19 DEF d

\* A packet of another type is read whole, if its length takes one byte.
LEMMA DecodedOther ==
  ASSUME NEW m \in Messages, m.type \in {"WITH_ID", "BARE"},
         m.type = "WITH_ID" => LengthBytes(Len(Body(m))) = 1
  PROVE  ~Malformed(Packet(m)) /\ Decoded(Packet(m)) = m
<1> DEFINE p == Packet(m)
           n == Len(Body(m))
           d == m.data
<1>1. /\ n \in Nat /\ n <= MaxLength
      /\ p \in Seq(Byte) /\ Len(p) = 1 + LengthBytes(n) + n /\ LengthBytes(n) \in 1 .. 4
      /\ p[1] = FirstByte(m)
      /\ \A i \in 1 .. LengthBytes(n) : p[i + 1] >= Base <=> i < LengthBytes(n)
      /\ \A i \in 1 .. n : p[1 + LengthBytes(n) + i] = Body(m)[i]
  BY PacketIs
<1>2. ~IsPublish(p[1]) /\ (p[1] = 3 <=> m.type = "WITH_ID")
  BY <1>1, FirstByteIs
<1>3. ~Malformed(p)
  BY <1>2 DEF Malformed
<1>4. /\ m \in Others /\ d \in Seq(Byte) /\ Base \in Nat
      /\ m.type = "BARE" => m.id = 0 /\ d = <<>>
  BY MessageIs, MessageAssumption
<1>5. Decoded(p) = [type |-> m.type, qos |-> 0, topic |-> <<>>,
                    data |-> SubSeq(p, 5, Len(p)), id |-> MessageId(p)]
  BY <1>2 DEF Decoded
<1>6. LengthBytes(n) = 1
  <2>1. CASE m.type = "WITH_ID"
    BY <2>1
  <2>2. CASE m.type = "BARE"
    <3>1. Body(m) = <<>>
      BY <2>2 DEF Body, OtherBody
    <3>2. n = 0
      BY <3>1
    <3>3. Left(n)[1] = 0
      BY <1>1, <3>2, LeftFacts
    <3>4. \A j \in 1 .. LengthBytes(n) - 1 : Left(n)[j] >= Base
      BY <1>1, LengthBytesIs
    <3>5. Base >= 4
      BY MessageAssumption
    <3> HIDE DEF n
    <3> QED BY <1>1, <3>3, <3>4, <3>5, <1>4
  <2> QED BY <2>1, <2>2
<1>7. SubSeq(p, 5, Len(p)) = d /\ MessageId(p) = m.id
  <2>1. CASE m.type = "WITH_ID"
    <3>1. /\ Len(d) \in Nat /\ n = 2 + Len(d)
          /\ Body(m)[1] * 2 * Base + Body(m)[2] = m.id
          /\ \A i \in 1 .. Len(d) : Body(m)[2 + i] = d[i]
      BY <2>1, OtherBodyIs
    <3> HIDE DEF n, p, d
    <3>2. Len(p) = 4 + Len(d)
      BY <1>1, <1>6, <3>1
    <3>3. \A i \in 1 .. n : p[2 + i] = Body(m)[i]
      BY <1>1, <1>6
    <3>4. ASSUME NEW i \in 1 .. Len(d) PROVE p[4 + i] = d[i]
      <4>1. 2 + i \in 1 .. n /\ 2 + (2 + i) = 4 + i
        BY <3>1
      <4> QED BY <4>1, <3>1, <3>3
    <3>5. SubSeq(p, 4 + 1, 4 + Len(d)) = SubSeq(d, 1, Len(d))
      <4>1. 4 + Len(d) <= Len(p) /\ Len(d) <= Len(d) /\ 4 \in Nat
        BY <3>1, <3>2
      <4> QED BY <4>1, <1>1, <1>4, <3>1, <3>4, Piece
    <3>6. SubSeq(p, 5, Len(p)) = d
      BY <3>2, <3>5, <1>4, SubSeqAll
    <3>7. p[3] = Body(m)[1] /\ p[4] = Body(m)[2]
      <4> 1 \in 1 .. n /\ 2 \in 1 .. n
        BY <3>1, <1>1
      <4> QED BY <3>3
    <3>8. ~(p[2] >= Base)
      BY <1>1, <1>6
    <3>9. WordAt(p, 3) = m.id
      BY <3>1, <3>7 DEF WordAt
    <3>10. ~(Len(p) < 4)
      BY <3>1, <3>2
    <3> QED BY <3>6, <3>8, <3>9, <3>10, <1>2 DEF MessageId
  <2>2. CASE m.type = "BARE"
    <3>1. Body(m) = <<>>
      BY <2>2 DEF Body, OtherBody
    <3>2. n = 0
      BY <3>1
    <3>3. Len(p) = 2
      BY <1>1, <1>6, <3>2
    <3>4. MessageId(p) = 0
      BY <1>2, <3>3 DEF MessageId
    <3>5. SubSeq(p, 5, 2) = <<>>
      <4> HIDE DEF p
      <4> QED BY <1>1, SubSeqProperties, EmptySeq
    <3> QED BY <3>3, <3>4, <3>5, <1>4, <2>2
  <2> QED BY <2>1, <2>2
<1>8. m = [type |-> m.type, qos |-> 0, topic |-> <<>>, data |-> d, id |-> m.id]
  BY <1>4 DEF Others
<1> QED BY <1>3, <1>5, <1>7, <1>8

-----------------------------------------------------------------------------
(* The writer *)

\* A message that fits in the buffer is written there whole.
LEMMA PublishFits ==
  ASSUME NEW m \in Messages, m.type = "PUBLISH", Fits(m), NEW o \in Int
  PROVE  PublishMessage(m, o) =
           Outbound(Packet(m), 0, o - (HeaderSize - 1 - LengthBytes(Len(Body(m)))))
<1> DEFINE h == Len(VariableHeader(m))
           d == Len(m.data)
<1>1. Body(m) = VariableHeader(m) \o m.data
  BY DEF Body
<1>2. h \in Nat /\ d \in Nat /\ Len(Body(m)) = h + d
  BY PublishBody
<1>3. ~(d > OutBuffer - (HeaderSize + h))
  <2>1. OutBuffer \in Nat /\ HeaderSize + (h + d) <= OutBuffer
    BY <1>2, MessageAssumption DEF Fits
  <2> HIDE DEF h, d
  <2> QED BY <2>1, <1>2 DEF HeaderSize
<1>4. PublishMessage(m, o) = Finished(m, Body(m), 0, o)
  BY <1>1, <1>3 DEF PublishMessage
<1> QED BY <1>4 DEF Finished, Packet

\* p is the part of m that fits in the buffer, with room bytes of its data
Fragment(m, p, room) ==
  /\ room \in 0 .. Len(m.data)
  /\ p.total \in Nat /\ p.total # 0 /\ p.offset = LeftOffset(m)
  /\ p.bytes \in Seq(Byte) /\ Len(p.bytes) - p.offset = room
  /\ p.bytes \o SubSeq(m.data, room + 1, Len(m.data)) = Packet(m)

\* Of a message that does not fit, what is left is written after what did.
LEMMA PublishFragment ==
  ASSUME NEW m \in Messages, m.type = "PUBLISH", ~Fits(m), NEW o,
         HeaderSize + Len(VariableHeader(m)) <= OutBuffer
  PROVE  Fragment(m, PublishMessage(m, o),
                  OutBuffer - (HeaderSize + Len(VariableHeader(m))))
<1> DEFINE h == Len(VariableHeader(m))
           k == LengthBytes(Len(Body(m)))
           room == OutBuffer - (HeaderSize + h)
           p == PublishMessage(m, o)
<1> DEFINE v == VariableHeader(m)
           d == m.data
           x == SubSeq(d, 1, room)
           y == SubSeq(d, room + 1, Len(d))
           n == Len(Body(m))
           f == <<FirstByte(m)>>
           r == RemainingLength(n)
           t == HeaderSize + h + Len(d)
<1>1. h \in Nat /\ Len(d) \in Nat /\ n = h + Len(d)
  BY PublishBody
<1>2. room \in 0 .. Len(d) /\ Len(d) > room
  <2>1. OutBuffer \in Nat /\ ~(HeaderSize + n <= OutBuffer)
    BY MessageAssumption DEF Fits
  <2>2. HeaderSize + h <= OutBuffer
    OBVIOUS
  <2> HIDE DEF d, n, h
  <2> QED BY <1>1, <2>1, <2>2 DEF HeaderSize
<1>3. v \in Seq(Byte) /\ d \in Seq(Byte) /\ Body(m) = v \o d
  BY VariableHeaderIs, MessageIs DEF Body
<1>4. t \in Nat /\ t # 0 /\ t - HeaderSize = n
  <2> HIDE DEF d, n, h
  <2> QED BY <1>1 DEF HeaderSize
<1> DEFINE b == v \o x
           c == HeaderSize + h
<1>5. p = Finished(m, b, t, c)
  BY <1>2 DEF PublishMessage
<1>6. p = Outbound((f \o r) \o b, t, c - (HeaderSize - 1 - k))
  <2> HIDE DEF t, b, c, p, n
  <2>1. t # 0 /\ n = t - HeaderSize
    BY <1>4
  <2>2. Finished(m, b, t, c) =
          Outbound(<<FirstByte(m)>> \o RemainingLength(n) \o b, t,
                   c - (HeaderSize - 1 - LengthBytes(n)))
    BY <2>1 DEF Finished
  <2> QED BY <2>2, <1>5 DEF n
<1>7. /\ p.bytes = (f \o r) \o (v \o x) /\ p.total = t
      /\ p.offset = (HeaderSize + h) - (HeaderSize - 1 - k)
  <2>1. /\ p.bytes = (f \o r) \o b /\ p.total = t /\ p.offset = c - (HeaderSize - 1 - k)
    <3> HIDE DEF t, b, f, r, p, c, k
    <3> QED BY <1>6 DEF Outbound
  <2> QED BY <2>1
<1>8. k \in 1 .. 4 /\ f \in Seq(Byte) /\ Len(f) = 1 /\ r \in Seq(Byte) /\ Len(r) = k
  <2>1. n \in Nat /\ n <= MaxLength /\ k \in 1 .. 4
    BY PacketIs
  <2> HIDE DEF n
  <2>2. r \in Seq(Byte) /\ Len(r) = k
    BY <2>1, RemainingLengthIs DEF n
  <2> QED BY <2>1, <2>2, FirstByteIs
<1>9. /\ x \in Seq(Byte) /\ Len(x) = room /\ y \in Seq(Byte) /\ x \o y = d
  <2> HIDE DEF d, room
  <2> QED BY <1>2, <1>3, Split
<1> HIDE DEF v, x, y, d, f, r, n, room, p, t, h, k
<1>10. f \o r \in Seq(Byte) /\ Len(f \o r) = 1 + k
  <2>1. f \in Seq(Byte) /\ r \in Seq(Byte)
    BY <1>8
  <2>2. f \o r \in Seq(Byte) /\ Len(f \o r) = Len(f) + Len(r)
    BY <2>1, Joined
  <2> QED BY <2>2, <1>8
<1>11. v \o x \in Seq(Byte) /\ Len(v \o x) = h + room
  <2>1. v \o x \in Seq(Byte) /\ Len(v \o x) = Len(v) + Len(x)
    BY <1>3, <1>9, Joined
  <2> QED BY <2>1, <1>9 DEF v, h
<1>12. p.bytes \in Seq(Byte) /\ Len(p.bytes) = (1 + k) + (h + room)
  <2> DEFINE a == f \o r
             z == v \o x
  <2> HIDE DEF a, z
  <2>1. a \in Seq(Byte) /\ z \in Seq(Byte) /\ p.bytes = a \o z
    BY <1>7, <1>10, <1>11 DEF a, z
  <2>2. p.bytes \in Seq(Byte) /\ Len(p.bytes) = Len(a) + Len(z)
    BY <2>1, Joined
  <2> QED BY <2>2, <1>10, <1>11 DEF a, z
<1>13. Len(p.bytes) - p.offset = room
  <2>1. p.offset = (HeaderSize + h) - (HeaderSize - 1 - k)
    BY <1>7
  <2>2. h \in Nat /\ k \in Nat /\ room \in Nat
    BY <1>1, <1>2, <1>8
  <2> QED BY <2>1, <2>2, <1>12 DEF HeaderSize
<1>14. p.bytes \o y = Packet(m)
  <2> DEFINE a == f \o r
  <2>1. a \in Seq(Byte) /\ v \in Seq(Byte) /\ x \in Seq(Byte) /\ y \in Seq(Byte)
    BY <1>3, <1>9, <1>10
  <2>2. Packet(m) = a \o (v \o d)
    BY <1>3 DEF Packet, f, r, n
  <2> HIDE DEF a
  <2>3. (a \o (v \o x)) \o y = a \o ((v \o x) \o y)
    <3> DEFINE w == v \o x
    <3>1. w \in Seq(Byte)
      BY <1>11
    <3> HIDE DEF w
    <3>2. (a \o w) \o y = a \o (w \o y)
      BY <3>1, <2>1, Associative, SMTT(30)
    <3> QED BY <3>2 DEF w
  <2>4. (v \o x) \o y = v \o (x \o y)
    BY <2>1, ConcatAssociative
  <2>5. p.bytes = a \o (v \o x)
    BY <1>7 DEF a
  <2> QED BY <2>2, <2>3, <2>4, <2>5, <1>9
<1>15. p.offset = LeftOffset(m)
  <2>1. LeftOffset(m) = HeaderSize + (h - (HeaderSize - 1 - k))
    BY DEF LeftOffset, h, k
  <2>2. h \in Int /\ k \in Int /\ p.offset = (HeaderSize + h) - (HeaderSize - 1 - k)
    BY <1>1, <1>7, <1>8
  <2> QED BY <2>1, <2>2 DEF HeaderSize
<1>16. Fragment(m, p, room)
  BY <1>2, <1>4, <1>7, <1>12, <1>13, <1>14, <1>15 DEF Fragment, d, y
<1> QED BY <1>16 DEF p, room, h

\* What is read from outside the data of a message is nothing, if the bytes of
\* the whole packet are in the buffer and the offset is not too large.
LEMMA WrittenIs ==
  ASSUME NEW m \in Messages, m.type = "PUBLISH", NEW o \in Int,
         HeaderSize + Len(VariableHeader(m)) <= OutBuffer,
         Fits(m) => o <= HeaderSize + Len(VariableHeader(m))
  PROVE  Written(m, PublishMessage(m, o)) = Packet(m)
<1> DEFINE h == Len(VariableHeader(m))
           k == LengthBytes(Len(Body(m)))
           d == m.data
           p == PublishMessage(m, o)
           s == Len(p.bytes) - p.offset
<1>1. h \in Nat /\ Len(d) \in Nat /\ Len(Body(m)) = h + Len(d)
  BY PublishBody
<1>2. k \in 1 .. 4 /\ Packet(m) \in Seq(Byte) /\ Len(Packet(m)) = 1 + k + (h + Len(d))
  BY <1>1, PacketIs
<1>3. Written(m, p) = p.bytes \o Memory(d, s + 1, Len(d) - s)
  BY DEF Written
<1>4. CASE Fits(m)
  <2>1. p = Outbound(Packet(m), 0, o - (HeaderSize - 1 - k))
    BY <1>4, PublishFits
  <2> HIDE DEF p, k, d, h
  <2>2. p.bytes = Packet(m) /\ p.offset = o - (HeaderSize - 1 - k)
    BY <2>1 DEF Outbound
  <2>3. o <= HeaderSize + h
    BY <1>4 DEF h
  <2>4. Len(d) - s <= 0 /\ Len(d) - s \in Int
    BY <2>2, <2>3, <1>1, <1>2 DEF HeaderSize
  <2> HIDE DEF s
  <2>5. Memory(d, s + 1, Len(d) - s) = <<>>
    <3> DEFINE c == Len(d) - s
    <3>1. 1 .. c = {}
      BY <2>4
    <3> QED BY <3>1 DEF Memory
  <2>6. Packet(m) \o <<>> = Packet(m)
    BY <1>2, ConcatEmptySeq
  <2> QED BY <1>3, <2>2, <2>5, <2>6 DEF p
<1>5. CASE ~Fits(m)
  <2> DEFINE room == OutBuffer - (HeaderSize + h)
  <2>0. Fragment(m, p, room)
    BY <1>5, PublishFragment
  <2>1. /\ room \in 0 .. Len(d) /\ s = room
        /\ p.bytes \o SubSeq(d, room + 1, Len(d)) = Packet(m)
    BY <2>0 DEF Fragment
  <2>2. Memory(d, room + 1, Len(d) - room) = SubSeq(d, room + 1, Len(d))
    <3> DEFINE c == Len(d) - room
               y == SubSeq(d, room + 1, Len(d))
               x == Memory(d, room + 1, c)
    <3>1. d \in Seq(Byte)
      BY MessageIs
    <3> HIDE DEF room, d
    <3>2. c \in Nat /\ c = Len(d) - room
      BY <2>1, <1>1
    <3>3. y \in Seq(Byte) /\ Len(y) = c /\ \A i \in 1 .. c : y[i] = d[room + i]
      <4>1. /\ room + 1 \in 1 .. Len(d) + 1 /\ Len(d) \in (room + 1) - 1 .. Len(d)
            /\ Len(d) - (room + 1) + 1 = c
            /\ \A i \in 1 .. c : (room + 1) + i - 1 = room + i
        BY <2>1, <1>1
      <4> QED BY <4>1, <3>1, SubSeqProperties
    <3>4. ASSUME NEW i \in 1 .. c
          PROVE  /\ room + 1 + i - 1 = room + i /\ room + i \in DOMAIN d
                 /\ room + i \in 1 .. Len(d)
      BY <2>1, <1>1, <3>1
    <3>5. x = [i \in 1 .. c |-> d[room + i]]
      BY <3>4 DEF Memory
    <3> HIDE DEF x, y, c
    <3>6. \A i \in 1 .. c : d[room + i] \in Byte
      BY <3>1, <3>4, ElementOfSeq
    <3>7. x \in Seq(Byte) /\ Len(x) = c /\ \A i \in 1 .. c : x[i] = d[room + i]
      BY <3>2, <3>5, <3>6
    <3>8. x = y
      BY <3>3, <3>7, SeqEqual
    <3> QED BY <3>8 DEF x, y, c
  <2> HIDE DEF p, s, room, d
  <2> QED BY <1>3, <2>1, <2>2 DEF p
<1> QED BY <1>4, <1>5

\* The outbox keeps the whole packet of a message, whether it was fragmented
\* or not.
LEMMA KeptIs ==
  ASSUME NEW m \in Messages, m.type = "PUBLISH", NEW o \in Int,
         HeaderSize + Len(VariableHeader(m)) <= OutBuffer
  PROVE  Kept(m, PublishMessage(m, o)) = [message |-> m, bytes |-> Packet(m)]
<1> DEFINE p == PublishMessage(m, o)
<1>1. CASE Fits(m)
  <2>1. p.bytes = Packet(m) /\ p.total = 0
    BY <1>1, PublishFits DEF Outbound
  <2> QED BY <2>1 DEF Kept
<1>2. CASE ~Fits(m)
  <2> DEFINE room == OutBuffer - (HeaderSize + Len(VariableHeader(m)))
  <2>0. Fragment(m, p, room)
    BY <1>2, PublishFragment
  <2>1. /\ p.total # 0 /\ Len(p.bytes) - p.offset = room
        /\ p.bytes \o SubSeq(m.data, room + 1, Len(m.data)) = Packet(m)
    BY <2>0 DEF Fragment
  <2> HIDE DEF p, room
  <2> QED BY <2>1 DEF Kept, p
<1> QED BY <1>1, <1>2

\* A message without data is its packet, and moves the offset back to its
\* fixed header.
LEMMA OtherIs ==
  ASSUME NEW m \in Messages, m.type # "PUBLISH", NEW o
  PROVE  OtherMessage(m, 0, o) =
           Outbound(Packet(m), 0, o - (HeaderSize - 1 - LengthBytes(Len(Body(m)))))
<1>1. Body(m) = OtherBody(m)
  BY DEF Body
<1> QED BY <1>1 DEF OtherMessage, Finished, Packet

\* A call is a publication, or the write of another message.
LEMMA CallIs ==
  ASSUME NEW c, NEW m, <<c, m>> \in Plan
  PROVE  /\ m \in Messages
         /\ c = "write" => m.type # "PUBLISH"
         /\ c # "write" => m.type = "PUBLISH"
<1> DEFINE p == <<c, m>>
<1>1. p[1] = c /\ p[2] = m /\ p \in Plan
  OBVIOUS
<1>2. \/ p \in {"publish", "enqueue", "discard"} \X Publications
      \/ p \in {"write"} \X Others
  BY <1>1, PlanAssumption
<1>3. m \in Messages
  BY <1>1 DEF Messages
<1>4. c = "write" => m \in Others
  BY <1>2
<1>5. c # "write" => m \in Publications
  BY <1>2
<1> QED BY <1>3, <1>4, <1>5 DEF Publications, Others

\* What a call leaves in the outbound_message
LEMMA OffsetAfter ==
  ASSUME NEW m \in Messages, m.type = "PUBLISH", NEW o \in Int,
         HeaderSize + Len(VariableHeader(m)) <= OutBuffer
  PROVE  /\ PublishMessage(m, o).offset \in Int
         /\ PublishMessage(m, o).total \in Nat
         /\ Fits(m) => /\ PublishMessage(m, o).total = 0
                       /\ PublishMessage(m, o).offset <= o
         /\ ~Fits(m) => PublishMessage(m, o).offset = LeftOffset(m)
<1> DEFINE k == LengthBytes(Len(Body(m)))
           p == PublishMessage(m, o)
<1>1. k \in 1 .. 4
  BY PacketIs
<1>2. CASE Fits(m)
  <2>1. p.total = 0 /\ p.offset = o - (HeaderSize - 1 - k)
    BY <1>2, PublishFits DEF Outbound
  <2> HIDE DEF p, k
  <2>2. p.offset \in Int /\ p.offset <= o
    BY <2>1, <1>1 DEF HeaderSize
  <2> QED BY <1>2, <2>1, <2>2 DEF p
<1>3. CASE ~Fits(m)
  <2>1. p.total \in Nat /\ p.offset = LeftOffset(m)
    BY <1>3, PublishFragment DEF Fragment
  <2>2. Len(VariableHeader(m)) \in Nat
    BY PublishBody
  <2>3. LeftOffset(m) \in Int
    <3> HIDE DEF k
    <3> QED BY <1>1, <2>2 DEF LeftOffset, HeaderSize, k
  <2> QED BY <1>3, <2>1, <2>3
<1> QED BY <1>2, <1>3

Stages == {"closed", "idle", "first", "length", "header", "topic", "rest", "large",
           "payload"}

\* What is known of the counters and flags, whatever is on the connection
Scalars ==
  /\ total = 0 /\ offset \in Int
  /\ online \in BOOLEAN /\ cut \in BOOLEAN
  /\ at \in Stages
  /\ at = "closed" <=> ~online
  /\ calls \in 0 .. MaxCalls /\ faults \in 0 .. MaxFaults

\* No step leaves a length of a fragmented message behind, and the reader is
\* closed just when the connection is.
LEMMA ScalarsStep ==
  ASSUME OffsetsHarmless, Scalars, [Next]_vars
  PROVE  Scalars'
<1>0. MaxCalls \in Nat /\ MaxFaults \in Nat
  BY PlanAssumption
<1>1. ASSUME UNCHANGED vars PROVE Scalars'
  BY <1>1 DEF Scalars, vars, writerVars, readerVars, linkVars
<1> USE <1>0
<1>2. ASSUME NEW m \in Messages, PublishOnline(m) PROVE Scalars'
  BY <1>2 DEF Scalars, PublishOnline, Calling, readerVars, Stages
<1>3. ASSUME NEW m \in Messages, PublishOffline(m) PROVE Scalars'
  <2>1. <<"publish", m>> \in Plan
    BY <1>3 DEF PublishOffline, Calling
  <2>2. offset' \in Int
    BY <1>3, <2>1, CallIs, OffsetAfter DEF PublishOffline, Made, Scalars
  <2> QED BY <1>3, <2>2 DEF Scalars, PublishOffline, Calling, linkVars, readerVars, Stages
<1>4. ASSUME NEW m \in Messages, Enqueue(m) PROVE Scalars'
  <2>1. <<"enqueue", m>> \in Plan
    BY <1>4 DEF Enqueue, Calling
  <2>2. offset' \in Int
    BY <1>4, <2>1, CallIs, OffsetAfter DEF Enqueue, Made, Scalars
  <2> QED BY <1>4, <2>2 DEF Scalars, Enqueue, Calling, linkVars, readerVars, Stages
<1>5. ASSUME NEW m \in Messages, Discard(m) PROVE Scalars'
  <2>1. <<"discard", m>> \in Plan
    BY <1>5 DEF Discard, Calling
  <2>2. Fits(m)
    BY <2>1 DEF OffsetsHarmless
  <2>3. offset' \in Int /\ total' = 0
    BY <1>5, <2>1, <2>2, CallIs, OffsetAfter DEF Discard, Made, Scalars
  <2> QED BY <1>5, <2>3 DEF Scalars, Discard, Calling, linkVars, readerVars, Stages
<1>6. ASSUME NEW m \in Messages, WriteOther(m) PROVE Scalars'
  <2>1. <<"write", m>> \in Plan
    BY <1>6 DEF WriteOther, Calling
  <2>2. offset' = offset - (HeaderSize - 1 - LengthBytes(Len(Body(m))))
    BY <1>6, <2>1, CallIs, OtherIs DEF WriteOther, Scalars, Outbound
  <2>3. LengthBytes(Len(Body(m))) \in 1 .. 4
    BY PacketIs
  <2>4. offset' \in Int
    BY <2>2, <2>3 DEF Scalars, HeaderSize
  <2> QED BY <1>6, <2>4 DEF Scalars, WriteOther, Calling, readerVars, Stages
<1>7. ASSUME Resend PROVE Scalars'
  BY <1>7 DEF Scalars, Resend, readerVars
<1>8. ASSUME Connect PROVE Scalars'
  BY <1>8 DEF Scalars, Connect, Stages, HeaderSize
<1>9. ASSUME Lose PROVE Scalars'
  <2>1. faults' \in 0 .. MaxFaults
    BY <1>9 DEF Scalars, Lose
  <2>2. calls' = calls /\ total' = total /\ offset' = offset
    BY <1>9 DEF Lose, writerVars
  <2>3. online' = FALSE /\ at' = "closed" /\ cut' = FALSE
    BY <1>9 DEF Lose, Closes
  <2> QED BY <2>1, <2>2, <2>3 DEF Scalars, Stages
<1>10. ASSUME Begin PROVE Scalars'
  BY <1>10 DEF Scalars, Begin, Stages, writerVars, linkVars
<1>11. ASSUME NoMessage PROVE Scalars'
  BY <1>11 DEF Scalars, NoMessage, Stages, writerVars, linkVars
<1>12. ASSUME ReadFirst PROVE Scalars'
  BY <1>12 DEF Scalars, ReadFirst, Reads, Stages, writerVars
<1>13. ASSUME ReadInvalid PROVE Scalars'
  BY <1>13 DEF Scalars, ReadInvalid, Closes, Stages, writerVars
<1>14. ASSUME ReadLength PROVE Scalars'
  BY <1>14 DEF Scalars, ReadLength, Reads, Stages, writerVars
<1>15. ASSUME ReadHeader PROVE Scalars'
  BY <1>15 DEF Scalars, ReadHeader, Stages, writerVars, linkVars
<1>16. ASSUME ReadTopicLength PROVE Scalars'
  BY <1>16 DEF Scalars, ReadTopicLength, Reads, Stages, writerVars
<1>17. ASSUME TooBig PROVE Scalars'
  BY <1>17 DEF Scalars, TooBig, Closes, Stages, writerVars
<1>18. ASSUME ReadRest PROVE Scalars'
  BY <1>18 DEF Scalars, ReadRest, Reads, Delivers, Stages, writerVars
<1>19. ASSUME ReadMalformed PROVE Scalars'
  BY <1>19 DEF Scalars, ReadMalformed, Closes, Stages, writerVars
<1>20. ASSUME ReadPayload PROVE Scalars'
  BY <1>20 DEF Scalars, ReadPayload, Reads, Stages, writerVars
<1>21. ASSUME TimesOut PROVE Scalars'
  BY <1>21 DEF Scalars, TimesOut, Stages, writerVars, linkVars
<1>22. ASSUME Stalls PROVE Scalars'
  <2>1. faults' \in 0 .. MaxFaults
    BY <1>22 DEF Scalars, Stalls
  <2>2. calls' = calls /\ total' = total /\ offset' = offset
    BY <1>22 DEF Stalls, writerVars
  <2>3. online' = FALSE /\ at' = "closed" /\ cut' = FALSE
    BY <1>22 DEF Stalls, Closes
  <2> QED BY <2>1, <2>2, <2>3 DEF Scalars, Stages
<1>23. ASSUME PayloadStalls PROVE Scalars'
  BY <1>23 DEF Scalars, PayloadStalls, Stages, writerVars
<1> QED
  BY <1>1, <1>2, <1>3, <1>4, <1>5, <1>6, <1>7, <1>8, <1>9, <1>10, <1>11, <1>12, <1>13,
     <1>14, <1>15, <1>16, <1>17, <1>18, <1>19, <1>20, <1>21, <1>22, <1>23
  DEF Next, Writer, Reader

\* What is left in fragmented_msg_data_offset does not exceed the header of a
\* message that fits, nor that and what a CONNECT takes from it when there is
\* no connection yet.
Offsets ==
  \A q \in Plan :
    q[1] = "publish" /\ Fits(q[2]) =>
      offset <= HeaderSize + Len(VariableHeader(q[2]))
                + (IF online THEN 0 ELSE HeaderSize - 1 - 1)

\* The variable header of what is published has a length.
LEMMA PublishedIs ==
  ASSUME NEW q \in Plan, q[1] = "publish"
  PROVE  Len(VariableHeader(q[2])) \in Nat
<1>1. q \in {"publish", "enqueue", "discard"} \X Publications \/ q \in {"write"} \X Others
  BY PlanAssumption
<1>2. q[2] \in Publications
  BY <1>1
<1>3. q[2] \in Messages /\ q[2].type = "PUBLISH"
  BY <1>2 DEF Messages, Publications
<1> QED BY <1>3, PublishBody

\* The offset only goes down, or is that of a message that does not fit.
LEMMA OffsetsDown ==
  ASSUME Scalars, Scalars', Offsets, offset' <= offset, online' => online
  PROVE  Offsets'
<1>1. SUFFICES ASSUME NEW q \in Plan, q[1] = "publish", Fits(q[2])
               PROVE  offset' <= HeaderSize + Len(VariableHeader(q[2]))
                                 + (IF online' THEN 0 ELSE HeaderSize - 1 - 1)
  BY DEF Offsets
<1> DEFINE h == Len(VariableHeader(q[2]))
<1>2. h \in Nat
  BY <1>1, PublishedIs
<1>3. offset <= HeaderSize + h + (IF online THEN 0 ELSE HeaderSize - 1 - 1)
  BY <1>1 DEF Offsets
<1> HIDE DEF h
<1>4. offset \in Int /\ offset' \in Int /\ online \in BOOLEAN /\ online' \in BOOLEAN
  BY DEF Scalars
<1>5. offset' <= HeaderSize + h + (IF online' THEN 0 ELSE HeaderSize - 1 - 1)
  BY <1>2, <1>3, <1>4 DEF HeaderSize
<1> QED BY <1>5 DEF h

\* No step leaves an offset behind that would harm a message that fits.
LEMMA OffsetsStep ==
  ASSUME OffsetsHarmless, Scalars, Scalars', Offsets, [Next]_vars
  PROVE  Offsets'
<1>0. offset \in Int /\ offset' \in Int
  BY DEF Scalars
<1>a. ASSUME NEW m \in Messages,
             (<<"publish", m>> \in Plan /\ ~online) \/ <<"enqueue", m>> \in Plan,
             HeaderSize + Len(VariableHeader(m)) <= OutBuffer,
             offset' = PublishMessage(m, offset).offset, online' = online
      PROVE  Offsets'
  <2>1. m.type = "PUBLISH"
    BY <1>a, CallIs
  <2>2. CASE Fits(m)
    <3>1. offset' <= offset
      BY <1>a, <1>0, <2>1, <2>2, OffsetAfter
    <3> QED BY <1>a, <3>1, OffsetsDown
  <2>3. CASE ~Fits(m)
    <3>1. offset' = LeftOffset(m)
      BY <1>a, <1>0, <2>1, <2>3, OffsetAfter
    <3>2. SUFFICES ASSUME NEW q \in Plan, q[1] = "publish", Fits(q[2])
                   PROVE  offset' <= HeaderSize + Len(VariableHeader(q[2]))
                                     + (IF online' THEN 0 ELSE HeaderSize - 1 - 1)
      BY DEF Offsets
    <3> DEFINE h == Len(VariableHeader(q[2]))
    <3>3. h \in Nat
      BY <3>2, PublishedIs
    <3>4. CASE <<"publish", m>> \in Plan /\ ~online
      <4>1. LeftOffset(m) - (HeaderSize - 1 - 1) <= HeaderSize + h
        BY <3>2, <3>4, <2>3 DEF OffsetsHarmless
      <4>2. ~online'
        BY <1>a, <3>4
      <4> HIDE DEF h
      <4>3. offset' <= HeaderSize + h + (HeaderSize - 1 - 1)
        BY <1>0, <3>1, <3>3, <4>1 DEF HeaderSize
      <4> QED BY <4>2, <4>3 DEF h
    <3>5. CASE <<"enqueue", m>> \in Plan
      <4>1. LeftOffset(m) - 0 <= HeaderSize + h
        BY <3>2, <3>5, <2>3 DEF OffsetsHarmless
      <4> HIDE DEF h
      <4>2. offset' <= HeaderSize + h + (IF online' THEN 0 ELSE HeaderSize - 1 - 1)
        BY <1>0, <3>1, <3>3, <4>1 DEF HeaderSize
      <4> QED BY <4>2 DEF h
    <3> QED BY <1>a, <3>4, <3>5
  <2> QED BY <2>2, <2>3
<1>1. ASSUME UNCHANGED <<offset, online>> PROVE Offsets'
  BY <1>1, <1>0, OffsetsDown
<1>2. ASSUME NEW m \in Messages, PublishOnline(m) PROVE Offsets'
  <2>1. SUFFICES ASSUME NEW q \in Plan, q[1] = "publish", Fits(q[2])
                 PROVE  offset' <= HeaderSize + Len(VariableHeader(q[2]))
                                   + (IF online' THEN 0 ELSE HeaderSize - 1 - 1)
    BY DEF Offsets
  <2> DEFINE h == Len(VariableHeader(q[2]))
  <2>2. h \in Nat
    BY <2>1, PublishedIs
  <2>3. offset' = 0
    BY <1>2 DEF PublishOnline
  <2> HIDE DEF h
  <2>4. offset' <= HeaderSize + h + (IF online' THEN 0 ELSE HeaderSize - 1 - 1)
    BY <2>2, <2>3 DEF HeaderSize
  <2> QED BY <2>4 DEF h
<1>3. ASSUME NEW m \in Messages, PublishOffline(m) PROVE Offsets'
  BY <1>3, <1>a DEF PublishOffline, Calling, Made, linkVars
<1>4. ASSUME NEW m \in Messages, Enqueue(m) PROVE Offsets'
  <2>1. <<"enqueue", m>> \in Plan /\ online' = online
    BY <1>4 DEF Enqueue, Calling, linkVars
  <2>2. /\ HeaderSize + Len(VariableHeader(m)) <= OutBuffer
        /\ offset' = PublishMessage(m, offset).offset
    BY <1>4 DEF Enqueue, Made
  <2> QED BY <2>1, <2>2, <1>a
<1>5. ASSUME NEW m \in Messages, Discard(m) PROVE Offsets'
  <2>1. <<"discard", m>> \in Plan
    BY <1>5 DEF Discard, Calling
  <2>2. Fits(m)
    BY <2>1 DEF OffsetsHarmless
  <2>3. offset' <= offset /\ online' = online
    BY <1>5, <1>0, <2>1, <2>2, CallIs, OffsetAfter DEF Discard, Made, linkVars
  <2> QED BY <2>3, OffsetsDown
<1>6. ASSUME NEW m \in Messages, WriteOther(m) PROVE Offsets'
  <2>1. <<"write", m>> \in Plan
    BY <1>6 DEF WriteOther, Calling
  <2>2. offset' = offset - (HeaderSize - 1 - LengthBytes(Len(Body(m))))
    BY <1>6, <2>1, CallIs, OtherIs DEF WriteOther, Scalars, Outbound
  <2>3. LengthBytes(Len(Body(m))) \in 1 .. 4
    BY PacketIs
  <2>4. offset' <= offset /\ online' = online
    BY <1>6, <1>0, <2>2, <2>3 DEF WriteOther, HeaderSize
  <2> QED BY <2>4, OffsetsDown
<1>7. ASSUME Connect PROVE Offsets'
  <2>1. SUFFICES ASSUME NEW q \in Plan, q[1] = "publish", Fits(q[2])
                 PROVE  offset' <= HeaderSize + Len(VariableHeader(q[2]))
                                   + (IF online' THEN 0 ELSE HeaderSize - 1 - 1)
    BY DEF Offsets
  <2> DEFINE h == Len(VariableHeader(q[2]))
  <2>2. h \in Nat
    BY <2>1, PublishedIs
  <2>3. /\ ~online /\ online' = TRUE /\ offset' = offset - (HeaderSize - 1 - 1)
        /\ offset <= HeaderSize + h + (IF online THEN 0 ELSE HeaderSize - 1 - 1)
    BY <1>7, <2>1 DEF Connect, Offsets
  <2> HIDE DEF h
  <2>4. offset' <= HeaderSize + h + (IF online' THEN 0 ELSE HeaderSize - 1 - 1)
    BY <1>0, <2>2, <2>3 DEF HeaderSize
  <2> QED BY <2>4 DEF h
<1>8. ASSUME offset' = offset, online' = FALSE PROVE Offsets'
  BY <1>8, <1>0, OffsetsDown
<1>9. ASSUME Lose \/ Reader PROVE Offsets'
  <2>1. UNCHANGED <<offset, online>> \/ (offset' = offset /\ online' = FALSE)
    <3>1. ASSUME Closes, UNCHANGED writerVars PROVE offset' = offset /\ online' = FALSE
      BY <3>1 DEF Closes, writerVars
    <3>2. ASSUME UNCHANGED linkVars, UNCHANGED writerVars
          PROVE  UNCHANGED <<offset, online>>
      BY <3>2 DEF linkVars, writerVars
    <3>3. ASSUME NEW b, Reads(b) PROVE UNCHANGED <<offset, online>>
      BY <3>3 DEF Reads, writerVars
    <3>4. CASE Lose
      BY <3>4, <3>1 DEF Lose
    <3>5. CASE Begin \/ NoMessage \/ ReadHeader \/ TimesOut
      BY <3>5, <3>2 DEF Begin, NoMessage, ReadHeader, TimesOut
    <3>6. CASE ReadFirst \/ ReadLength \/ ReadTopicLength \/ ReadPayload
      BY <3>6, <3>3 DEF ReadFirst, ReadLength, ReadTopicLength, ReadPayload
    <3>7. CASE ReadInvalid \/ TooBig \/ ReadMalformed \/ Stalls
      BY <3>7, <3>1 DEF ReadInvalid, TooBig, ReadMalformed, Stalls
    <3>8. CASE ReadRest
      BY <3>8, <3>3 DEF ReadRest, writerVars
    <3>9. CASE PayloadStalls
      BY <3>9 DEF PayloadStalls, writerVars
    <3> QED BY <1>9, <3>4, <3>5, <3>6, <3>7, <3>8, <3>9 DEF Reader
  <2> QED BY <2>1, <1>1, <1>8
<1>10. ASSUME Resend PROVE Offsets'
  BY <1>10, <1>1 DEF Resend
<1>11. ASSUME UNCHANGED vars PROVE Offsets'
  BY <1>11, <1>1 DEF vars, writerVars, linkVars
<1> QED
  BY <1>2, <1>3, <1>4, <1>5, <1>6, <1>7, <1>9, <1>10, <1>11 DEF Next, Writer

\* What waits in the outbox is the packet of its message.
Items == {[message |-> m, bytes |-> Packet(m)] : m \in Messages}

Queue == outbox \in Seq(Items)

\* What every step leaves in the outbox are whole packets.
LEMMA QueueStep ==
  ASSUME Scalars, Queue, [Next]_vars
  PROVE  Queue'
<1>1. ASSUME outbox' = outbox PROVE Queue'
  BY <1>1 DEF Queue
<1>2. ASSUME NEW m, <<"publish", m>> \in Plan \/ <<"enqueue", m>> \in Plan,
             HeaderSize + Len(VariableHeader(m)) <= OutBuffer,
             outbox' = Append(outbox, Kept(m, PublishMessage(m, offset)))
      PROVE  Queue'
  <2>1. m \in Messages /\ m.type = "PUBLISH" /\ offset \in Int
    BY <1>2, CallIs DEF Scalars
  <2>2. Kept(m, PublishMessage(m, offset)) \in Items
    BY <1>2, <2>1, KeptIs DEF Items
  <2> QED BY <1>2, <2>2, AppendProperties DEF Queue
<1>3. ASSUME NEW m \in Messages, PublishOnline(m) \/ Discard(m) \/ WriteOther(m)
      PROVE  Queue'
  BY <1>3, <1>1 DEF PublishOnline, Discard, WriteOther
<1>4. ASSUME NEW m \in Messages, PublishOffline(m) PROVE Queue'
  BY <1>4, <1>1, <1>2 DEF PublishOffline, Calling, Made
<1>5. ASSUME NEW m \in Messages, Enqueue(m) PROVE Queue'
  BY <1>5, <1>2 DEF Enqueue, Calling, Made
<1>6. ASSUME Resend PROVE Queue'
  BY <1>6, HeadTailProperties DEF Resend, Queue
<1>7. ASSUME Connect \/ Lose \/ UNCHANGED vars PROVE Queue'
  BY <1>7, <1>1 DEF Connect, Lose, vars, writerVars
<1>8. ASSUME Reader PROVE Queue'
  BY <1>8, <1>1
  DEF Reader, Begin, NoMessage, ReadFirst, ReadInvalid, ReadLength, ReadHeader,
      ReadTopicLength, TooBig, ReadRest, ReadMalformed, ReadPayload, TimesOut, Stalls,
      PayloadStalls, Reads, writerVars
<1> QED BY <1>3, <1>4, <1>5, <1>6, <1>7, <1>8 DEF Next, Writer

\* A writer writes packets, whole and in order.
LEMMA WriterIs ==
  ASSUME Scalars, Offsets, Queue, Writer
  PROVE  /\ UNCHANGED <<online, got, cut, readerVars>>
         /\ \/ UNCHANGED <<wire, sent>>
            \/ /\ online
               /\ \E m \in Messages : /\ wire' = wire \o Packet(m)
                                      /\ sent' = Append(sent, m)
<1>1. ASSUME NEW m \in Messages, PublishOnline(m)
      PROVE  /\ UNCHANGED <<online, got, cut, readerVars>> /\ online
             /\ wire' = wire \o Packet(m) /\ sent' = Append(sent, m)
  <2>1. /\ <<"publish", m>> \in Plan /\ online
        /\ HeaderSize + Len(VariableHeader(m)) <= OutBuffer
        /\ wire' = wire \o Written(m, PublishMessage(m, offset))
    BY <1>1 DEF PublishOnline, Calling, Made
  <2>2. m.type = "PUBLISH" /\ offset \in Int
    BY <2>1, CallIs DEF Scalars
  <2>3. ASSUME Fits(m) PROVE offset <= HeaderSize + Len(VariableHeader(m))
    <3> DEFINE q == <<"publish", m>>
    <3>1. q \in Plan /\ q[1] = "publish" /\ q[2] = m
      BY <2>1
    <3>2. Len(VariableHeader(m)) \in Nat
      BY <2>2, PublishBody
    <3>3. offset <= HeaderSize + Len(VariableHeader(m)) + 0
      BY <3>1, <2>1, <2>3 DEF Offsets
    <3> QED BY <3>2, <3>3 DEF HeaderSize
  <2>4. Written(m, PublishMessage(m, offset)) = Packet(m)
    BY <2>1, <2>2, <2>3, WrittenIs
  <2> QED BY <1>1, <2>1, <2>4 DEF PublishOnline
<1>2. ASSUME NEW m \in Messages, PublishOffline(m) \/ Enqueue(m) \/ Discard(m)
      PROVE  UNCHANGED <<online, got, cut, readerVars>> /\ UNCHANGED <<wire, sent>>
  BY <1>2 DEF PublishOffline, Enqueue, Discard, linkVars
<1>3. ASSUME NEW m \in Messages, WriteOther(m)
      PROVE  /\ UNCHANGED <<online, got, cut, readerVars>> /\ online
             /\ wire' = wire \o Packet(m) /\ sent' = Append(sent, m)
  <2>1. /\ <<"write", m>> \in Plan /\ online
        /\ wire' = wire \o OtherMessage(m, 0, offset).bytes
    BY <1>3 DEF WriteOther, Calling, Scalars
  <2>2. OtherMessage(m, 0, offset).bytes = Packet(m)
    BY <2>1, CallIs, OtherIs DEF Outbound
  <2> QED BY <1>3, <2>1, <2>2 DEF WriteOther
<1>4. ASSUME Resend
      PROVE  /\ UNCHANGED <<online, got, cut, readerVars>> /\ online
             /\ \E m \in Messages : wire' = wire \o Packet(m) /\ sent' = Append(sent, m)
  <2>1. Head(outbox) \in Items
    BY <1>4, HeadTailProperties DEF Resend, Queue
  <2>2. PICK m \in Messages : Head(outbox) = [message |-> m, bytes |-> Packet(m)]
    BY <2>1 DEF Items
  <2>3. Head(outbox).message = m /\ Head(outbox).bytes = Packet(m)
    BY <2>2
  <2> QED BY <1>4, <2>3 DEF Resend
<1> QED BY <1>1, <1>2, <1>3, <1>4 DEF Writer

\* A read takes a beginning of what is on the connection.
LEMMA BytesIs ==
  ASSUME wire \in Seq(Byte), NEW n, NEW b \in Bytes(n)
  PROVE  /\ b \in Seq(Byte) /\ Len(b) >= 1 /\ Len(b) \in Nat /\ Len(b) <= n
         /\ Len(b) <= Len(wire)
         /\ SubSeq(wire, Len(b) + 1, Len(wire)) \in Seq(Byte)
         /\ b \o SubSeq(wire, Len(b) + 1, Len(wire)) = wire
<1>1. PICK k \in (1 .. n) \cap (1 .. Len(wire)) : b = SubSeq(wire, 1, k)
  BY DEF Bytes
<1>2. k \in 0 .. Len(wire) /\ k >= 1 /\ k \in 1 .. n
  BY <1>1
<1>3. /\ SubSeq(wire, 1, k) \in Seq(Byte) /\ Len(SubSeq(wire, 1, k)) = k
      /\ SubSeq(wire, k + 1, Len(wire)) \in Seq(Byte)
      /\ SubSeq(wire, 1, k) \o SubSeq(wire, k + 1, Len(wire)) = wire
  BY <1>2, Split
<1>4. Len(b) = k
  BY <1>1, <1>3
<1>5. k \in Nat /\ k <= n
  BY <1>2
<1> QED BY <1>1, <1>2, <1>3, <1>4, <1>5

\* The types of what is on the connection and of what the reader has of it, and
\* nothing is there without a connection.
Streams ==
  /\ wire \in Seq(Byte) /\ buf \in Seq(Byte) /\ sent \in Seq(Messages)
  /\ before \in Nat /\ rest \in Int
  /\ at \in {"length", "header", "topic", "rest", "large"} => buf # <<>>
  /\ ~online => wire = <<>> /\ sent = <<>> /\ got = <<>> /\ cut = FALSE

\* Every variable that holds bytes or messages keeps its type.
LEMMA StreamsStep ==
  ASSUME Scalars, Offsets, Queue, Streams, [Next]_vars
  PROVE  Streams'
<1>1. ASSUME Writer PROVE Streams'
  <2>1. UNCHANGED <<online, got, cut, buf, at, before, rest>>
    BY <1>1, WriterIs DEF readerVars
  <2>2. CASE UNCHANGED <<wire, sent>>
    BY <2>1, <2>2 DEF Streams
  <2>3. ASSUME online, NEW m \in Messages, wire' = wire \o Packet(m),
               sent' = Append(sent, m)
        PROVE  Streams'
    <3>1. Packet(m) \in Seq(Byte)
      BY PacketIs
    <3>2. wire' \in Seq(Byte)
      BY <2>3, <3>1, ConcatProperties DEF Streams
    <3>3. sent' \in Seq(Messages)
      BY <2>3, AppendProperties DEF Streams
    <3> QED BY <2>1, <2>3, <3>2, <3>3 DEF Streams
  <2> QED BY <1>1, <2>2, <2>3, WriterIs
<1>2. ASSUME Connect PROVE Streams'
  BY <1>2 DEF Connect, Streams
<1>3. ASSUME Closes, UNCHANGED <<buf, before, rest>> PROVE Streams'
  BY <1>3 DEF Closes, Streams
<1>4. ASSUME UNCHANGED <<wire, sent, buf, got, cut, online, rest>>, before' \in Nat,
             buf # <<>> \/ at' \in {"first", "idle"}
      PROVE  Streams'
  BY <1>4 DEF Streams
<1>5. ASSUME NEW b, b \in Seq(Byte), wire' \in Seq(Byte), sent' = sent, buf' = b, online,
             online' = online, before' = before, rest' \in Int,
             b # <<>> \/ at' \in {"idle", "payload"}
      PROVE  Streams'
  BY <1>5 DEF Streams
<1>7. at # "closed" => online
  BY DEF Scalars
<1>8. ASSUME NEW n, NEW b \in Bytes(n), Reads(b)
      PROVE  /\ b \in Seq(Byte) /\ buf \o b \in Seq(Byte)
             /\ b # <<>> /\ buf \o b # <<>> /\ Len(b) \in Nat
             /\ wire' \in Seq(Byte) /\ sent' = sent /\ online' = online
  <2>1. /\ b \in Seq(Byte) /\ Len(b) >= 1 /\ Len(b) \in Nat
        /\ SubSeq(wire, Len(b) + 1, Len(wire)) \in Seq(Byte)
    BY <1>8, BytesIs DEF Streams
  <2>2. buf \o b \in Seq(Byte) /\ Len(buf \o b) = Len(buf) + Len(b) /\ Len(buf) \in Nat
    BY <2>1, ConcatProperties DEF Streams
  <2>3. b # <<>> /\ buf \o b # <<>>
    BY <2>1, <2>2
  <2> QED BY <1>8, <2>1, <2>2, <2>3 DEF Reads
<1>9. ASSUME NEW b \in Seq(Byte), b # <<>> PROVE TotalLength(b) - Len(b) \in Int
  BY <1>9, TotalLengthType
<1>10. ASSUME NEW b \in Seq(Byte), b # <<>>, Delivers(b), online, online' = online,
              wire' \in Seq(Byte), sent' = sent, before' = before
       PROVE  Streams'
  <2>1. rest' \in Int /\ buf' = <<>> /\ at' \in {"idle", "payload"}
    BY <1>10, <1>9 DEF Delivers
  <2>2. <<>> \in Seq(Byte)
    OBVIOUS
  <2> QED BY <1>10, <2>1, <2>2, <1>5
<1>11. CASE Lose
  BY <1>11, <1>3 DEF Lose
<1>12. CASE Begin
  <2> before' \in Nat /\ (buf # <<>> \/ at' \in {"first", "idle"})
    BY <1>12 DEF Begin, Streams
  <2> QED BY <1>12, <1>4 DEF Begin, linkVars
<1>13. CASE NoMessage \/ ReadHeader \/ TimesOut
  <2> before' \in Nat /\ (buf # <<>> \/ at' \in {"first", "idle"})
    BY <1>13 DEF NoMessage, ReadHeader, TimesOut, Streams
  <2> QED BY <1>13, <1>4 DEF NoMessage, ReadHeader, TimesOut, linkVars
<1>14. CASE ReadFirst
  <2>1. PICK b \in Bytes(1) : Reads(b) /\ buf' = b
    BY <1>14 DEF ReadFirst
  <2>2. before' = before /\ rest' \in Int /\ online
    BY <1>14, <1>7 DEF ReadFirst, Streams
  <2> QED BY <2>1, <2>2, <1>5, <1>8
<1>15. CASE ReadInvalid \/ TooBig \/ ReadMalformed \/ Stalls
  BY <1>15, <1>3 DEF ReadInvalid, TooBig, ReadMalformed, Stalls
<1>16. CASE ReadLength
  <2>1. PICK b \in Bytes(1) : Reads(b) /\ buf' = buf \o b
    BY <1>16 DEF ReadLength
  <2>2. before' = before /\ rest' \in Int /\ online
    BY <1>16, <1>7 DEF ReadLength, Streams
  <2> QED BY <2>1, <2>2, <1>5, <1>8
<1>17. CASE ReadTopicLength
  <2>1. PICK b \in Bytes(Len(buf) - FixedLength(buf) + 2) : Reads(b) /\ buf' = buf \o b
    BY <1>17 DEF ReadTopicLength
  <2>2. before' = before /\ rest' \in Int /\ online
    BY <1>17, <1>7 DEF ReadTopicLength, Streams
  <2> QED BY <2>1, <2>2, <1>5, <1>8
<1>18. CASE ReadRest
  <2>1. online /\ before' = before /\ rest \in Int /\ buf # <<>>
    BY <1>18, <1>7 DEF ReadRest, Streams
  <2>2. CASE Len(buf) >= Wanted /\ Delivers(buf) /\ UNCHANGED <<online, wire, sent>>
    BY <2>1, <2>2, <1>10 DEF Streams
  <2>3. ASSUME NEW b \in Bytes(Wanted - Len(buf)), Reads(b),
               buf' = buf \o b, UNCHANGED rest
        PROVE  Streams'
    BY <2>1, <2>3, <1>5, <1>8
  <2>4. ASSUME NEW b \in Bytes(Wanted - Len(buf)), Reads(b), Delivers(buf \o b)
        PROVE  Streams'
    BY <2>1, <2>4, <1>8, <1>10
  <2> QED BY <1>18, <2>2, <2>3, <2>4 DEF ReadRest
<1>19. CASE ReadPayload
  <2>1. PICK n : \E b \in Bytes(n) : Reads(b) /\ rest' = rest - Len(b)
    BY <1>19 DEF ReadPayload
  <2>4. PICK b \in Bytes(n) : Reads(b) /\ rest' = rest - Len(b)
    BY <2>1
  <2>2. before' = before /\ buf' = buf /\ online /\ buf \in Seq(Byte) /\ rest \in Int
    BY <1>19, <1>7 DEF ReadPayload, Streams
  <2>3. rest' \in Int /\ at' \in {"idle", "payload"}
    BY <1>19, <2>4, <2>2, <1>8 DEF ReadPayload
  <2> QED BY <2>4, <2>2, <2>3, <1>5, <1>8
<1>20. CASE PayloadStalls
  BY <1>20, <1>7 DEF PayloadStalls, Streams
<1>21. CASE UNCHANGED vars
  BY <1>21 DEF vars, readerVars, linkVars, Streams
<1> QED
  BY <1>1, <1>2, <1>11, <1>12, <1>13, <1>14, <1>15, <1>16, <1>17, <1>18, <1>19, <1>20,
     <1>21 DEF Next, Reader

-----------------------------------------------------------------------------
(* The stream of packets *)

\* The packets written and not delivered, and their bytes
Undelivered(s, g) == [i \in 1 .. Len(s) - Len(g) |-> Packet(s[Len(g) + i])]
Stream(s, g) == FlattenSeq(Undelivered(s, g))

PacketsIn(W) == \A m \in Messages : Packet(m) \in W

\* The packets from the first that is not delivered on.
LEMMA UndeliveredIs ==
  ASSUME NEW W, PacketsIn(W), NEW s \in Seq(Messages), NEW n \in Nat, n <= Len(s),
         NEW g, Len(g) = n
  PROVE  /\ Undelivered(s, g) \in Seq(W) /\ Len(Undelivered(s, g)) = Len(s) - n
         /\ \A i \in 1 .. Len(s) - n : Undelivered(s, g)[i] = Packet(s[n + i])
<1> DEFINE c == Len(s) - n
           u == Undelivered(s, g)
<1>1. c \in Nat /\ Len(s) \in Nat /\ Len(s) = n + c
  OBVIOUS
<1>2. u = [i \in 1 .. c |-> Packet(s[n + i])]
  BY DEF Undelivered
<1> HIDE DEF c, u
<1>3. ASSUME NEW i \in 1 .. c PROVE Packet(s[n + i]) \in W
  <2>1. n + i \in 1 .. Len(s)
    BY <1>1
  <2>2. s[n + i] \in Messages
    BY <2>1, ElementOfSeq
  <2> QED BY <2>2 DEF PacketsIn
<1>4. u \in Seq(W) /\ Len(u) = c /\ \A i \in 1 .. c : u[i] = Packet(s[n + i])
  BY <1>1, <1>2, <1>3
<1> QED BY <1>4 DEF c, u

\* The bytes of the packets not delivered are in W when the packets are.
LEMMA StreamTypeW ==
  ASSUME NEW W, PacketsIn(W), Sequences(W), NEW s \in Seq(Messages), NEW n \in Nat,
         n <= Len(s), NEW g, Len(g) = n
  PROVE  Stream(s, g) \in W
  BY UndeliveredIs, FlattenSeqType DEF Stream

\* One more message written adds its packet at the end of the stream.
LEMMA StreamAppendW ==
  ASSUME NEW W, PacketsIn(W), Sequences(W), NEW s \in Seq(Messages), NEW n \in Nat,
         n <= Len(s), NEW g, Len(g) = n, NEW m \in Messages
  PROVE  Stream(Append(s, m), g) = Stream(s, g) \o Packet(m)
<1> DEFINE t == Append(s, m)
           u == Undelivered(s, g)
           v == Undelivered(t, g)
           p == Packet(m)
           w == Append(u, p)
<1>0. Len(s) \in Nat /\ p \in W
  BY DEF PacketsIn
<1>1. /\ t \in Seq(Messages) /\ Len(t) = Len(s) + 1 /\ n <= Len(t)
      /\ \A i \in 1 .. Len(s) : t[i] = s[i]
  BY <1>0, AppendProperties
<1>2. t[Len(s) + 1] = m
  BY <1>0, AppendProperties
<1> HIDE DEF t, p
<1>3. /\ u \in Seq(W) /\ Len(u) = Len(s) - n
      /\ \A i \in 1 .. Len(s) - n : u[i] = Packet(s[n + i])
  BY UndeliveredIs
<1>4. /\ v \in Seq(W) /\ Len(v) = Len(t) - n
      /\ \A i \in 1 .. Len(t) - n : v[i] = Packet(t[n + i])
  <2>1. t \in Seq(Messages) /\ n <= Len(t)
    BY <1>1
  <2> QED BY <2>1, UndeliveredIs
<1> HIDE DEF u, v
<1>5. /\ w \in Seq(W) /\ Len(w) = Len(u) + 1 /\ w[Len(u) + 1] = p
      /\ \A i \in 1 .. Len(u) : w[i] = u[i]
  BY <1>0, <1>3, AppendProperties
<1> HIDE DEF w
<1>6. ASSUME NEW i \in 1 .. Len(v) PROVE v[i] = w[i]
  <2>1. CASE i = Len(v)
    <3>1. /\ i = Len(u) + 1 /\ n + i = Len(s) + 1 /\ i \in 1 .. Len(t) - n
      BY <2>1, <1>0, <1>1, <1>3, <1>4
    <3> QED BY <3>1, <1>2, <1>4, <1>5 DEF p
  <2>2. CASE i # Len(v)
    <3>0. /\ Len(v) = Len(u) + 1 /\ Len(u) = Len(s) - n /\ Len(t) = Len(s) + 1
          /\ Len(u) \in Nat
      BY <1>0, <1>1, <1>3, <1>4
    <3>1. /\ i \in 1 .. Len(u) /\ i \in 1 .. Len(s) - n /\ i \in 1 .. Len(t) - n
          /\ n + i \in 1 .. Len(s)
      BY <2>2, <1>0, <3>0
    <3> QED BY <3>1, <1>1, <1>3, <1>4, <1>5
  <2> QED BY <2>1, <2>2
<1>7. v = w
  <2>1. Len(v) = Len(w)
    BY <1>0, <1>1, <1>3, <1>4, <1>5
  <2> QED BY <2>1, <1>4, <1>5, <1>6, SeqEqual
<1>8. FlattenSeq(w) = FlattenSeq(u) \o p
  BY <1>0, <1>3, FlattenSeqAppend DEF w
<1> QED BY <1>7, <1>8 DEF Stream, t, u, v, p

\* One more message delivered takes its packet from the beginning of the
\* stream.
LEMMA StreamHeadW ==
  ASSUME NEW W, PacketsIn(W), Sequences(W), NEW s \in Seq(Messages), NEW n \in Nat,
         n < Len(s), NEW g, Len(g) = n, NEW h, Len(h) = n + 1
  PROVE  Stream(s, g) = Packet(s[n + 1]) \o Stream(s, h)
<1> DEFINE u == Undelivered(s, g)
           v == Undelivered(s, h)
           t == Tail(u)
<1>0. Len(s) \in Nat /\ n <= Len(s) /\ n + 1 \in Nat /\ n + 1 <= Len(s)
  OBVIOUS
<1>1. /\ u \in Seq(W) /\ Len(u) = Len(s) - n
      /\ \A i \in 1 .. Len(s) - n : u[i] = Packet(s[n + i])
  BY <1>0, UndeliveredIs
<1>2. /\ v \in Seq(W) /\ Len(v) = Len(s) - (n + 1)
      /\ \A i \in 1 .. Len(s) - (n + 1) : v[i] = Packet(s[(n + 1) + i])
  BY <1>0, UndeliveredIs
<1> HIDE DEF u, v
<1>3. u # <<>>
  BY <1>0, <1>1
<1>4. /\ t \in Seq(W) /\ Len(t) = Len(u) - 1 /\ Head(u) = u[1]
      /\ \A i \in 1 .. Len(t) : t[i] = u[i + 1]
  BY <1>1, <1>3, HeadTailProperties
<1> HIDE DEF t
<1>5. ASSUME NEW i \in 1 .. Len(v) PROVE t[i] = v[i]
  <2>1. /\ i \in 1 .. Len(t) /\ i + 1 \in 1 .. Len(s) - n /\ i \in 1 .. Len(s) - (n + 1)
        /\ n + (i + 1) = (n + 1) + i
    BY <1>0, <1>1, <1>2, <1>4
  <2> QED BY <2>1, <1>1, <1>2, <1>4
<1>6. t = v
  <2>1. Len(t) = Len(v)
    BY <1>0, <1>1, <1>2, <1>4
  <2> QED BY <2>1, <1>2, <1>4, <1>5, SeqEqual
<1>7. FlattenSeq(u) = Head(u) \o FlattenSeq(t)
  BY <1>1, <1>3, FlattenSeqHead DEF t
<1>8. Head(u) = Packet(s[n + 1])
  <2> 1 \in 1 .. Len(s) - n
    BY <1>0
  <2> QED BY <1>1, <1>4
<1> QED BY <1>6, <1>7, <1>8 DEF Stream, u, v

\* Packets are sequences of bytes.
LEMMA PacketsInBytes == PacketsIn(Seq(Byte)) /\ Sequences(Seq(Byte))
<1>1. ASSUME NEW m \in Messages PROVE Packet(m) \in Seq(Byte)
  BY PacketIs
<1>2. PacketsIn(Seq(Byte))
  BY <1>1 DEF PacketsIn
<1> QED BY <1>2, SequencesOverV

\* The bytes of the packets written and not delivered: one more packet is
\* written, or the first of them is delivered.
LEMMA StreamIs ==
  ASSUME NEW s \in Seq(Messages), NEW g, Len(g) \in Nat, Len(g) <= Len(s)
  PROVE  /\ Stream(s, g) \in Seq(Byte)
         /\ \A m \in Messages : Stream(Append(s, m), g) = Stream(s, g) \o Packet(m)
         /\ Len(g) < Len(s) =>
              \A h : Len(h) = Len(g) + 1 =>
                Stream(s, g) = Packet(s[Len(g) + 1]) \o Stream(s, h)
         /\ Len(g) = Len(s) => Stream(s, g) = <<>>
<1> DEFINE W == Seq(Byte)
<1>1. PacketsIn(W) /\ Sequences(W)
  BY PacketsInBytes
<1> HIDE DEF W
<1>2. Stream(s, g) \in W
  BY <1>1, StreamTypeW
<1>3. \A m \in Messages : Stream(Append(s, m), g) = Stream(s, g) \o Packet(m)
  BY <1>1, StreamAppendW
<1>4. ASSUME Len(g) < Len(s), NEW h, Len(h) = Len(g) + 1
      PROVE  Stream(s, g) = Packet(s[Len(g) + 1]) \o Stream(s, h)
  BY <1>1, <1>4, StreamHeadW
<1>5. ASSUME Len(g) = Len(s) PROVE Stream(s, g) = <<>>
  <2>1. Undelivered(s, g) \in Seq(W) /\ Len(Undelivered(s, g)) = 0
    BY <1>1, <1>5, UndeliveredIs
  <2>2. Undelivered(s, g) = <<>>
    BY <2>1, EmptySeq
  <2> QED BY <2>2, FlattenSeqEmpty DEF Stream
<1> QED BY <1>2, <1>3, <1>4, <1>5 DEF W

-----------------------------------------------------------------------------
(* The reader *)

\* How far the reader is, in stage a, with b of the packet of m in its buffer
Begun(a, b, m) ==
  LET n == Len(Packet(m))
      k == LengthBytes(Len(Body(m)))
  IN  /\ Begins(b, Packet(m)) /\ m.type # "AUTH" /\ Len(b) <= InBuffer
      /\ a \in {"idle", "length"} => Len(b) < n
      /\ a = "length" => Len(b) < 6 /\ (Len(b) = 1 \/ b[Len(b)] >= Base)
      /\ a \in {"header", "topic", "rest", "large"} => k + 1 <= Len(b)
      /\ a = "rest" => n <= InBuffer
      /\ a \in {"topic", "large"} => n > InBuffer /\ m.type = "PUBLISH"
      /\ a = "topic" => Len(b) < k + 3
      /\ a = "large" => k + 3 <= Len(b)

\* The message being read
Current == sent[Len(got) + 1]

\* What may be delivered
Arrivals == Publications \cup Others

\* What has been delivered is what is made of what was written first.
Agree ==
  /\ got \in Seq(Arrivals) /\ Len(got) <= Len(sent)
  /\ \A i \in 1 .. Len(got) : got[i] = Received(sent[i])

\* c of the data of m, as they arrive, has been read, d has not
Halfway(m, c, d) ==
  /\ c \in Seq(Byte) /\ d \in Seq(Byte) /\ c \o d = Received(m).data
  /\ event = [Received(m) EXCEPT !.data = c]
  /\ rest = Len(d)
  /\ wire = d \o Stream(sent, Append(got, m))

\* b and w are together x
Whole(b, w, x) == b \o w = x

\* What has been read and what is on its way are the packets not delivered.
Together == Whole(buf, wire, Stream(sent, got))

\* A packet has been read in part.
Partly == Len(got) < Len(sent) /\ Begun(at, buf, Current)

\* The data of a message have been delivered in part.
Payload ==
  /\ Len(got) < Len(sent) /\ Current.type = "PUBLISH"
  /\ \E c, d \in Seq(Byte) : Halfway(Current, c, d)

\* As long as no stall has cut a message short
InSync ==
  online /\ ~cut =>
    /\ Agree
    /\ at # "payload" => Together
    /\ at \in {"first", "payload"} => buf = <<>>
    /\ buf # <<>> => Partly
    /\ at = "payload" => Payload

\* Between two packets b is what has been read and w what is on its way of p, the
\* first of the packets that have not been delivered.
LEMMA Ahead ==
  ASSUME NEW b \in Seq(Byte), NEW w \in Seq(Byte), NEW s \in Seq(Messages),
         NEW g \in Seq(Arrivals), Len(g) <= Len(s), Whole(b, w, Stream(s, g)),
         b # <<>> \/ w # <<>>
  PROVE  /\ Len(g) < Len(s) /\ s[Len(g) + 1] \in Messages
         /\ Packet(s[Len(g) + 1]) \in Seq(Byte)
         /\ Stream(s, Append(g, s[Len(g) + 1])) \in Seq(Byte)
         /\ Same(b, w, Packet(s[Len(g) + 1]), Stream(s, Append(g, s[Len(g) + 1])))
<1> DEFINE m == s[Len(g) + 1]
           h == Append(g, m)
<1>1. Len(g) \in Nat /\ Len(s) \in Nat
  OBVIOUS
<1>2. Len(g) < Len(s)
  <2>1. SUFFICES ASSUME Len(g) = Len(s) PROVE FALSE
    BY <1>1
  <2>2. b \o w = <<>>
    BY <1>1, <2>1, StreamIs DEF Whole
  <2>3. Len(b \o w) = Len(b) + Len(w) /\ Len(b) \in Nat /\ Len(w) \in Nat
    BY Joined
  <2>4. Len(b) = 0 /\ Len(w) = 0
    BY <2>2, <2>3
  <2> QED BY <2>4, EmptySeq
<1>3. m \in Messages
  <2> Len(g) + 1 \in 1 .. Len(s)
    BY <1>1, <1>2
  <2> QED BY ElementOfSeq
<1> HIDE DEF m
<1>4. h \in Seq(Arrivals) /\ Len(h) = Len(g) + 1
  BY <1>3, MessageIs, AppendProperties DEF Arrivals
<1> HIDE DEF h
<1>5. Stream(s, g) = Packet(s[Len(g) + 1]) \o Stream(s, h)
  BY <1>1, <1>2, <1>4, StreamIs, SMTT(30)
<1>6. Stream(s, h) \in Seq(Byte)
  <2> Len(h) \in Nat /\ Len(h) <= Len(s)
    BY <1>1, <1>2, <1>4
  <2> QED BY StreamIs
<1>7. Packet(m) \in Seq(Byte)
  BY <1>3, PacketIs
<1>8. Same(b, w, Packet(m), Stream(s, h))
  BY <1>5 DEF m, Same, Whole
<1> QED BY <1>2, <1>3, <1>6, <1>7, <1>8 DEF m, h

\* A length that has been read is complete.
LEMMA LengthRead ==
  ASSUME NEW m \in Messages, NEW b \in Seq(Byte), Begins(b, Packet(m)), Len(b) >= 2,
         ~LengthGoesOn(b)
  PROVE  LengthBytes(Len(Body(m))) + 1 <= Len(b)
<1> DEFINE k == LengthBytes(Len(Body(m)))
<1>1. b # <<>> /\ Len(b) \in Nat
  OBVIOUS
<1>2. k \in 1 .. 4 /\ \A i \in 2 .. k : i <= Len(b) => b[i] >= Base
  BY <1>1, PacketBegins
<1> HIDE DEF k
<1>3. ASSUME ~(k + 1 <= Len(b)) PROVE FALSE
  <2>1. Len(b) \in 2 .. k /\ Len(b) < 6
    BY <1>1, <1>2, <1>3
  <2>2. b[Len(b)] >= Base
    BY <1>1, <1>2, <2>1
  <2> QED BY <2>1, <2>2 DEF LengthGoesOn
<1> QED BY <1>3 DEF k

\* c of the packet of m has been read, and r comes after it: all that is made of
\* the message is delivered, or the rest of its data is the next on the connection.
Delivered(m, c, w, r) ==
  /\ TotalLength(c) = Len(Packet(m))
  /\ \E x, y \in Seq(Byte) :
       /\ x \o y = Received(m).data /\ Decoded(c) = [Received(m) EXCEPT !.data = x]
       /\ Len(y) = TotalLength(c) - Len(c) /\ w = y \o r
       /\ Len(y) > 0 => m.type = "PUBLISH"

\* d follows the first q of p
Follows(p, q, d) == \A i \in 1 .. Len(d) : p[q + i] = d[i]

\* What comes after a in p is what comes after j in d.
EndAlike(p, a, d, j) == SubSeq(p, a + 1, Len(p)) = SubSeq(d, j + 1, Len(d))

\* The data that come after c in a packet are the last of the data.
LEMMA DataAfter ==
  ASSUME NEW p \in Seq(Byte), NEW d \in Seq(Byte), NEW q \in Nat, NEW j \in 0 .. Len(d),
         Len(p) = q + Len(d), Follows(p, q, d)
  PROVE  EndAlike(p, q + j, d, j)
<1> DEFINE e == Len(d) - j
<1>1. /\ e \in Nat /\ j + e = Len(d) /\ q + j + e = Len(p) /\ j \in Nat /\ Len(d) \in Nat
      /\ q + j \in Nat
  OBVIOUS
<1>2. \A i \in 1 .. e : p[q + j + i] = SubSeq(d, j + 1, Len(d))[i]
  <2>1. /\ Len(SubSeq(d, j + 1, Len(d))) = e
        /\ \A i \in 1 .. e : SubSeq(d, j + 1, Len(d))[i] = d[j + i]
    <3>1. /\ j + 1 \in 1 .. Len(d) + 1 /\ Len(d) \in (j + 1) - 1 .. Len(d)
          /\ Len(d) - (j + 1) + 1 = e
      BY <1>1
    <3>2. \A i \in 1 .. e : (j + 1) + i - 1 = j + i
      BY <1>1
    <3> HIDE DEF e
    <3> QED BY <3>1, <3>2, SubSeqProperties
  <2> HIDE DEF e
  <2>2. ASSUME NEW i \in 1 .. e PROVE p[q + j + i] = SubSeq(d, j + 1, Len(d))[i]
    <3>1. j + i \in 1 .. Len(d) /\ q + j + i = q + (j + i)
      BY <1>1
    <3>2. p[q + (j + i)] = d[j + i]
      BY <3>1 DEF Follows
    <3> QED BY <3>1, <3>2, <2>1
  <2> QED BY <2>2
<1>3. /\ SubSeq(d, j + 1, Len(d)) \in Seq(Byte) /\ Len(SubSeq(d, j + 1, Len(d))) = e
  BY Split
<1> DEFINE t == SubSeq(d, j + 1, Len(d))
<1> HIDE DEF e, t
<1>4. SubSeq(p, q + j + 1, q + j + e) = SubSeq(t, 1, e)
  <2>1. t \in Seq(Byte) /\ Len(t) = e /\ \A i \in 1 .. e : p[q + j + i] = t[i]
    BY <1>2, <1>3 DEF t
  <2>2. q + j + e <= Len(p) /\ e <= Len(t)
    BY <1>1, <2>1
  <2> QED BY <2>1, <2>2, <1>1, Piece
<1>5. SubSeq(t, 1, e) = t
  BY <1>3, SubSeqAll DEF t
<1> QED BY <1>1, <1>4, <1>5 DEF t, EndAlike

\* Data cut in two is the same data.
LEMMA DataSplit ==
  ASSUME NEW d \in Seq(Byte), NEW j \in 0 .. Len(d)
  PROVE  /\ SubSeq(d, 1, j) \in Seq(Byte) /\ SubSeq(d, j + 1, Len(d)) \in Seq(Byte)
         /\ Len(SubSeq(d, j + 1, Len(d))) = Len(d) - j
         /\ SubSeq(d, 1, j) \o SubSeq(d, j + 1, Len(d)) = d
  BY Split

PublishEnds(k, h, e, n, l, j, q, s) ==
  /\ q \in Nat /\ s = q + e /\ l = q + j /\ k + 1 <= l /\ e - j = s - l
  /\ \A i \in 1 .. e : q + i = 1 + k + (h + i) /\ h + i \in 1 .. n

\* Where the data of a PUBLISH ends when l bytes of the packet are there, in
\* numbers.
LEMMA PublishEndsAt ==
  ASSUME NEW k \in 1 .. 4, NEW h \in Nat, NEW e \in Nat, NEW n, n = h + e, NEW l \in Nat,
         k + 1 + h <= l, NEW j, j = l - (k + 1 + h), NEW q, q = 1 + k + h,
         NEW s, s = 1 + k + n
  PROVE  PublishEnds(k, h, e, n, l, j, q, s)
  BY DEF PublishEnds

\* deliver_publish delivers the topic and the data that is in the buffer, and
\* has the rest of the data to read.
LEMMA DeliveryPublish ==
  ASSUME NEW m \in Messages, m.type = "PUBLISH",
         NEW n, n = Len(Body(m)), NEW k, k = LengthBytes(n),
         NEW h, h = Len(VariableHeader(m)), NEW p, p = Packet(m), NEW d, d = m.data,
         NEW c \in Seq(Byte), NEW w \in Seq(Byte), NEW r \in Seq(Byte),
         Received(m) = m, c # <<>>, Begins(c, p), After(c, p, r, w),
         k + 1 + h <= Len(c), NEW j, j = Len(c) - (k + 1 + h), NEW q, q = 1 + k + h
  PROVE  Delivered(m, c, w, r)
<1>1. h \in Nat /\ d \in Seq(Byte) /\ Len(d) \in Nat /\ n = h + Len(d)
  BY PublishBody, MessageIs
<1>2. \A i \in 1 .. Len(d) : Body(m)[h + i] = d[i]
  BY PublishBody
<1>3. k \in 1 .. 4 /\ n \in Nat /\ Len(p) = 1 + k + n /\ p \in Seq(Byte)
  BY PacketIs
<1>4. \A i \in 1 .. n : p[1 + k + i] = Body(m)[i]
  BY PacketIs
<1>5. k + 1 <= Len(c) => TotalLength(c) = 1 + k + n
  BY PacketBegins
<1> DEFINE x == SubSeq(d, 1, j)
           y == SubSeq(d, j + 1, Len(d))
<1>6. j \in 0 .. Len(d) /\ Decoded(c) = [m EXCEPT !.data = x]
  BY DecodedPublish
<1>7. x \in Seq(Byte) /\ y \in Seq(Byte) /\ Len(y) = Len(d) - j /\ x \o y = d
  <2>1. d \in Seq(Byte) /\ j \in 0 .. Len(d)
    BY <1>1, <1>6
  <2> QED BY <2>1, DataSplit
<1>8. PublishEnds(k, h, Len(d), n, Len(c), j, q, Len(p))
  <2> Len(c) \in Nat
    OBVIOUS
  <2> QED BY <1>1, <1>3, PublishEndsAt
<1>9. /\ q \in Nat /\ Len(p) = q + Len(d) /\ Len(c) = q + j /\ k + 1 <= Len(c)
      /\ Len(d) - j = Len(p) - Len(c)
  BY <1>8 DEF PublishEnds
<1>10. ASSUME NEW i \in 1 .. Len(d) PROVE p[q + i] = d[i]
  <2>1. q + i = 1 + k + (h + i) /\ h + i \in 1 .. n
    BY <1>8 DEF PublishEnds
  <2>2. p[1 + k + (h + i)] = Body(m)[h + i]
    BY <2>1, <1>4
  <2> QED BY <2>1, <2>2, <1>2
<1>11. EndAlike(p, q + j, d, j)
  <2>1. /\ p \in Seq(Byte) /\ d \in Seq(Byte) /\ q \in Nat /\ j \in 0 .. Len(d)
        /\ Len(p) = q + Len(d)
    BY <1>1, <1>3, <1>6, <1>9
  <2>2. Follows(p, q, d)
    BY <1>10 DEF Follows
  <2> QED BY <2>1, <2>2, DataAfter
<1>12. SubSeq(p, Len(c) + 1, Len(p)) = y
  BY <1>9, <1>11 DEF EndAlike
<1>13. TotalLength(c) = Len(p)
  BY <1>3, <1>5, <1>9
<1> HIDE DEF x, y
<1>14. /\ x \o y = m.data /\ Decoded(c) = [m EXCEPT !.data = x]
       /\ Len(y) = TotalLength(c) - Len(c) /\ w = y \o r
       /\ Len(y) > 0 => m.type = "PUBLISH"
  BY <1>6, <1>7, <1>9, <1>12, <1>13 DEF After
<1> QED BY <1>7, <1>13, <1>14 DEF Delivered

\* A packet with an identifier, or of one byte, is delivered as it was
\* written.
LEMMA DeliveryOther ==
  ASSUME IdentifiersFound,
         NEW m \in Messages, m.type \notin {"PUBLISH", "AUTH"},
         NEW n, n = Len(Body(m)), NEW k, k = LengthBytes(n),
         NEW p, p = Packet(m), Len(p) <= InBuffer, Received(m) = m,
         NEW w \in Seq(Byte), NEW r \in Seq(Byte),
         After(p, p, r, w)
  PROVE  Delivered(m, p, w, r)
<1>1. k \in 1 .. 4 /\ n \in Nat /\ Len(p) = 1 + k + n /\ p \in Seq(Byte) /\ n <= MaxLength
  BY PacketIs
<1>2. Begins(p, p) /\ p # <<>>
  <2>1. /\ 1 + k + n \in Nat /\ 1 + k + n <= 1 + k + n /\ 1 + k + n # 0
        /\ Len(p) = 1 + k + n
    BY <1>1
  <2>2. Len(<<>>) = 0
    OBVIOUS
  <2> QED BY <2>1, <2>2 DEF Begins
<1>3. TotalLength(p) = Len(p)
  <2>1. k + 1 <= Len(p) => TotalLength(p) = 1 + k + n
    BY <1>1, <1>2, PacketBegins
  <2> QED BY <1>1, <2>1
<1>4. m \in Others /\ m.data \in Seq(Byte)
  BY MessageIs
<1>5. Decoded(p) = m
  <2>1. m.type \in {"WITH_ID", "BARE"}
    BY <1>4 DEF Others
  <2>2. m.type = "WITH_ID" => k = 1
    <3>1. Len(p) \in Nat /\ InBuffer \in Nat
      BY <1>1, MessageAssumption
    <3> QED BY <3>1 DEF IdentifiersFound
  <2> QED BY <2>1, <2>2, DecodedOther
<1>6. SubSeq(p, Len(p) + 1, Len(p)) = <<>>
  BY <1>1, Split, EmptySeq
<1>7. m = [m EXCEPT !.data = m.data]
  BY <1>4 DEF Others
<1>8. m.data \o <<>> = m.data /\ <<>> \in Seq(Byte) /\ Len(<<>>) = 0 /\ ~(0 > 0)
  BY <1>4, ConcatEmptySeq
<1>9. Len(p) - Len(p) = 0
  BY <1>1
<1>10. \E x, y \in Seq(Byte) :
         /\ x \o y = m.data /\ Decoded(p) = [m EXCEPT !.data = x]
         /\ Len(y) = TotalLength(p) - Len(p) /\ w = y \o r
         /\ Len(y) > 0 => m.type = "PUBLISH"
  <2>1. /\ m.data \o <<>> = m.data /\ Decoded(p) = [m EXCEPT !.data = m.data]
        /\ Len(<<>>) = TotalLength(p) - Len(p) /\ w = <<>> \o r
        /\ Len(<<>>) > 0 => m.type = "PUBLISH"
    BY <1>3, <1>5, <1>6, <1>7, <1>8, <1>9 DEF After
  <2> QED BY <2>1, <1>4, <1>8
<1> QED BY <1>3, <1>10 DEF Delivered

\* What is delivered of a packet of which enough has been read
LEMMA Delivery ==
  ASSUME IdentifiersFound,
         NEW m \in Messages, m.type # "AUTH",
         NEW n, n = Len(Body(m)), NEW k, k = LengthBytes(n), NEW p, p = Packet(m),
         NEW c \in Seq(Byte), NEW w \in Seq(Byte), NEW r \in Seq(Byte),
         Received(m) = m, c # <<>>, Begins(c, p), Same(c, w, p, r),
         Len(p) <= InBuffer => Len(c) = Len(p),
         Len(p) > InBuffer =>
           /\ m.type = "PUBLISH"
           /\ k + 1 + Len(VariableHeader(m)) <= Len(c)
  PROVE  Delivered(m, c, w, r)
<1>0. p \in Seq(Byte) /\ k \in 1 .. 4 /\ n \in Nat /\ Len(p) = 1 + k + n
  BY PacketIs
<1>1. p \in Seq(Byte) /\ Len(p) \in Nat /\ Len(c) \in Nat /\ InBuffer \in Nat
  BY <1>0, MessageAssumption
<1>2. Len(c) <= Len(p)
  BY <1>1 DEF Begins
<1>3. After(c, p, r, w)
  BY <1>1, <1>2, Cut
<1>4. CASE m.type = "PUBLISH"
  <2> DEFINE h == Len(VariableHeader(m))
  <2>1. h \in Nat /\ Len(m.data) \in Nat /\ n = h + Len(m.data)
    BY <1>4, PublishBody
  <2>3. Len(c) < Len(p) => k + 1 + h <= Len(c)
    BY <1>1
  <2>4. k + 1 + h <= Len(c)
    <3> HIDE DEF h
    <3> QED BY <1>0, <1>1, <1>2, <2>1, <2>3
  <2> QED BY <1>1, <1>3, <1>4, <2>4, DeliveryPublish
<1>5. CASE m.type # "PUBLISH"
  <2>1. Len(p) <= InBuffer
    BY <1>1, <1>5
  <2>2. c = p
    BY <2>1, <1>1, BeginsAll
  <2> QED BY <1>1, <1>3, <1>5, <2>1, <2>2, DeliveryOther
<1> QED BY <1>4, <1>5

\* What is read before the end of the topic's length and after it, of a header
\* that does not fit, in numbers
TopicEnds(k, l, e) ==
  /\ k + 3 \in Nat /\ (k + 1) + 3 = (k + 3) + 1 /\ (k + 1) + 2 + l = (k + 3) + l
  /\ (k + 1) + 1 = k + 2
  /\ \A i \in 1 .. l : /\ (k + 3) + i \in 1 .. e /\ (k + 3) + i = 1 + k + (2 + i)

\* Where the topic of a PUBLISH ends, in numbers.
LEMMA TopicEndsAt ==
  ASSUME NEW k \in 1 .. 4, NEW l \in Nat, NEW e \in Nat, (k + 3) + l <= e
  PROVE  TopicEnds(k, l, e)
  BY DEF TopicEnds

\* The topic that is read of a PUBLISH, of which the topic has come.
LEMMA TopicRead ==
  ASSUME NEW m \in Messages, m.type = "PUBLISH", NEW k, k = LengthBytes(Len(Body(m))),
         NEW l, l = Len(m.topic),
         NEW b \in Seq(Byte), Begins(b, Packet(m)), (k + 3) + l <= Len(b)
  PROVE  PublishTopic(b) = m.topic
<1> DEFINE p == Packet(m)
           t == m.topic
           h == Len(VariableHeader(m))
           n == Len(Body(m))
<1>1. /\ n \in Nat /\ k \in 1 .. 4 /\ \A i \in 1 .. n : p[1 + k + i] = Body(m)[i]
  BY PacketIs
<1>2. /\ h = 2 + l + IF m.qos > 0 THEN 2 ELSE 0
      /\ \A i \in 1 .. l : VariableHeader(m)[2 + i] = t[i]
  BY VariableHeaderIs
<1>3. t \in Seq(Byte) /\ l \in Nat
  BY MessageIs
<1>4. /\ h \in Nat /\ Len(m.data) \in Nat /\ n = h + Len(m.data)
      /\ \A i \in 1 .. h : Body(m)[i] = VariableHeader(m)[i]
  BY PublishBody
<1>5. Len(b) \in Nat /\ k + 3 <= Len(b)
  <2> Len(b) \in Nat
    OBVIOUS
  <2> QED BY <1>1, <1>3
<1>6. FixedLength(b) = k + 1 /\ WordAt(b, k + 2) = l
  BY <1>5, PublishBegins
<1>7. TopicEnds(k, l, Len(b))
  BY <1>1, <1>3, <1>5, TopicEndsAt
<1>8. \A i \in 1 .. Len(b) : b[i] = p[i]
  BY DEF Begins
<1>9. ASSUME NEW i \in 1 .. l PROVE b[(k + 3) + i] = t[i]
  <2>1. (k + 3) + i \in 1 .. Len(b) /\ (k + 3) + i = 1 + k + (2 + i)
    BY <1>7 DEF TopicEnds
  <2>2. 2 + i \in 1 .. h /\ 2 + i \in 1 .. n
    <3>1. h >= 2 + l
      <4>1. PICK q \in {0, 2} : h = 2 + l + q
        BY <1>2
      <4>2. l \in Nat
        BY <1>3
      <4> HIDE DEF h
      <4> QED BY <4>1, <4>2
    <3> HIDE DEF h, n
    <3> QED BY <1>3, <1>4, <3>1
  <2>3. b[(k + 3) + i] = p[1 + k + (2 + i)]
    BY <1>8, <2>1
  <2>4. p[1 + k + (2 + i)] = Body(m)[2 + i]
    BY <1>1, <2>2
  <2> QED BY <2>2, <2>3, <2>4, <1>2, <1>4
<1>10. SubSeq(b, (k + 3) + 1, (k + 3) + l) = SubSeq(t, 1, l)
  <2> DEFINE a == k + 3
  <2>1. /\ a \in Nat /\ a + l <= Len(b) /\ l <= Len(t)
        /\ \A i \in 1 .. l : b[a + i] = t[i]
    BY <1>3, <1>7, <1>9 DEF TopicEnds
  <2> HIDE DEF a, t
  <2>2. SubSeq(b, a + 1, a + l) = SubSeq(t, 1, l)
    BY <1>3, <2>1, Piece
  <2> QED BY <2>2 DEF a
<1>11. SubSeq(t, 1, l) = t
  BY <1>3, SubSeqAll
<1> QED BY <1>6, <1>7, <1>10, <1>11 DEF PublishTopic, TopicEnds

\* What is made of a message is a message.
LEMMA ReceivedIs ==
  ASSUME NEW m \in Messages
  PROVE  /\ Received(m) \in Arrivals /\ Received(m).data \in Seq(Byte)
         /\ [Received(m) EXCEPT !.data = Received(m).data] = Received(m)
         /\ Overlong(m) =>
              \A x : [Received(m) EXCEPT !.data = x] =
                       [type |-> "PUBLISH", qos |-> m.qos, topic |-> m.topic,
                        data |-> x, id |-> 0]
         /\ Overlong(m) =>
              Received(m).data = SubSeq(Packet(m), InBuffer + 1, Len(Packet(m)))
<1>1. CASE ~Overlong(m)
  <2>1. Received(m) = m
    BY <1>1 DEF Received
  <2>2. m \in Arrivals /\ m.data \in Seq(Byte)
    BY MessageIs DEF Arrivals
  <2>3. [m EXCEPT !.data = m.data] = m
    BY <2>2 DEF Arrivals, Publications, Others
  <2> QED BY <1>1, <2>1, <2>2, <2>3
<1>2. CASE Overlong(m)
  <2> DEFINE d == SubSeq(Packet(m), InBuffer + 1, Len(Packet(m)))
  <2>1. m \in Publications /\ m.type = "PUBLISH"
    BY <1>2, MessageIs DEF Overlong
  <2>2. d \in Seq(Byte)
    <3>1. Packet(m) \in Seq(Byte) /\ InBuffer + 1 \in Nat
      <4>1. Packet(m) \in Seq(Byte)
        BY PacketIs
      <4>2. InBuffer + 1 \in Nat
        BY MessageAssumption
      <4> QED BY <4>1, <4>2
    <3>2. \A i \in InBuffer + 1 .. Len(Packet(m)) : Packet(m)[i] \in Byte
      BY <3>1, ElementOfSeq, MessageAssumption
    <3> QED BY <3>1, <3>2, SubSeqProperties
  <2> HIDE DEF d
  <2>3. Received(m) = [type |-> "PUBLISH", qos |-> m.qos, topic |-> m.topic,
                       data |-> d, id |-> 0]
    BY <1>2, <2>1 DEF Received, Publications, d
  <2>4. 0 \in 0 .. 4 * Base * Base - 1
    <3>1. Base \in Nat /\ Base >= 4
      BY MessageAssumption
    <3>2. Base * Base \in Nat /\ Base * Base >= 1
      BY <3>1
    <3> QED BY <3>1, <3>2
  <2>5. Received(m) \in Publications
    BY <2>1, <2>2, <2>3, <2>4 DEF Publications
  <2>6. Received(m) \in Arrivals /\ Received(m).data \in Seq(Byte) /\ Received(m).data = d
    BY <2>2, <2>3, <2>5 DEF Arrivals
  <2>7. \A x : [Received(m) EXCEPT !.data = x] =
                 [type |-> "PUBLISH", qos |-> m.qos, topic |-> m.topic,
                  data |-> x, id |-> 0]
    BY <2>3
  <2>8. [Received(m) EXCEPT !.data = Received(m).data] = Received(m)
    BY <2>3
  <2> QED BY <2>6, <2>7, <2>8 DEF d
<1> QED BY <1>1, <1>2

\* Of a message whose identifier does not fit in the buffer, the topic is
\* delivered, and what follows the first buffer full is taken for its data.
LEMMA DeliveryOverlong ==
  ASSUME NEW m \in Messages, m.type = "PUBLISH", m.qos > 0, Overlong(m),
         NEW k, k = LengthBytes(Len(Body(m))), NEW h, h = Len(VariableHeader(m)),
         NEW l, l = Len(m.topic), NEW p, p = Packet(m),
         NEW c \in Seq(Byte), NEW w \in Seq(Byte), NEW r \in Seq(Byte),
         Begins(c, p), Same(c, w, p, r), Len(c) = InBuffer, Len(p) > InBuffer,
         k + 3 <= Len(c), k + 1 + h > Len(c), (k + 3) + l <= Len(c)
  PROVE  Delivered(m, c, w, r)
<1>1. k \in 1 .. 4 /\ Len(p) = 1 + k + Len(Body(m)) /\ p \in Seq(Byte)
  BY PacketIs
<1>2. Len(c) \in Nat /\ Len(p) \in Nat /\ InBuffer \in Nat /\ InBuffer <= Len(p)
  <2> Len(c) \in Nat /\ Len(p) \in Nat
    BY <1>1
  <2> QED BY MessageAssumption
<1>3. /\ FixedLength(c) = k + 1 /\ IsPublish(c[1]) /\ Qos(c[1]) = m.qos
      /\ VariableLength(c) = h
  BY PublishBegins
<1>4. h \in Nat
  BY PublishBody
<1>5. c # <<>> /\ k + 1 <= Len(c)
  BY <1>1, <1>2
<1>6. TotalLength(c) = Len(p)
  <2>1. TotalLength(c) = 1 + k + Len(Body(m))
    BY <1>5, PacketBegins
  <2> QED BY <1>1, <2>1
<1>7. PublishTopic(c) = m.topic
  BY TopicRead
<1>8. PublishData(c) = <<>>
  <2>1. PublishData(c) = SubSeq(c, k + 1 + h + 1, Len(c))
    BY <1>3 DEF PublishData
  <2> QED BY <1>1, <1>2, <1>4, <2>1, SubSeqEmpty
<1>9. MessageId(c) = 0
  BY <1>3 DEF MessageId
<1>10. Decoded(c) = [Received(m) EXCEPT !.data = <<>>]
  <2>1. Decoded(c) = [type |-> "PUBLISH", qos |-> m.qos, topic |-> m.topic,
                      data |-> <<>>, id |-> 0]
    BY <1>3, <1>7, <1>8, <1>9 DEF Decoded
  <2> QED BY <2>1, ReceivedIs
<1> DEFINE y == SubSeq(p, Len(c) + 1, Len(p))
<1>11. After(c, p, r, w)
  BY <1>1, <1>2, Cut
<1>12. y \in Seq(Byte) /\ Len(y) = Len(p) - Len(c)
  <2> DEFINE j == Len(c)
  <2>1. j \in 0 .. Len(p)
    BY <1>2
  <2> HIDE DEF j
  <2>2. /\ SubSeq(p, j + 1, Len(p)) \in Seq(Byte)
        /\ Len(SubSeq(p, j + 1, Len(p))) = Len(p) - j
    BY <1>1, <2>1, Split
  <2> QED BY <2>2 DEF j
<1>13. w = y \o r /\ y = Received(m).data
  BY <1>11, ReceivedIs DEF After
<1> HIDE DEF y
<1>14. <<>> \o y = Received(m).data /\ <<>> \in Seq(Byte)
  BY <1>12, <1>13, ConcatEmptySeq
<1>15. \E x, z \in Seq(Byte) :
         /\ x \o z = Received(m).data /\ Decoded(c) = [Received(m) EXCEPT !.data = x]
         /\ Len(z) = TotalLength(c) - Len(c) /\ w = z \o r
         /\ Len(z) > 0 => m.type = "PUBLISH"
  BY <1>6, <1>10, <1>12, <1>13, <1>14
<1> QED BY <1>6, <1>15 DEF Delivered

\* What the reader needs of a packet of which it has b
WantedOf(b) == IF TotalLength(b) <= InBuffer THEN TotalLength(b) ELSE InBuffer

\* What is known of a beginning b of the packet of m, with k bytes of length
LEMMA BegunIs ==
  ASSUME NEW m \in Messages, NEW n, n = Len(Packet(m)),
         NEW k, k = LengthBytes(Len(Body(m))),
         NEW b \in Seq(Byte), b # <<>>, Begins(b, Packet(m))
  PROVE  /\ k \in 1 .. 4 /\ n \in Nat /\ n >= 1 + k /\ Packet(m) \in Seq(Byte)
         /\ Len(b) \in Nat /\ Len(b) >= 1 /\ Len(b) <= n
         /\ InBuffer \in Nat
         /\ b[1] = FirstByte(m)
         /\ k + 1 <= Len(b) => /\ b[k + 1] < Base
                               /\ FixedLength(b) = k + 1 /\ TotalLength(b) = n
<1> DEFINE l == Len(Body(m))
<1>1. Packet(m) \in Seq(Byte)
  BY PacketIs
<1>2. /\ k \in 1 .. 4 /\ l \in Nat /\ Len(Packet(m)) = 1 + k + l
      /\ Len(b) \in 1 .. 1 + k + l /\ b[1] = FirstByte(m)
      /\ k + 1 <= Len(b) => /\ b[k + 1] < Base /\ FixedLength(b) = k + 1
                            /\ TotalLength(b) = 1 + k + l
  BY PacketBegins
<1> HIDE DEF l
<1>3. n \in Nat /\ n >= 1 + k /\ n = 1 + k + l
  BY <1>2
<1> QED BY <1>1, <1>2, <1>3, MessageAssumption

\* A number that is not 1 is 2 or more.
LEMMA AtLeastTwo ==
  ASSUME NEW i \in Nat, i >= 1, i # 1
  PROVE  i >= 2
  OBVIOUS

\* A number that is at most 1 is 1.
LEMMA OnlyOne ==
  ASSUME NEW i \in Nat, i >= 1, i <= 1
  PROVE  i = 1
  OBVIOUS

\* A number that is at most j and not j is below j.
LEMMA Less ==
  ASSUME NEW i \in Nat, NEW j \in Nat, i <= j, i # j
  PROVE  i < j
  OBVIOUS

\* With its first byte, a packet has begun.
LEMMA BegunFirst ==
  ASSUME NEW m \in Messages, NEW p, p = Packet(m), NEW b \in Seq(Byte), Len(b) = 1,
         HasValidHeader(b[1]), NEW w \in Seq(Byte), NEW r \in Seq(Byte), Same(b, w, p, r)
  PROVE  Begun("length", b, m)
<1> DEFINE k == LengthBytes(Len(Body(m)))
<1>1. b # <<>>
  OBVIOUS
<1>2. p \in Seq(Byte) /\ Len(p) \in Nat /\ k \in 1 .. 4 /\ Len(p) = 1 + k + Len(Body(m))
      /\ Len(Body(m)) \in Nat
  BY PacketIs
<1>3. 1 < Len(p)
  <2> HIDE DEF k
  <2> QED BY <1>2
<1>4. Begins(b, p)
  BY <1>2, <1>3, Cut
<1>5. b[1] = FirstByte(m)
  BY <1>1, <1>4, BegunIs
<1>6. m.type # "AUTH"
  BY <1>5, FirstByteIs
<1>7. Len(b) <= InBuffer /\ Len(b) < 6
  BY MessageAssumption DEF HeaderSize
<1> QED BY <1>3, <1>4, <1>6, <1>7 DEF Begun

\* After a timeout the reader goes on with the packet where it was:
\* mqtt_message_receive begins again with what is in the buffer.
LEMMA BegunIdle ==
  ASSUME NEW m \in Messages, NEW b \in Seq(Byte), b # <<>>, Begun("idle", b, m)
  PROVE  Begun(IF Len(b) = 1 \/ LengthGoesOn(b) THEN "length" ELSE "header", b, m)
<1>1. /\ Begins(b, Packet(m)) /\ m.type # "AUTH" /\ Len(b) < Len(Packet(m))
      /\ Len(b) <= InBuffer
  BY DEF Begun
<1>2. CASE Len(b) = 1 \/ LengthGoesOn(b)
  <2>1. Len(b) < 6 /\ (Len(b) = 1 \/ b[Len(b)] >= Base)
    BY <1>2 DEF LengthGoesOn
  <2>2. Begun("length", b, m)
    BY <1>1, <2>1 DEF Begun
  <2> QED BY <1>2, <2>2
<1>3. CASE ~(Len(b) = 1 \/ LengthGoesOn(b))
  <2>1. Len(b) \in Nat /\ Len(b) >= 1
    BY <1>1, BegunIs
  <2>2. Len(b) >= 2
    <3>1. Len(b) # 1
      BY <1>3
    <3> QED BY <2>1, <3>1, AtLeastTwo
  <2>3. LengthBytes(Len(Body(m))) + 1 <= Len(b)
    BY <1>1, <1>3, <2>2, LengthRead
  <2>4. Begun("header", b, m)
    BY <1>1, <2>3 DEF Begun
  <2> QED BY <1>3, <2>4
<1> QED BY <1>2, <1>3

\* With the whole length, the reader knows whether the packet fits in the
\* buffer.
LEMMA BegunHeader ==
  ASSUME NEW m \in Messages, NEW b \in Seq(Byte), b # <<>>, Begun("header", b, m),
         TotalLength(b) > InBuffer => IsPublish(b[1])
  PROVE  Begun(IF TotalLength(b) <= InBuffer THEN "rest"
               ELSE IF Len(b) < FixedLength(b) + 2 THEN "topic" ELSE "large", b, m)
<1> DEFINE n == Len(Packet(m))
           k == LengthBytes(Len(Body(m)))
<1>1. /\ Begins(b, Packet(m)) /\ m.type # "AUTH" /\ k + 1 <= Len(b)
      /\ Len(b) <= InBuffer
  BY DEF Begun
<1>2. /\ k \in 1 .. 4 /\ n \in Nat /\ Len(b) \in Nat /\ InBuffer \in Nat
      /\ b[1] = FirstByte(m)
      /\ k + 1 <= Len(b) => FixedLength(b) = k + 1 /\ TotalLength(b) = n
  BY <1>1, BegunIs
<1>3. FixedLength(b) = k + 1 /\ TotalLength(b) = n
  BY <1>1, <1>2
<1>4. CASE TotalLength(b) <= InBuffer
  <2>1. Begun("rest", b, m)
    BY <1>1, <1>3, <1>4 DEF Begun
  <2> QED BY <1>4, <2>1
<1>5. CASE ~(TotalLength(b) <= InBuffer)
  <2>1. n > InBuffer /\ TotalLength(b) > InBuffer
    <3> HIDE DEF n, k
    <3> QED BY <1>2, <1>3, <1>5
  <2>2. m.type = "PUBLISH"
    BY <1>2, <2>1, FirstByteIs
  <2>3. CASE Len(b) < FixedLength(b) + 2
    <3>1. Len(b) < k + 3
      <4> HIDE DEF k, n
      <4> QED BY <1>2, <1>3, <2>3
    <3>2. Begun("topic", b, m)
      BY <1>1, <2>1, <2>2, <3>1 DEF Begun
    <3> QED BY <1>5, <2>3, <3>2
  <2>4. CASE ~(Len(b) < FixedLength(b) + 2)
    <3>1. k + 3 <= Len(b)
      <4> HIDE DEF k, n
      <4> QED BY <1>2, <1>3, <2>4
    <3>2. Begun("large", b, m)
      BY <1>1, <2>1, <2>2, <3>1 DEF Begun
    <3> QED BY <1>5, <2>4, <3>2
  <2> QED BY <2>3, <2>4
<1> QED BY <1>4, <1>5

\* One more byte of a sequence
LEMMA OneMore ==
  ASSUME NEW b \in Seq(Byte), NEW e \in Seq(Byte), Len(e) = 1, NEW l, l = Len(b)
  PROVE  /\ b \o e \in Seq(Byte) /\ Len(b \o e) = l + 1 /\ l \in Nat
         /\ \A i \in 1 .. l : (b \o e)[i] = b[i]
<1>1. /\ b \o e \in Seq(Byte) /\ Len(b \o e) = Len(b) + Len(e) /\ Len(b) \in Nat
      /\ \A i \in 1 .. Len(b) : (b \o e)[i] = b[i]
  BY Joined
<1> QED BY <1>1

\* With one more byte of the length, a packet has begun.
LEMMA BegunLength ==
  ASSUME LengthsPlain, NEW m \in Messages, NEW p, p = Packet(m), NEW b \in Seq(Byte),
         b # <<>>, Begun("length", b, m), NEW e \in Seq(Byte), Len(e) = 1,
         NEW c, c = b \o e, NEW w \in Seq(Byte), NEW r \in Seq(Byte), Same(c, w, p, r)
  PROVE  Begun(IF LengthGoesOn(c) THEN "length" ELSE "header", c, m)
<1> DEFINE l == Len(b)
           n == Len(p)
           k == LengthBytes(Len(Body(m)))
<1>1. /\ Begins(b, p) /\ m.type # "AUTH" /\ l < n /\ l < 6
      /\ l = 1 \/ b[l] >= Base
  BY DEF Begun
<1>2. /\ c \in Seq(Byte) /\ Len(c) = l + 1 /\ l \in Nat
      /\ \A i \in 1 .. l : c[i] = b[i]
  BY OneMore
<1>3. /\ p \in Seq(Byte) /\ k \in 1 .. 4 /\ n \in Nat /\ n >= 1 + k /\ l >= 1
  BY <1>1, BegunIs
<1>4. Len(c) <= n /\ Len(c) >= 2 /\ Len(c) \in Nat
  <2> HIDE DEF l, n, k
  <2> QED BY <1>1, <1>2, <1>3
<1>5. Begins(c, p)
  BY <1>2, <1>3, <1>4, Cut
<1>6. c # <<>> /\ Len(c) <= InBuffer
  <2>1. Len(<<>>) = 0
    OBVIOUS
  <2>2. Len(c) <= InBuffer
    <3> HIDE DEF l
    <3> QED BY <1>1, <1>2, MessageAssumption DEF HeaderSize
  <2> QED BY <1>4, <2>1, <2>2
<1>7. CASE LengthGoesOn(c)
  <2>1. Len(c) < 6 /\ c[Len(c)] >= Base
    BY <1>7 DEF LengthGoesOn
  <2>2. k + 1 <= Len(c) => c[k + 1] < Base
    BY <1>2, <1>5, <1>6, BegunIs
  <2>3. ASSUME Len(c) = n PROVE FALSE
    <3>1. c = p
      BY <1>2, <1>3, <1>5, <2>3, BeginsAll
    <3>2. p[n - 1] < Base \/ p[n] < Base
      <4>1. n <= HeaderSize
        <5> HIDE DEF n
        <5> QED BY <1>4, <2>1, <2>3 DEF HeaderSize
      <4>2. \E i \in {Len(Packet(m))} :
              i <= HeaderSize => Packet(m)[i - 1] < Base \/ Packet(m)[i] < Base
        BY DEF LengthsPlain
      <4> QED BY <4>1, <4>2
    <3>3. c[l] < Base
      <4>1. n - 1 = l
        <5> HIDE DEF l, n
        <5> QED BY <1>2, <2>3
      <4>2. ~(p[n] < Base)
        <5>1. p[n] >= Base
          BY <2>1, <2>3, <3>1
        <5>2. p[n] \in Byte /\ Base \in Nat
          <6>1. n \in 1 .. Len(p)
            <7> HIDE DEF k
            <7> QED BY <1>3
          <6> QED BY <6>1, <1>3, ElementOfSeq, MessageAssumption
        <5> QED BY <5>1, <5>2 DEF Byte
      <4> QED BY <3>1, <3>2, <4>1, <4>2
    <3>4. c[l] = b[l] /\ b[l] \in Byte /\ Base \in Nat
      <4>1. l \in 1 .. l /\ l \in 1 .. Len(b)
        <5> HIDE DEF k, n
        <5> QED BY <1>2, <1>3
      <4> QED BY <4>1, <1>2, ElementOfSeq, MessageAssumption
    <3>5. ~(b[l] >= Base)
      BY <3>3, <3>4 DEF Byte
    <3>6. l = 1
      BY <1>1, <3>5
    <3>7. k + 1 = Len(c)
      <4> HIDE DEF k, l, n
      <4> QED BY <1>2, <1>3, <2>3, <3>6
    <3>8. c[Len(c)] < Base /\ c[Len(c)] \in Byte /\ Base \in Nat
      <4>1. Len(c) \in 1 .. Len(c)
        <5> HIDE DEF k, l, n
        <5> QED BY <1>4
      <4>2. c[Len(c)] < Base
        <5> HIDE DEF k, l, n
        <5>1. k + 1 <= Len(c)
          BY <3>7, <1>3
        <5> QED BY <5>1, <3>7, <2>2
      <4> QED BY <4>1, <4>2, <1>2, ElementOfSeq, MessageAssumption
    <3> QED BY <3>8, <2>1, SMTT(30) DEF Byte
  <2>4. Len(c) < n
    <3>1. Len(c) # n
      BY <2>3
    <3> HIDE DEF n
    <3> QED BY <1>3, <1>4, <3>1, Less
  <2>5. Begun("length", c, m)
    BY <1>1, <1>5, <1>6, <2>1, <2>4 DEF Begun
  <2> QED BY <1>7, <2>5
<1>8. CASE ~LengthGoesOn(c)
  <2>1. k + 1 <= Len(c)
    BY <1>2, <1>4, <1>5, <1>8, LengthRead
  <2>2. Begun("header", c, m)
    BY <1>1, <1>5, <1>6, <2>1 DEF Begun
  <2> QED BY <1>8, <2>2
<1> QED BY <1>7, <1>8

\* A read of the topic's length stays within the packet.
LEMMA TopicRoom ==
  ASSUME NEW k \in 1 .. 4, NEW i \in Nat, i >= HeaderSize + 4, NEW n \in Nat, n > i,
         NEW l \in Nat, k + 1 <= l, l < k + 3, NEW f, f = k + 1,
         NEW j \in Nat, j <= l - f + 2
  PROVE  l + j < n /\ l + j <= i /\ l + j >= k + 1 /\ (l + j < f + 2 <=> l + j < k + 3)
  BY DEF HeaderSize

\* With the bytes of the topic length, the reader can go on to a large
\* packet.
LEMMA BegunTopic ==
  ASSUME InBuffer >= HeaderSize + 4,
         NEW m \in Messages, NEW p, p = Packet(m), NEW b \in Seq(Byte),
         b # <<>>, Begun("topic", b, m), NEW e \in Seq(Byte),
         Len(e) <= Len(b) - FixedLength(b) + 2,
         NEW c, c = b \o e, NEW w \in Seq(Byte), NEW r \in Seq(Byte), Same(c, w, p, r)
  PROVE  Begun(IF Len(c) < FixedLength(c) + 2 THEN "idle" ELSE "large", c, m)
<1> DEFINE l == Len(b)
           j == Len(e)
           n == Len(p)
           k == LengthBytes(Len(Body(m)))
<1>1. /\ Begins(b, p) /\ m.type = "PUBLISH" /\ k + 1 <= l /\ l < k + 3 /\ n > InBuffer
  BY DEF Begun
<1>2. c \in Seq(Byte) /\ Len(c) = l + j /\ l \in Nat /\ j \in Nat
  BY Joined
<1>3. /\ p \in Seq(Byte) /\ k \in 1 .. 4 /\ n \in Nat /\ InBuffer \in Nat
      /\ FixedLength(b) = k + 1
  BY <1>1, BegunIs
<1>4. /\ l + j < n /\ l + j <= InBuffer /\ l + j >= k + 1
      /\ (l + j < k + 1 + 2 <=> l + j < k + 3)
  <2> HIDE DEF l, j, n, k
  <2> QED BY <1>1, <1>2, <1>3, TopicRoom DEF l, j
<1>5. Begins(c, p)
  <2>1. Len(c) <= Len(p)
    <3> HIDE DEF l, j, k
    <3> QED BY <1>2, <1>3, <1>4
  <2> QED BY <1>2, <1>3, <2>1, Cut
<1>6. k + 1 <= Len(c) /\ Len(c) < n /\ Len(c) <= InBuffer /\ c # <<>>
  <2>1. Len(<<>>) = 0
    OBVIOUS
  <2>2. Len(c) # 0 /\ k + 1 <= Len(c) /\ Len(c) < n /\ Len(c) <= InBuffer
    <3> HIDE DEF l, j, k, n
    <3> QED BY <1>2, <1>3, <1>4
  <2> QED BY <2>1, <2>2
<1>7. FixedLength(c) = k + 1
  <2>1. c \in Seq(Byte) /\ c # <<>> /\ Begins(c, Packet(m)) /\ k + 1 <= Len(c)
    BY <1>2, <1>5, <1>6
  <2> QED BY <2>1, BegunIs
<1>8. CASE Len(c) < FixedLength(c) + 2
  <2>1. Begun("idle", c, m)
    BY <1>1, <1>5, <1>6 DEF Begun
  <2> QED BY <1>8, <2>1
<1>9. CASE ~(Len(c) < FixedLength(c) + 2)
  <2>1. k + 3 <= Len(c)
    <3> HIDE DEF l, j, k, n
    <3> QED BY <1>2, <1>3, <1>7, <1>9
  <2>2. Begun("large", c, m)
    BY <1>1, <1>5, <1>6, <2>1 DEF Begun
  <2> QED BY <1>9, <2>2
<1> QED BY <1>8, <1>9

\* How much of a packet is wanted
LEMMA WantedIs ==
  ASSUME NEW m \in Messages, NEW p, p = Packet(m), NEW b \in Seq(Byte), b # <<>>,
         NEW a \in {"rest", "large"}, Begun(a, b, m)
  PROVE  /\ a = "rest" => WantedOf(b) = Len(p) /\ Len(p) <= InBuffer
         /\ a = "large" => WantedOf(b) = InBuffer /\ Len(p) > InBuffer
         /\ WantedOf(b) <= Len(p) /\ WantedOf(b) <= InBuffer
         /\ WantedOf(b) \in Nat /\ Len(p) \in Nat
<1> DEFINE n == Len(p)
           k == LengthBytes(Len(Body(m)))
<1>1. /\ Begins(b, p) /\ k + 1 <= Len(b)
      /\ a = "rest" => n <= InBuffer
      /\ a = "large" => n > InBuffer
  BY DEF Begun
<1>2. n \in Nat /\ InBuffer \in Nat /\ TotalLength(b) = n
  BY <1>1, BegunIs
<1>3. CASE a = "rest"
  <2>1. WantedOf(b) = n /\ n <= InBuffer
    <3> HIDE DEF n
    <3> QED BY <1>1, <1>2, <1>3 DEF WantedOf
  <2> HIDE DEF n
  <2>2. n <= n /\ WantedOf(b) <= InBuffer
    BY <1>2, <2>1
  <2> QED BY <1>2, <1>3, <2>1, <2>2 DEF n
<1>4. CASE a = "large"
  <2> HIDE DEF n
  <2>1. WantedOf(b) = InBuffer /\ n > InBuffer /\ InBuffer <= n /\ InBuffer <= InBuffer
    BY <1>1, <1>2, <1>4 DEF WantedOf
  <2> QED BY <1>2, <1>4, <2>1 DEF n
<1> QED BY <1>3, <1>4

\* Part of what is wanted
LEMMA BegunRest ==
  ASSUME NEW m \in Messages, NEW p, p = Packet(m), NEW b \in Seq(Byte), b # <<>>,
         NEW a \in {"rest", "large"}, Begun(a, b, m),
         NEW c \in Seq(Byte), Len(c) < WantedOf(b),
         NEW w \in Seq(Byte), NEW r \in Seq(Byte), Same(c, w, p, r)
  PROVE  Begun("idle", c, m)
<1>1. /\ WantedOf(b) <= Len(p) /\ WantedOf(b) <= InBuffer
      /\ WantedOf(b) \in Nat /\ Len(p) \in Nat /\ InBuffer \in Nat
  BY WantedIs, MessageAssumption
<1>2. Len(c) < Len(p) /\ Len(c) <= Len(p) /\ Len(c) <= InBuffer
  <2> Len(c) \in Nat
    OBVIOUS
  <2> QED BY <1>1
<1>3. p \in Seq(Byte)
  BY PacketIs
<1>4. Begins(c, p)
  BY <1>2, <1>3, Cut
<1>5. m.type # "AUTH"
  BY DEF Begun
<1> QED BY <1>2, <1>4, <1>5 DEF Begun

\* Nothing more comes
LEMMA BegunWaits ==
  ASSUME InBuffer >= HeaderSize + 4,
         NEW m \in Messages, NEW p, p = Packet(m), NEW b \in Seq(Byte), b # <<>>,
         NEW a \in {"length", "topic", "rest", "large"}, Begun(a, b, m),
         a \in {"rest", "large"} => Len(b) < WantedOf(b)
  PROVE  Begun("idle", b, m)
<1> DEFINE n == Len(p)
           k == LengthBytes(Len(Body(m)))
<1>1. Begins(b, p) /\ m.type # "AUTH" /\ Len(b) <= InBuffer
  BY DEF Begun
<1>2. k \in 1 .. 4 /\ n \in Nat /\ InBuffer \in Nat /\ Len(b) \in Nat
  BY <1>1, BegunIs
<1>3. Len(b) < n
  <2>1. CASE a = "length"
    BY <2>1 DEF Begun
  <2>2. CASE a = "topic"
    <3>1. n > InBuffer /\ Len(b) < k + 3
      BY <2>2 DEF Begun
    <3> HIDE DEF n, k
    <3> QED BY <1>2, <3>1 DEF HeaderSize
  <2>3. CASE a \in {"rest", "large"}
    <3>1. Len(b) < WantedOf(b)
      BY <2>3
    <3>2. WantedOf(b) <= Len(p) /\ WantedOf(b) \in Nat
      BY <2>3, WantedIs
    <3> HIDE DEF n
    <3> QED BY <1>2, <3>1, <3>2 DEF n
  <2> QED BY <2>1, <2>2, <2>3
<1> QED BY <1>1, <1>3 DEF Begun

\* A message whose packet fits, or the header of whose packet does, is delivered
\* as it was written.
LEMMA ReceivedSame ==
  ASSUME NEW m \in Messages, NEW k, k = LengthBytes(Len(Body(m))),
         NEW h, h = Len(VariableHeader(m)),
         \/ m.type # "PUBLISH" \/ m.qos = 0
         \/ k + 1 + h <= InBuffer \/ Len(Packet(m)) <= InBuffer
  PROVE  Received(m) = m
<1>1. CASE m.type # "PUBLISH" \/ ~(m.qos > 0)
  BY <1>1 DEF Received, Overlong
<1>2. CASE m.type = "PUBLISH" /\ m.qos > 0
  <2>1. k \in 1 .. 4 /\ Len(Packet(m)) = 1 + k + Len(Body(m))
    BY PacketIs
  <2>2. h \in Nat /\ Len(m.data) \in Nat /\ Len(Body(m)) = h + Len(m.data)
    BY <1>2, PublishBody
  <2>3. InBuffer \in Nat
    BY MessageAssumption
  <2>4. ~(1 + k + h > InBuffer)
    <3>1. k + 1 + h <= InBuffer \/ 1 + k + (h + Len(m.data)) <= InBuffer
      BY <1>2, <2>1, <2>2
    <3> QED BY <2>1, <2>2, <2>3, <3>1
  <2> QED BY <2>4 DEF Received, Overlong
<1> QED BY <1>1, <1>2

\* All that is wanted
LEMMA BegunDelivered ==
  ASSUME IdentifiersFound,
         NEW m \in Messages, NEW p, p = Packet(m), NEW b \in Seq(Byte), b # <<>>,
         NEW a \in {"rest", "large"}, Begun(a, b, m),
         a = "large" => HeaderCounted(b) <= InBuffer,
         NEW c \in Seq(Byte), WantedOf(b) <= Len(c), Len(c) <= Len(p), Len(c) <= InBuffer,
         ~Malformed(c),
         NEW w \in Seq(Byte), NEW r \in Seq(Byte), Same(c, w, p, r)
  PROVE  Delivered(m, c, w, r)
<1> DEFINE k == LengthBytes(Len(Body(m)))
           h == Len(VariableHeader(m))
           l == Len(m.topic)
<1>1. /\ Begins(b, p) /\ m.type # "AUTH" /\ k + 1 <= Len(b)
      /\ a = "large" => m.type = "PUBLISH" /\ k + 3 <= Len(b)
  BY DEF Begun
<1>2. /\ a = "rest" => WantedOf(b) = Len(p) /\ Len(p) <= InBuffer
      /\ a = "large" => WantedOf(b) = InBuffer /\ Len(p) > InBuffer
      /\ Len(p) \in Nat
  BY WantedIs
<1>3. k \in 1 .. 4 /\ p \in Seq(Byte) /\ Len(b) \in Nat /\ Len(b) >= 1 /\ Len(b) <= Len(p)
      /\ InBuffer \in Nat /\ InBuffer > 0 /\ Len(b) <= InBuffer
  BY <1>1, BegunIs, MessageAssumption DEF Begun, HeaderSize
<1>4. Len(c) \in Nat
  OBVIOUS
<1>5. Begins(c, p)
  BY <1>3, Cut
<1>6. CASE a = "rest"
  <2>1. Len(c) = Len(p)
    BY <1>2, <1>4, <1>6
  <2>2. c # <<>>
    <3>1. Len(<<>>) = 0
      OBVIOUS
    <3>2. Len(c) # 0
      BY <1>3, <1>4, <2>1
    <3> QED BY <3>1, <3>2
  <2>3. ~(Len(p) > InBuffer)
    BY <1>2, <1>3, <1>6
  <2>4. Received(m) = m
    BY <1>2, <1>6, ReceivedSame
  <2> QED BY <1>1, <1>3, <1>5, <2>1, <2>2, <2>3, <2>4, Delivery
<1>7. CASE a = "large"
  <2>1. /\ Len(p) > InBuffer /\ ~(Len(p) <= InBuffer) /\ Len(c) = InBuffer
        /\ Len(c) # 0 /\ Len(b) <= Len(c)
    BY <1>2, <1>3, <1>4, <1>7
  <2>2. c # <<>>
    <3>1. Len(<<>>) = 0
      OBVIOUS
    <3> QED BY <2>1, <3>1
  <2>3. m.type = "PUBLISH"
    BY <1>1, <1>7
  <2>4. FixedLength(b) = k + 1 /\ WordAt(b, k + 2) = l /\ Qos(b[1]) = m.qos
    BY <1>1, <1>7, PublishBegins
  <2>5. k + 3 <= Len(c)
    <3> HIDE DEF k
    <3> QED BY <1>1, <1>3, <1>4, <1>7, <2>1
  <2>6. FixedLength(c) = k + 1 /\ WordAt(c, k + 2) = l /\ IsPublish(c[1])
    BY <1>5, <2>3, <2>5, PublishBegins
  <2>7. h \in Nat /\ l \in Nat /\ h = 2 + l + IF m.qos > 0 THEN 2 ELSE 0
    BY <2>3, PublishBody, VariableHeaderIs, MessageIs
  <2>8. m.qos \in 0 .. 2
    BY <2>3, MessageIs DEF Publications
  <2>9. FixedLength(b) + 1 = k + 2 /\ FixedLength(c) + 1 = k + 2
    BY <1>3, <2>4, <2>6
  <2>10. (k + 1) + l + (IF m.qos > 0 THEN 2 ELSE 0) <= InBuffer
    BY <1>7, <2>4, <2>9 DEF HeaderCounted
  <2>11. (k + 1) + 2 + l <= Len(c)
    <3>1. FixedLength(c) + 2 + WordAt(c, FixedLength(c) + 1) <= Len(c)
      BY <2>6 DEF Malformed
    <3> HIDE DEF k, l
    <3> QED BY <2>6, <2>9, <3>1
  <2>12. CASE k + 1 + h <= InBuffer
    <3>1. Received(m) = m
      BY <2>12, ReceivedSame
    <3>2. k + 1 + h <= Len(c)
      BY <2>1, <2>12
    <3> QED BY <1>1, <1>3, <1>5, <2>1, <2>2, <2>3, <3>1, <3>2, Delivery
  <2>13. CASE ~(k + 1 + h <= InBuffer)
    <3>1. m.qos > 0 /\ h = 4 + l
      <4> HIDE DEF k, h, l
      <4>1. CASE m.qos > 0
        BY <4>1, <2>7
      <4>2. CASE ~(m.qos > 0)
        BY <4>2, <1>3, <2>1, <2>7, <2>11, <2>13
      <4> QED BY <4>1, <4>2
    <3>2. 1 + k + h > InBuffer
      <4> HIDE DEF k, h, l
      <4>1. k \in Nat /\ h \in Nat
        BY <1>3, <2>7
      <4> QED BY <1>3, <2>13, <4>1
    <3>3. Overlong(m)
      BY <2>3, <3>1, <3>2 DEF Overlong
    <3> HIDE DEF k, h, l
    <3>4. k + 1 + h > Len(c) /\ (k + 3) + l <= Len(c) /\ k + 1 + 2 + l <= Len(c)
      BY <1>3, <1>4, <2>1, <2>7, <2>11, <3>2
    <3> QED BY <1>3, <1>4, <1>5, <2>1, <2>2, <2>3, <2>5, <3>1, <3>3, <3>4, DeliveryOverlong
            DEF k, h, l
  <2> QED BY <2>12, <2>13
<1> QED BY <1>6, <1>7

\* One more message is written.
LEMMA InSyncWrites ==
  ASSUME Scalars, Streams, InSync, online, online' = online, got' = got, cut' = cut,
         UNCHANGED readerVars, NEW m \in Messages, wire' = wire \o Packet(m),
         sent' = Append(sent, m)
  PROVE  InSync'
<1> SUFFICES ASSUME ~cut PROVE InSync'
  BY DEF InSync, Scalars
<1> DEFINE p == Packet(m)
<1>1. /\ wire \in Seq(Byte) /\ buf \in Seq(Byte) /\ sent \in Seq(Messages)
      /\ p \in Seq(Byte)
  BY PacketIs DEF Streams
<1>2. /\ Agree
      /\ at # "payload" => Together
      /\ at \in {"first", "payload"} => buf = <<>>
      /\ buf # <<>> => Partly
      /\ at = "payload" => Payload
  BY DEF InSync
<1>3. UNCHANGED <<buf, at, before, event, rest>>
  BY DEF readerVars
<1>4. /\ sent' \in Seq(Messages) /\ Len(sent') = Len(sent) + 1 /\ Len(sent) \in Nat
      /\ \A i \in 1 .. Len(sent) : sent'[i] = sent[i]
  BY <1>1, AppendProperties
<1>5. /\ got \in Seq(Arrivals) /\ Len(got) \in Nat /\ Len(got) <= Len(sent)
      /\ \A i \in 1 .. Len(got) : got[i] = Received(sent[i])
  BY <1>2 DEF Agree
<1>6. Agree'
  <2>1. Len(got) <= Len(sent')
    BY <1>4, <1>5
  <2>2. \A i \in 1 .. Len(got) : got[i] = Received(sent'[i])
    BY <1>4, <1>5
  <2> QED BY <1>5, <2>1, <2>2 DEF Agree
<1>7. ASSUME NEW g, Len(g) \in Nat, Len(g) <= Len(sent)
      PROVE  Stream(sent', g) = Stream(sent, g) \o p /\ Stream(sent, g) \in Seq(Byte)
  BY <1>1, <1>7, StreamIs
<1>8. ASSUME Together PROVE Together'
  <2>1. buf \o wire = Stream(sent, got)
    BY <1>8 DEF Together, Whole
  <2>2. (buf \o wire) \o p = buf \o (wire \o p)
    BY <1>1, Associative
  <2>3. Stream(sent', got) = Stream(sent, got) \o p
    BY <1>5, <1>7
  <2>4. buf \o (wire \o p) = Stream(sent', got)
    BY <2>1, <2>2, <2>3
  <2> QED BY <1>3, <2>4 DEF Together, Whole
<1>9. ASSUME Len(got) < Len(sent) PROVE Current' = Current /\ Len(got)' < Len(sent)'
  <2>1. Len(got) + 1 \in 1 .. Len(sent)
    BY <1>4, <1>5, <1>9
  <2>2. Len(got) < Len(sent')
    BY <1>4, <1>5, <1>9
  <2> QED BY <1>4, <2>1, <2>2 DEF Current
<1>10. ASSUME Partly PROVE Partly'
  <2>1. Len(got) < Len(sent) /\ Begun(at, buf, Current)
    BY <1>10 DEF Partly
  <2>2. Begun(at', buf', Current')
    BY <1>3, <1>9, <2>1
  <2> QED BY <1>9, <2>1, <2>2 DEF Partly
<1>11. ASSUME Payload PROVE Payload'
  <2>1. /\ Len(got) < Len(sent) /\ Current.type = "PUBLISH"
        /\ \E c, d \in Seq(Byte) : Halfway(Current, c, d)
    BY <1>11 DEF Payload
  <2>2. PICK c \in Seq(Byte), d \in Seq(Byte) : Halfway(Current, c, d)
    BY <2>1
  <2>3. Current' = Current /\ Len(got)' < Len(sent)' /\ Current \in Messages
    <3>1. Len(got) + 1 \in 1 .. Len(sent)
      BY <1>4, <1>5, <2>1
    <3>2. Current \in Messages
      BY <1>1, <3>1, ElementOfSeq DEF Current
    <3> QED BY <1>9, <2>1, <3>2
  <2>4. PICK M \in Messages : M = Current
    BY <2>3
  <2>12. Halfway(M, c, d)
    BY <2>2, <2>4
  <2> DEFINE g == Append(got, M)
  <2>5. Len(g) \in Nat /\ Len(g) <= Len(sent)
    <3>1. Len(g) = Len(got) + 1
      BY <1>5, AppendProperties
    <3> HIDE DEF g
    <3> QED BY <1>4, <1>5, <2>1, <3>1
  <2>6. Stream(sent', g) = Stream(sent, g) \o p /\ Stream(sent, g) \in Seq(Byte)
    BY <1>7, <2>5
  <2>7. wire = d \o Stream(sent, g)
    BY <2>12 DEF Halfway
  <2>8. (d \o Stream(sent, g)) \o p = d \o (Stream(sent, g) \o p)
    BY <1>1, <2>6, Associative, ZenonT(30)
  <2>9. wire' = d \o Stream(sent', g)
    BY <2>6, <2>7, <2>8
  <2>10. Halfway(M, c, d)'
    BY <1>3, <2>12, <2>9 DEF Halfway
  <2>11. Halfway(Current, c, d)'
    BY <2>3, <2>4, <2>10
  <2> QED BY <2>1, <2>3, <2>11 DEF Payload
<1> QED BY <1>2, <1>3, <1>6, <1>8, <1>10, <1>11 DEF InSync

\* A packet goes on to be read.
LEMMA InSyncGoesOn ==
  ASSUME Agree, UNCHANGED <<got, sent>>, at' \notin {"first", "payload"},
         Whole(buf', wire', Stream(sent, got)), Len(got) < Len(sent),
         Begun(at', buf', Current)
  PROVE  InSync'
<1>1. Current' = Current /\ Agree'
  BY DEF Current, Agree
<1>2. Partly'
  BY <1>1 DEF Partly
<1>3. Together'
  BY DEF Together
<1> QED BY <1>1, <1>2, <1>3 DEF InSync

\* Nothing of a packet has been read.
LEMMA InSyncBetween ==
  ASSUME Agree', at' # "payload", buf' = <<>>, wire' \in Seq(Byte),
         wire' = Stream(sent', got')
  PROVE  InSync'
<1>1. buf' \o wire' = wire'
  BY ConcatEmptySeq
<1>2. Together'
  BY <1>1 DEF Together, Whole
<1> QED BY <1>2 DEF InSync

\* What is read of the connection goes on with what has been read.
LEMMA InSyncReads ==
  ASSUME Scalars, Streams, InSync, online, ~cut, at # "payload",
         NEW n, NEW e \in Bytes(n), Reads(e), NEW c, c = buf \o e
  PROVE  /\ Agree /\ Len(got) < Len(sent) /\ Current \in Messages
         /\ Packet(Current) \in Seq(Byte)
         /\ c \in Seq(Byte) /\ wire' \in Seq(Byte) /\ c # <<>>
         /\ e \in Seq(Byte) /\ Len(e) >= 1 /\ Len(e) <= n /\ Len(e) \in Nat
         /\ Stream(sent, Append(got, Current)) \in Seq(Byte)
         /\ Same(c, wire', Packet(Current), Stream(sent, Append(got, Current)))
         /\ Whole(c, wire', Stream(sent, got))
<1>1. wire \in Seq(Byte) /\ buf \in Seq(Byte) /\ sent \in Seq(Messages)
  BY DEF Streams
<1>2. Agree /\ Together
  BY DEF InSync
<1>3. got \in Seq(Arrivals) /\ Len(got) <= Len(sent)
  BY <1>2 DEF Agree
<1>4. wire' = SubSeq(wire, Len(e) + 1, Len(wire))
  BY DEF Reads
<1>5. /\ e \in Seq(Byte) /\ Len(e) >= 1 /\ Len(e) \in Nat /\ Len(e) <= n
      /\ wire' \in Seq(Byte) /\ e \o wire' = wire
  BY <1>1, <1>4, BytesIs
<1>6. c \in Seq(Byte) /\ Len(c) = Len(buf) + Len(e) /\ Len(buf) \in Nat
  BY <1>1, <1>5, Joined
<1>7. c # <<>>
  <2>1. Len(c) # 0 /\ Len(<<>>) = 0
    BY <1>5, <1>6
  <2> QED BY <2>1
<1>8. Whole(c, wire', Stream(sent, got))
  <2>1. (buf \o e) \o wire' = buf \o (e \o wire')
    BY <1>1, <1>5, Associative
  <2> QED BY <1>2, <1>5, <2>1 DEF Together, Whole
<1>9. /\ Len(got) < Len(sent) /\ Current \in Messages /\ Packet(Current) \in Seq(Byte)
      /\ Stream(sent, Append(got, Current)) \in Seq(Byte)
      /\ Same(c, wire', Packet(Current), Stream(sent, Append(got, Current)))
  BY <1>1, <1>3, <1>5, <1>6, <1>7, <1>8, Ahead DEF Current
<1> QED BY <1>2, <1>5, <1>6, <1>7, <1>8, <1>9

\* x of the data of m, as they arrive, has been delivered with the message, and y
\* follows.
Advances(m, x, y) ==
  /\ x \o y = Received(m).data /\ event' = [Received(m) EXCEPT !.data = x]
  /\ rest' = Len(y)
  /\ wire' = y \o Stream(sent, Append(got, m))

\* Data of the first message are delivered, or all that were left.
LEMMA InSyncDelivers ==
  ASSUME Agree, sent \in Seq(Messages), sent' = sent, Len(got) < Len(sent),
         NEW m \in Messages, m = Current,
         NEW x \in Seq(Byte), NEW y \in Seq(Byte), Advances(m, x, y),
         buf' = <<>>, rest' > 0 => m.type = "PUBLISH",
         rest' > 0 => at' = "payload" /\ got' = got,
         ~(rest' > 0) => at' = "idle" /\ got' = Append(got, event')
  PROVE  InSync'
<1> DEFINE a == Received(m)
<1>1. /\ x \o y = a.data /\ event' = [a EXCEPT !.data = x] /\ rest' = Len(y)
      /\ wire' = y \o Stream(sent, Append(got, m))
  BY DEF Advances
<1>2. /\ got \in Seq(Arrivals) /\ Len(got) \in Nat /\ Len(got) <= Len(sent)
      /\ Len(sent) \in Nat /\ \A i \in 1 .. Len(got) : got[i] = Received(sent[i])
  BY DEF Agree
<1>5. /\ a \in Arrivals /\ [a EXCEPT !.data = a.data] = a
      /\ Append(got, m) \in Seq(Arrivals) /\ Len(Append(got, m)) = Len(got) + 1
  <2>1. m \in Arrivals
    BY MessageIs DEF Arrivals
  <2> QED BY <2>1, <1>2, ReceivedIs, AppendProperties
<1> HIDE DEF a
<1>3. CASE rest' > 0
  <2>1. Current' = Current /\ Agree' /\ got' = got /\ at' = "payload"
    BY <1>3 DEF Current, Agree
  <2>2. Halfway(m, x, y)'
    BY <1>1, <2>1 DEF Halfway, a
  <2>3. Halfway(Current, x, y)'
    BY <2>1, <2>2
  <2>4. Payload'
    BY <1>3, <2>1, <2>3 DEF Payload
  <2> QED BY <2>1, <2>4 DEF InSync
<1>4. CASE ~(rest' > 0)
  <2>1. Len(y) = 0 /\ y = <<>>
    BY <1>1, <1>4, EmptySeq
  <2>2. x = a.data
    BY <1>1, <2>1, ConcatEmptySeq
  <2>3. event' = a
    BY <1>1, <1>5, <2>2
  <2>4. got' = Append(got, a) /\ at' = "idle"
    BY <1>4, <2>3
  <2>5. /\ got' \in Seq(Arrivals) /\ Len(got') = Len(got) + 1
        /\ \A i \in 1 .. Len(got) : got'[i] = got[i]
        /\ got'[Len(got) + 1] = a
    BY <1>2, <1>5, <2>4, AppendProperties
  <2>6. Stream(sent, got') \in Seq(Byte)
    <3>1. Len(got') \in Nat /\ Len(got') <= Len(sent)
      BY <1>2, <2>5
    <3> QED BY <3>1, StreamIs
  <2>7. wire' = Stream(sent, got')
    <3>1. Stream(sent, got') = Stream(sent, Append(got, m))
      BY <1>5, <2>5 DEF Stream, Undelivered
    <3> QED BY <1>1, <2>1, <2>6, <3>1, ConcatEmptySeq
  <2>8. Agree'
    <3>1. ASSUME NEW i \in 1 .. Len(got) + 1 PROVE got'[i] = Received(sent[i])
      <4>1. CASE i = Len(got) + 1
        BY <4>1, <2>5 DEF Current, a
      <4>2. CASE i # Len(got) + 1
        <5> DEFINE g == Len(got)
        <5>1. g \in Nat /\ i \in 1 .. g + 1 /\ i # g + 1
          BY <1>2, <4>2
        <5>2. i \in 1 .. g
          <6> HIDE DEF g
          <6> QED BY <5>1
        <5> QED BY <1>2, <2>5, <5>2 DEF g
      <4> QED BY <4>1, <4>2
    <3>2. Len(got') <= Len(sent)
      BY <1>2, <2>5
    <3> QED BY <2>5, <3>1, <3>2 DEF Agree
  <2> QED BY <2>4, <2>6, <2>7, <2>8, InSyncBetween
<1> QED BY <1>3, <1>4

\* What is known while a packet is being read
LEMMA InSyncPartly ==
  ASSUME Scalars, Streams, InSync, online, ~cut, at # "payload", buf # <<>>
  PROVE  /\ Agree /\ Whole(buf, wire, Stream(sent, got)) /\ Len(got) < Len(sent)
         /\ Begun(at, buf, Current) /\ Current \in Messages
         /\ buf \in Seq(Byte) /\ wire \in Seq(Byte) /\ sent \in Seq(Messages)
         /\ Stream(sent, Append(got, Current)) \in Seq(Byte)
         /\ Same(buf, wire, Packet(Current), Stream(sent, Append(got, Current)))
<1>1. /\ buf \in Seq(Byte) /\ wire \in Seq(Byte) /\ sent \in Seq(Messages)
  BY DEF Streams
<1>2. Agree /\ Together /\ Partly
  BY DEF InSync
<1>3. got \in Seq(Arrivals) /\ Len(got) <= Len(sent)
  BY <1>2 DEF Agree
<1>4. /\ Whole(buf, wire, Stream(sent, got)) /\ Len(got) < Len(sent)
      /\ Begun(at, buf, Current)
  BY <1>2 DEF Together, Partly
<1> QED BY <1>1, <1>2, <1>3, <1>4, Ahead DEF Current

\* mqtt_message_receive begins, or goes on with what is in the buffer.
LEMMA InSyncBegin ==
  ASSUME Scalars, Streams, InSync, online, ~cut, Begin
  PROVE  InSync'
<1>1. /\ at = "idle"
      /\ at' = IF buf = <<>> THEN "first"
               ELSE IF Len(buf) = 1 \/ LengthGoesOn(buf) THEN "length" ELSE "header"
      /\ UNCHANGED <<wire, sent, got, buf>>
  BY DEF Begin, linkVars
<1>2. CASE buf = <<>>
  <2>1. Agree /\ Together
    BY <1>1 DEF InSync
  <2>2. wire = Stream(sent, got) /\ wire \in Seq(Byte)
    <3>1. wire \in Seq(Byte) /\ <<>> \o wire = Stream(sent, got)
      BY <1>2, <2>1 DEF Streams, Together, Whole
    <3> QED BY <3>1, ConcatEmptySeq
  <2>3. Agree' /\ wire' = Stream(sent', got') /\ wire' \in Seq(Byte)
    BY <1>1, <2>1, <2>2 DEF Agree
  <2> QED BY <1>1, <1>2, <2>3, InSyncBetween
<1>3. CASE buf # <<>>
  <2>1. /\ Agree /\ Whole(buf, wire, Stream(sent, got)) /\ Len(got) < Len(sent)
        /\ Begun("idle", buf, Current) /\ Current \in Messages /\ buf \in Seq(Byte)
    BY <1>1, <1>3, InSyncPartly
  <2>2. Begun(IF Len(buf) = 1 \/ LengthGoesOn(buf) THEN "length" ELSE "header",
              buf, Current)
    BY <1>3, <2>1, BegunIdle
  <2>3. Begun(at', buf', Current) /\ at' \notin {"first", "payload"}
    BY <1>1, <1>3, <2>2
  <2>4. Whole(buf', wire', Stream(sent, got))
    BY <1>1, <2>1
  <2> QED BY <1>1, <2>1, <2>3, <2>4, InSyncGoesOn
<1> QED BY <1>2, <1>3

\* The reader gets the first byte of a packet.
LEMMA InSyncFirst ==
  ASSUME Scalars, Streams, InSync, online, ~cut, ReadFirst
  PROVE  InSync'
<1>1. PICK e \in Bytes(1) : Reads(e) /\ HasValidHeader(e[1]) /\ buf' = e
  BY DEF ReadFirst
<1>2. at = "first" /\ at' = "length" /\ got' = got /\ sent' = sent
  BY <1>1 DEF ReadFirst, Reads
<1>3. buf = <<>>
  BY <1>2 DEF InSync
<1>4. e \in Seq(Byte)
  BY <1>1, BytesIs DEF Streams
<1>5. e = buf \o e
  BY <1>3, <1>4, ConcatEmptySeq
<1>6. /\ Agree /\ Len(got) < Len(sent) /\ Current \in Messages
      /\ wire' \in Seq(Byte) /\ Len(e) >= 1 /\ Len(e) <= 1 /\ Len(e) \in Nat
      /\ Stream(sent, Append(got, Current)) \in Seq(Byte)
      /\ Same(e, wire', Packet(Current), Stream(sent, Append(got, Current)))
      /\ Whole(e, wire', Stream(sent, got))
  BY <1>1, <1>2, <1>5, InSyncReads
<1>7. Len(e) = 1
  <2>1. Len(e) \in Nat /\ Len(e) >= 1 /\ Len(e) <= 1
    BY <1>6
  <2> QED BY <2>1, OnlyOne
<1>8. Begun("length", e, Current)
  BY <1>1, <1>4, <1>6, <1>7, BegunFirst
<1> QED BY <1>1, <1>2, <1>6, <1>8, InSyncGoesOn

\* The reader gets one byte of the length.
LEMMA InSyncLength ==
  ASSUME LengthsPlain, Scalars, Streams, InSync, online, ~cut, ReadLength
  PROVE  InSync'
<1>1. PICK e \in Bytes(1) : Reads(e) /\ buf' = buf \o e
  BY DEF ReadLength
<1>2. /\ at = "length" /\ at' = IF LengthGoesOn(buf') THEN "length" ELSE "header"
      /\ got' = got /\ sent' = sent
  BY <1>1 DEF ReadLength, Reads
<1>3. buf # <<>>
  BY <1>2 DEF Streams
<1>4. Begun("length", buf, Current) /\ buf \in Seq(Byte)
  BY <1>2, <1>3, InSyncPartly
<1>5. PICK c : c = buf \o e
  OBVIOUS
<1>6. /\ Agree /\ Len(got) < Len(sent) /\ Current \in Messages
      /\ wire' \in Seq(Byte) /\ e \in Seq(Byte)
      /\ Len(e) >= 1 /\ Len(e) <= 1 /\ Len(e) \in Nat
      /\ Stream(sent, Append(got, Current)) \in Seq(Byte)
      /\ Same(c, wire', Packet(Current), Stream(sent, Append(got, Current)))
      /\ Whole(c, wire', Stream(sent, got))
  BY <1>1, <1>2, <1>5, InSyncReads
<1>7. Len(e) = 1
  <2>1. Len(e) \in Nat /\ Len(e) >= 1 /\ Len(e) <= 1
    BY <1>6
  <2> QED BY <2>1, OnlyOne
<1>8. Begun(IF LengthGoesOn(c) THEN "length" ELSE "header", c, Current)
  BY <1>3, <1>4, <1>5, <1>6, <1>7, BegunLength
<1>9. buf' = c /\ at' \notin {"first", "payload"}
  BY <1>1, <1>2, <1>5
<1>10. Begun(at', buf', Current) /\ Whole(buf', wire', Stream(sent, got))
  BY <1>2, <1>6, <1>8, <1>9
<1> QED BY <1>2, <1>6, <1>9, <1>10, InSyncGoesOn

\* The reader has the whole fixed header.
LEMMA InSyncHeader ==
  ASSUME Scalars, Streams, InSync, online, ~cut, ReadHeader
  PROVE  InSync'
<1>1. /\ at = "header"
      /\ at' = IF TotalLength(buf) <= InBuffer THEN "rest"
               ELSE IF Len(buf) < FixedLength(buf) + 2 THEN "topic" ELSE "large"
      /\ TotalLength(buf) > InBuffer => IsPublish(buf[1])
      /\ UNCHANGED <<wire, sent, got, buf>>
  BY DEF ReadHeader, linkVars
<1>2. buf # <<>>
  BY <1>1 DEF Streams
<1>3. /\ Agree /\ Whole(buf, wire, Stream(sent, got)) /\ Len(got) < Len(sent)
      /\ Begun("header", buf, Current) /\ Current \in Messages /\ buf \in Seq(Byte)
  BY <1>1, <1>2, InSyncPartly
<1>4. Begun(IF TotalLength(buf) <= InBuffer THEN "rest"
            ELSE IF Len(buf) < FixedLength(buf) + 2 THEN "topic" ELSE "large",
            buf, Current)
  BY <1>1, <1>2, <1>3, BegunHeader
<1>5. at' \notin {"first", "payload"} /\ buf' = buf /\ wire' = wire
  BY <1>1
<1>6. Begun(at', buf', Current) /\ Whole(buf', wire', Stream(sent, got))
  BY <1>1, <1>3, <1>4
<1> QED BY <1>1, <1>3, <1>5, <1>6, InSyncGoesOn

\* The reader gets bytes of the length of the topic.
LEMMA InSyncTopic ==
  ASSUME InBuffer >= HeaderSize + 4, Scalars, Streams, InSync, online, ~cut,
         ReadTopicLength
  PROVE  InSync'
<1>1. PICK e \in Bytes(Len(buf) - FixedLength(buf) + 2) : Reads(e) /\ buf' = buf \o e
  BY DEF ReadTopicLength
<1>2. /\ at = "topic"
      /\ at' = IF Len(buf') < FixedLength(buf') + 2 THEN "idle" ELSE "large"
      /\ got' = got /\ sent' = sent
  BY <1>1 DEF ReadTopicLength, Reads
<1>3. buf # <<>>
  BY <1>2 DEF Streams
<1>4. Begun("topic", buf, Current) /\ buf \in Seq(Byte)
  BY <1>2, <1>3, InSyncPartly
<1>5. PICK c : c = buf \o e
  OBVIOUS
<1>6. /\ Agree /\ Len(got) < Len(sent) /\ Current \in Messages
      /\ wire' \in Seq(Byte) /\ e \in Seq(Byte)
      /\ Len(e) <= Len(buf) - FixedLength(buf) + 2
      /\ Stream(sent, Append(got, Current)) \in Seq(Byte)
      /\ Same(c, wire', Packet(Current), Stream(sent, Append(got, Current)))
      /\ Whole(c, wire', Stream(sent, got))
  BY <1>1, <1>2, <1>5, InSyncReads
<1>7. Begun(IF Len(c) < FixedLength(c) + 2 THEN "idle" ELSE "large", c, Current)
  BY <1>3, <1>4, <1>5, <1>6, BegunTopic
<1>8. buf' = c /\ at' \notin {"first", "payload"}
  BY <1>1, <1>2, <1>5
<1>9. Begun(at', buf', Current) /\ Whole(buf', wire', Stream(sent, got))
  BY <1>2, <1>6, <1>7, <1>8
<1> QED BY <1>2, <1>6, <1>8, <1>9, InSyncGoesOn

\* A read gets fewer bytes than it wants, and none is lost.
LEMMA InSyncTimesOut ==
  ASSUME InBuffer >= HeaderSize + 4, Scalars, Streams, InSync, online, ~cut, TimesOut
  PROVE  InSync'
<1>1. /\ at \in {"length", "topic", "rest", "large"} /\ at' = "idle"
      /\ at \in {"rest", "large"} => Len(buf) < WantedOf(buf)
      /\ UNCHANGED <<wire, sent, got, buf>>
  BY DEF TimesOut, linkVars, Wanted, WantedOf
<1>2. buf # <<>> /\ at # "payload"
  BY <1>1 DEF Streams
<1>3. /\ Agree /\ Whole(buf, wire, Stream(sent, got)) /\ Len(got) < Len(sent)
      /\ Begun(at, buf, Current) /\ Current \in Messages /\ buf \in Seq(Byte)
  BY <1>2, InSyncPartly
<1>4. Begun("idle", buf, Current)
  BY <1>1, <1>2, <1>3, BegunWaits
<1>5. Begun(at', buf', Current) /\ Whole(buf', wire', Stream(sent, got))
  BY <1>1, <1>3, <1>4
<1>6. at' \notin {"first", "payload"}
  BY <1>1
<1> QED BY <1>1, <1>3, <1>5, <1>6, InSyncGoesOn

\* c of the first packet is delivered.
LEMMA InSyncDelivered ==
  ASSUME Agree, sent \in Seq(Messages), sent' = sent, Len(got) < Len(sent),
         Current \in Messages, NEW c,
         Delivered(Current, c, wire', Stream(sent, Append(got, Current))), Delivers(c)
  PROVE  InSync'
<1>1. PICK m \in Messages : m = Current
  OBVIOUS
<1>2. Delivered(m, c, wire', Stream(sent, Append(got, m)))
  BY <1>1
<1>3. \E x, y \in Seq(Byte) :
        /\ x \o y = Received(m).data /\ Decoded(c) = [Received(m) EXCEPT !.data = x]
        /\ Len(y) = TotalLength(c) - Len(c) /\ wire' = y \o Stream(sent, Append(got, m))
        /\ Len(y) > 0 => m.type = "PUBLISH"
  BY <1>2 DEF Delivered
<1>4. PICK x \in Seq(Byte), y \in Seq(Byte) :
        /\ x \o y = Received(m).data /\ Decoded(c) = [Received(m) EXCEPT !.data = x]
        /\ Len(y) = TotalLength(c) - Len(c) /\ wire' = y \o Stream(sent, Append(got, m))
        /\ Len(y) > 0 => m.type = "PUBLISH"
  BY <1>3
<1>5. /\ event' = Decoded(c) /\ rest' = TotalLength(c) - Len(c) /\ buf' = <<>>
      /\ rest' > 0 => at' = "payload" /\ got' = got
      /\ ~(rest' > 0) => at' = "idle" /\ got' = Append(got, event')
  BY DEF Delivers
<1>6. Advances(m, x, y) /\ (rest' > 0 => m.type = "PUBLISH")
  BY <1>4, <1>5 DEF Advances
<1> QED BY <1>1, <1>5, <1>6, InSyncDelivers

\* The reader gets the rest of what it wants of the packet.
LEMMA InSyncRest ==
  ASSUME IdentifiersFound, Scalars, Streams, InSync, online, ~cut, ReadRest
  PROVE  InSync'
<1>1. /\ at \in {"rest", "large"}
      /\ at = "large" => HeaderCounted(buf) <= InBuffer
      /\ \/ Len(buf) >= WantedOf(buf) /\ Delivers(buf) /\ UNCHANGED <<wire, sent>>
         \/ /\ ~(Len(buf) >= WantedOf(buf))
            /\ \E b \in Bytes(WantedOf(buf) - Len(buf)) :
                 /\ Reads(b)
                 /\ \/ /\ Len(buf \o b) < WantedOf(buf)
                       /\ buf' = buf \o b /\ at' = "idle" /\ UNCHANGED got
                    \/ ~(Len(buf \o b) < WantedOf(buf)) /\ Delivers(buf \o b)
  BY DEF ReadRest, Wanted, WantedOf
<1>2. buf # <<>> /\ at # "payload"
  BY <1>1 DEF Streams
<1>3. /\ Agree /\ Len(got) < Len(sent) /\ sent \in Seq(Messages)
      /\ Begun(at, buf, Current) /\ Current \in Messages
      /\ buf \in Seq(Byte) /\ wire \in Seq(Byte)
      /\ Stream(sent, Append(got, Current)) \in Seq(Byte)
      /\ Same(buf, wire, Packet(Current), Stream(sent, Append(got, Current)))
  BY <1>2, InSyncPartly
<1>4. /\ WantedOf(buf) <= Len(Packet(Current)) /\ WantedOf(buf) \in Nat
      /\ Len(Packet(Current)) \in Nat /\ Len(buf) \in Nat
      /\ WantedOf(buf) <= InBuffer /\ InBuffer \in Nat
  BY <1>1, <1>2, <1>3, WantedIs, MessageAssumption
<1>5. CASE Len(buf) >= WantedOf(buf) /\ Delivers(buf) /\ UNCHANGED <<wire, sent>>
  <2>1. Len(buf) <= Len(Packet(Current)) /\ Len(buf) <= InBuffer
    <3>1. Begins(buf, Packet(Current)) /\ Len(buf) <= InBuffer
      BY <1>3 DEF Begun
    <3> QED BY <3>1 DEF Begins
  <2>2. WantedOf(buf) <= Len(buf) /\ ~Malformed(buf)
    BY <1>4, <1>5 DEF Delivers
  <2>3. Delivered(Current, buf, wire, Stream(sent, Append(got, Current)))
    BY <1>1, <1>2, <1>3, <2>1, <2>2, BegunDelivered
  <2> QED BY <1>3, <1>5, <2>3, InSyncDelivered
<1>6. ASSUME ~(Len(buf) >= WantedOf(buf)),
             NEW b \in Bytes(WantedOf(buf) - Len(buf)), Reads(b),
             \/ /\ Len(buf \o b) < WantedOf(buf)
                /\ buf' = buf \o b /\ at' = "idle" /\ UNCHANGED got
             \/ ~(Len(buf \o b) < WantedOf(buf)) /\ Delivers(buf \o b)
      PROVE  InSync'
  <2>1. PICK c : c = buf \o b
    OBVIOUS
  <2>2. /\ c \in Seq(Byte) /\ wire' \in Seq(Byte) /\ b \in Seq(Byte)
        /\ Len(b) <= WantedOf(buf) - Len(buf)
        /\ Same(c, wire', Packet(Current), Stream(sent, Append(got, Current)))
        /\ Whole(c, wire', Stream(sent, got))
    BY <1>2, <1>6, <2>1, InSyncReads
  <2>3. Len(c) = Len(buf) + Len(b) /\ Len(b) \in Nat /\ Len(c) \in Nat
    BY <1>3, <2>1, <2>2, Joined
  <2>4. sent' = sent
    BY <1>6 DEF Reads
  <2>5. CASE Len(c) < WantedOf(buf) /\ buf' = c /\ at' = "idle" /\ got' = got
    <3>1. Begun("idle", c, Current)
      BY <1>1, <1>2, <1>3, <2>2, <2>5, BegunRest
    <3>2. Begun(at', buf', Current) /\ Whole(buf', wire', Stream(sent, got))
      BY <2>2, <2>5, <3>1
    <3>3. at' \notin {"first", "payload"}
      BY <2>5
    <3> QED BY <1>3, <2>4, <2>5, <3>2, <3>3, InSyncGoesOn
  <2>6. CASE ~(Len(c) < WantedOf(buf)) /\ Delivers(c)
    <3>1. /\ WantedOf(buf) <= Len(c) /\ Len(c) <= Len(Packet(Current))
          /\ Len(c) <= InBuffer
      <4>1. Len(b) <= WantedOf(buf) - Len(buf) /\ ~(Len(c) < WantedOf(buf))
        BY <2>2, <2>6
      <4> QED BY <1>4, <2>3, <4>1
    <3>3. ~Malformed(c)
      BY <2>6 DEF Delivers
    <3>2. Delivered(Current, c, wire', Stream(sent, Append(got, Current)))
      BY <1>1, <1>2, <1>3, <2>2, <3>1, <3>3, BegunDelivered
    <3> QED BY <1>3, <2>4, <2>6, <3>2, InSyncDelivered
  <2> QED BY <1>6, <2>1, <2>5, <2>6
<1> QED BY <1>1, <1>5, <1>6

\* b of the data d is read after c, and w is what remains of them and r.
Further(c, b, d, r, w) ==
  \E y \in Seq(Byte) : /\ c \o b \in Seq(Byte) /\ (c \o b) \o y = c \o d
                        /\ Len(y) = Len(d) - Len(b) /\ w = y \o r

\* More of the data has been read, and less is on its way.
LEMMA MoreData ==
  ASSUME NEW c \in Seq(Byte), NEW d \in Seq(Byte), NEW b \in Seq(Byte),
         NEW w \in Seq(Byte), NEW r \in Seq(Byte), Same(b, w, d, r), Len(b) <= Len(d)
  PROVE  Further(c, b, d, r, w)
<1> DEFINE y == SubSeq(d, Len(b) + 1, Len(d))
           z == SubSeq(d, 1, Len(b))
<1>0. Len(b) \in 0 .. Len(d)
  <2> Len(b) \in Nat /\ Len(d) \in Nat
    OBVIOUS
  <2> QED OBVIOUS
<1>1. Begins(b, d) /\ After(b, d, r, w)
  BY Cut
<1>2. /\ z \in Seq(Byte) /\ Len(z) = Len(b) /\ y \in Seq(Byte)
      /\ Len(y) = Len(d) - Len(b) /\ z \o y = d
      /\ \A i \in 1 .. Len(b) : z[i] = d[i]
  <2> DEFINE j == Len(b)
  <2>1. j \in 0 .. Len(d)
    BY <1>0
  <2> HIDE DEF j
  <2>2. /\ SubSeq(d, 1, j) \in Seq(Byte) /\ Len(SubSeq(d, 1, j)) = j
        /\ SubSeq(d, j + 1, Len(d)) \in Seq(Byte)
        /\ Len(SubSeq(d, j + 1, Len(d))) = Len(d) - j
        /\ \A i \in 1 .. j : SubSeq(d, 1, j)[i] = d[i]
        /\ SubSeq(d, 1, j) \o SubSeq(d, j + 1, Len(d)) = d
    BY <2>1, Split
  <2> QED BY <2>2 DEF j
<1>3. w = y \o r
  BY <1>1 DEF After
<1> HIDE DEF y, z
<1>4. b = z
  <2>1. \A i \in 1 .. Len(b) : b[i] = z[i]
    BY <1>1, <1>2 DEF Begins
  <2> QED BY <1>2, <2>1, SeqEqual
<1>5. (c \o b) \o y = c \o (b \o y)
  <2>1. \A t \in Seq(Byte) : (c \o b) \o t = c \o (b \o t)
    BY Associative
  <2>2. y \in Seq(Byte)
    BY <1>2
  <2> QED BY <2>1, <2>2
<1>6. c \o b \in Seq(Byte)
  BY Joined
<1> QED BY <1>2, <1>3, <1>4, <1>5, <1>6 DEF Further

\* deliver_publish reads more of the data of a large message.
LEMMA InSyncPayload ==
  ASSUME Scalars, Streams, InSync, online, ~cut, ReadPayload
  PROVE  InSync'
<1>1. at = "payload"
  BY DEF ReadPayload
<1>2. /\ Agree /\ Payload /\ buf = <<>> /\ sent \in Seq(Messages) /\ wire \in Seq(Byte)
  BY <1>1 DEF InSync, Streams
<1>3. /\ Len(got) < Len(sent) /\ Current.type = "PUBLISH"
      /\ \E c, d \in Seq(Byte) : Halfway(Current, c, d)
  BY <1>2 DEF Payload
<1>4. got \in Seq(Arrivals) /\ Len(got) \in Nat /\ Len(sent) \in Nat
  BY <1>2 DEF Agree
<1>5. Current \in Messages
  <2>1. Len(got) + 1 \in 1 .. Len(sent)
    BY <1>3, <1>4
  <2> QED BY <1>2, <2>1, ElementOfSeq DEF Current
<1>6. PICK m \in Messages : m = Current
  BY <1>5
<1>7. PICK c \in Seq(Byte), d \in Seq(Byte) : Halfway(m, c, d)
  BY <1>3, <1>6
<1> DEFINE r == Stream(sent, Append(got, m))
<1>8. /\ c \o d = Received(m).data /\ event = [Received(m) EXCEPT !.data = c]
      /\ rest = Len(d) /\ wire = d \o r
  BY <1>7 DEF Halfway
<1>9. r \in Seq(Byte)
  <2>1. Len(Append(got, m)) = Len(got) + 1
    BY <1>4, MessageIs, AppendProperties DEF Arrivals
  <2>2. Len(Append(got, m)) \in Nat /\ Len(Append(got, m)) <= Len(sent)
    BY <1>3, <1>4, <2>1
  <2> QED BY <1>2, <2>2, StreamIs
<1>10. PICK n : /\ n \in {IF rest < InBuffer THEN rest ELSE InBuffer}
                /\ \E b \in Bytes(n) : /\ Reads(b) /\ rest' = rest - Len(b)
                                       /\ event' = [event EXCEPT !.data = @ \o b]
  BY DEF ReadPayload
<1>11. PICK b \in Bytes(n) : /\ Reads(b) /\ rest' = rest - Len(b)
                             /\ event' = [event EXCEPT !.data = @ \o b]
  BY <1>10
<1>12. /\ b \in Seq(Byte) /\ Len(b) \in Nat /\ Len(b) <= n
       /\ wire' \in Seq(Byte) /\ b \o wire' = wire
  BY <1>2, <1>11, BytesIs DEF Reads
<1>13. Len(b) <= Len(d)
  <2>1. n <= Len(d)
    <3>1. n \in {IF rest < InBuffer THEN rest ELSE InBuffer} /\ rest = Len(d)
      BY <1>8, <1>10
    <3>2. Len(d) \in Nat /\ InBuffer \in Nat
      BY MessageAssumption
    <3> QED BY <3>1, <3>2
  <2>2. n \in Int
    <3>1. n \in {IF rest < InBuffer THEN rest ELSE InBuffer} /\ rest = Len(d)
      BY <1>8, <1>10
    <3>2. Len(d) \in Nat /\ InBuffer \in Nat
      BY MessageAssumption
    <3> QED BY <3>1, <3>2
  <2>3. Len(d) \in Nat
    OBVIOUS
  <2> QED BY <1>12, <2>1, <2>2, <2>3
<1> HIDE DEF r
<1>14. Same(b, wire', d, r)
  BY <1>8, <1>12 DEF Same
<1>15. PICK y \in Seq(Byte) : /\ c \o b \in Seq(Byte) /\ (c \o b) \o y = c \o d
                              /\ Len(y) = Len(d) - Len(b) /\ wire' = y \o r
  <2>1. Further(c, b, d, r, wire')
    BY <1>9, <1>12, <1>13, <1>14, MoreData
  <2> QED BY <2>1 DEF Further
<1>16. event' = [Received(m) EXCEPT !.data = c \o b]
  <2>1. Received(m) \in Publications \/ Received(m) \in Others
    BY ReceivedIs DEF Arrivals
  <2> QED BY <1>8, <1>11, <2>1 DEF Publications, Others
<1>17. Advances(m, c \o b, y)
  <2>1. rest' = Len(y)
    BY <1>8, <1>11, <1>15
  <2>2. (c \o b) \o y = Received(m).data /\ wire' = y \o r
    BY <1>8, <1>15
  <2> QED BY <1>16, <2>1, <2>2 DEF Advances, r
<1>18. /\ buf' = <<>> /\ sent' = sent
       /\ rest' > 0 => at' = "payload" /\ got' = got
       /\ ~(rest' > 0) => at' = "idle" /\ got' = Append(got, event')
  BY <1>1, <1>2, <1>11 DEF ReadPayload, Reads
<1>19. m.type = "PUBLISH"
  BY <1>3, <1>6
<1> QED BY <1>2, <1>3, <1>6, <1>15, <1>17, <1>18, <1>19, InSyncDelivers

\* The plans the theorems are about
Plain ==
  /\ OffsetsHarmless /\ LengthsPlain /\ IdentifiersFound
  /\ InBuffer >= HeaderSize + 4

\* Every step keeps reader and writer in step.
LEMMA InSyncStep ==
  ASSUME Plain, Scalars, Scalars', Offsets, Queue, Streams, InSync, [Next]_vars
  PROVE  InSync'
<1>1. CASE ~online' \/ cut'
  BY <1>1 DEF InSync
<1>2. CASE online' /\ ~cut'
  <2>1. ASSUME UNCHANGED <<linkVars, readerVars>> PROVE InSync'
    <3>1. UNCHANGED <<online, wire, sent, got, cut, buf, at, event, rest>>
      BY <2>1 DEF linkVars, readerVars
    <3> QED
      BY <3>1 DEF InSync, Agree, Together, Partly, Payload, Current, Halfway
  <2>2. CASE Writer
    <3>1. UNCHANGED <<online, got, cut, readerVars>>
      BY <2>2, WriterIs
    <3>2. CASE UNCHANGED <<wire, sent>>
      <4>1. UNCHANGED <<online, wire, sent, got, cut, buf, at, event, rest>>
        BY <3>1, <3>2 DEF readerVars
      <4> QED
        BY <4>1 DEF InSync, Agree, Together, Partly, Payload, Current, Halfway
    <3>3. ASSUME online, NEW m \in Messages, wire' = wire \o Packet(m),
                 sent' = Append(sent, m)
          PROVE  InSync'
      BY <3>1, <3>3, InSyncWrites
    <3> QED BY <2>2, <3>2, <3>3, WriterIs
  <2>3. CASE Connect
    <3>1. ~online /\ buf' = <<>> /\ at' = "idle" /\ UNCHANGED <<wire, sent, got>>
      BY <2>3 DEF Connect
    <3>2. wire = <<>> /\ sent = <<>> /\ got = <<>>
      BY <3>1 DEF Streams
    <3>3. <<>> \in Seq(Byte) /\ <<>> \in Seq(Messages) /\ Len(<<>>) = 0
      OBVIOUS
    <3>4. Stream(<<>>, <<>>) = <<>>
      <4>1. Len(<<>>) \in Nat /\ Len(<<>>) <= Len(<<>>)
        BY <3>3
      <4> QED BY <3>3, <4>1, StreamIs
    <3>5. Agree'
      BY <3>1, <3>2, <3>3 DEF Agree
    <3> QED BY <3>1, <3>2, <3>3, <3>4, <3>5, InSyncBetween
  <2>4. CASE Lose \/ ReadInvalid \/ TooBig \/ ReadMalformed \/ Stalls
    BY <1>2, <2>4 DEF Lose, ReadInvalid, TooBig, ReadMalformed, Stalls, Closes
  <2>5. CASE Reader /\ ~PayloadStalls /\ ~ReadInvalid /\ ~TooBig /\ ~ReadMalformed
             /\ ~Stalls
    <3>1. online /\ ~cut
      <4>1. at # "closed" /\ cut' = cut
        BY <2>5
        DEF Reader, Begin, NoMessage, ReadFirst, ReadLength, ReadHeader, ReadTopicLength,
            ReadRest, ReadPayload, TimesOut, Reads, linkVars
      <4> QED BY <1>2, <4>1 DEF Scalars
    <3>2. CASE NoMessage
      <4>1. /\ at = "first" /\ at' = "idle"
            /\ UNCHANGED <<online, wire, sent, got, cut, buf, event, rest>>
        BY <3>2 DEF NoMessage, linkVars
      <4>2. Agree /\ Together /\ buf = <<>>
        BY <3>1, <4>1 DEF InSync
      <4>3. Agree' /\ Together' /\ buf' = <<>>
        BY <4>1, <4>2 DEF Agree, Together
      <4> QED BY <4>1, <4>3 DEF InSync
    <3>3. CASE Begin
      BY <3>1, <3>3, InSyncBegin
    <3>4. CASE ReadFirst
      BY <3>1, <3>4, InSyncFirst
    <3>5. CASE ReadLength
      BY <3>1, <3>5, InSyncLength DEF Plain
    <3>6. CASE ReadHeader
      BY <3>1, <3>6, InSyncHeader
    <3>7. CASE ReadTopicLength
      BY <3>1, <3>7, InSyncTopic DEF Plain
    <3>8. CASE ReadRest
      BY <3>1, <3>8, InSyncRest DEF Plain
    <3>9. CASE ReadPayload
      BY <3>1, <3>9, InSyncPayload
    <3>10. CASE TimesOut
      BY <3>1, <3>10, InSyncTimesOut DEF Plain
    <3> QED BY <2>5, <3>2, <3>3, <3>4, <3>5, <3>6, <3>7, <3>8, <3>9, <3>10 DEF Reader
  <2>6. CASE PayloadStalls
    BY <1>2, <2>6 DEF PayloadStalls
  <2>7. CASE UNCHANGED vars
    BY <2>1, <2>7 DEF vars
  <2> QED BY <2>2, <2>3, <2>4, <2>5, <2>6, <2>7 DEF Next, Reader
<1> QED BY <1>1, <1>2

-----------------------------------------------------------------------------
(* The buffer of the reader *)

\* Part of what is readable is readable.
LEMMA ReadableParts ==
  ASSUME NEW x \in Seq(Byte), NEW y \in Seq(Byte), Readable(x \o y)
  PROVE  Readable(x) /\ Readable(y)
<1> DEFINE a == Len(x)
           b == Len(y)
           t == x \o y
<1>1. /\ a \in Nat /\ b \in Nat /\ Len(t) = a + b
      /\ \A i \in 1 .. a : t[i] = x[i]
      /\ \A i \in 1 .. b : t[a + i] = y[i]
  BY Joined
<1>2. \A i \in 1 .. Len(t) - 3 : \E j \in i .. i + 3 : t[j] < Base
  BY DEF Readable
<1> HIDE DEF a, b, t
<1>3. ASSUME NEW i \in 1 .. a - 3 PROVE \E j \in i .. i + 3 : x[j] < Base
  <2>1. i \in 1 .. Len(t) - 3 /\ \A j \in i .. i + 3 : j \in 1 .. a
    BY <1>1
  <2>2. PICK j \in i .. i + 3 : t[j] < Base
    BY <1>2, <2>1
  <2>3. x[j] < Base
    BY <1>1, <2>1, <2>2
  <2> QED BY <2>3
<1>4. ASSUME NEW i \in 1 .. b - 3 PROVE \E j \in i .. i + 3 : y[j] < Base
  <2>1. a + i \in 1 .. Len(t) - 3
    BY <1>1
  <2>2. PICK j \in a + i .. (a + i) + 3 : t[j] < Base
    BY <1>2, <2>1
  <2>3. PICK h \in i .. i + 3 : j = a + h /\ h \in 1 .. b
    <3>1. j - a \in i .. i + 3 /\ j = a + (j - a) /\ j - a \in 1 .. b
      BY <1>1, <2>2
    <3> QED BY <3>1
  <2>4. y[h] < Base
    BY <1>1, <2>2, <2>3
  <2> QED BY <2>4
<1> QED BY <1>3, <1>4 DEF Readable, a, b

\* Of three readable parts the middle one separates the others.
LEMMA ReadableJoined ==
  ASSUME NEW x \in Seq(Byte), NEW p \in Seq(Byte), NEW q \in Seq(Byte),
         Readable(x \o p), Readable(p \o q), NEW k \in 1 .. Len(p), p[k] < Base
  PROVE  Readable((x \o p) \o q)
<1> DEFINE a == Len(x)
           b == Len(p)
           c == Len(q)
           s == x \o p
           t == p \o q
           u == s \o q
<1>1. /\ a \in Nat /\ b \in Nat /\ c \in Nat /\ s \in Seq(Byte)
      /\ Len(s) = a + b /\ \A i \in 1 .. b : s[a + i] = p[i]
  BY Joined
<1>2. Len(t) = b + c /\ \A i \in 1 .. b : t[i] = p[i]
  BY Joined
<1>3. \A i \in 1 .. c : t[b + i] = q[i]
  BY Joined
<1>4. \A i \in 1 .. Len(s) - 3 : \E j \in i .. i + 3 : s[j] < Base
  BY DEF Readable
<1>5. \A i \in 1 .. Len(t) - 3 : \E j \in i .. i + 3 : t[j] < Base
  BY DEF Readable
<1> HIDE DEF s, t
<1>6. /\ Len(u) = Len(s) + c
      /\ \A i \in 1 .. Len(s) : u[i] = s[i]
      /\ \A i \in 1 .. c : u[Len(s) + i] = q[i]
  <2> s \in Seq(Byte)
    BY <1>1
  <2> QED BY Joined
<1> HIDE DEF a, b, c, u
<1>7. ASSUME NEW i \in 1 .. b + c PROVE u[a + i] = t[i]
  <2>1. CASE i <= b
    <3>1. a + i \in 1 .. Len(s) /\ i \in 1 .. b
      BY <1>1, <2>1
    <3> QED BY <1>1, <1>2, <1>6, <3>1
  <2>2. CASE ~(i <= b)
    <3>1. i - b \in 1 .. c /\ a + i = Len(s) + (i - b) /\ i = b + (i - b)
      BY <1>1, <2>2
    <3> QED BY <1>3, <1>6, <3>1
  <2> QED BY <2>1, <2>2
<1>8. Len(u) = (a + b) + c
  BY <1>1, <1>6
<1>9. ASSUME NEW i \in 1 .. Len(u) - 3 PROVE \E j \in i .. i + 3 : u[j] < Base
  <2>1. CASE i + 3 <= a + b
    <3>1. i \in 1 .. Len(s) - 3 /\ \A j \in i .. i + 3 : j \in 1 .. Len(s)
      BY <1>1, <2>1
    <3>2. PICK j \in i .. i + 3 : s[j] < Base
      BY <1>4, <3>1
    <3>3. u[j] < Base
      BY <1>6, <3>1, <3>2
    <3> QED BY <3>3
  <2>2. CASE i > a
    <3>1. i - a \in 1 .. Len(t) - 3
      BY <1>1, <1>2, <1>8, <2>2
    <3>2. PICK h \in i - a .. (i - a) + 3 : t[h] < Base
      BY <1>5, <3>1
    <3>3. h \in 1 .. b + c /\ a + h \in i .. i + 3
      BY <1>1, <1>8, <2>2, <3>2
    <3>4. u[a + h] < Base
      BY <1>7, <3>2, <3>3
    <3> QED BY <3>3, <3>4
  <2>3. CASE i <= a /\ i + 3 > a + b
    <3>1. k \in 1 .. b + c /\ k \in 1 .. b /\ a + k \in i .. i + 3
      BY <1>1, <2>3 DEF b
    <3>2. u[a + k] < Base
      BY <1>2, <1>7, <3>1
    <3> QED BY <3>1, <3>2
  <2> QED BY <1>1, <2>1, <2>2, <2>3
<1> QED BY <1>9 DEF Readable, u, s

\* x is readable, whatever packet comes after it.
Clear(x) == Readable(x) /\ \A m \in Messages : Readable(x \o Packet(m))

\* No bytes have no long run of high bits.
LEMMA ClearEmpty ==
  ASSUME PacketsReadable
  PROVE  Clear(<<>>)
<1>1. Readable(<<>>)
  BY DEF Readable
<1>2. ASSUME NEW m \in Messages PROVE Readable(<<>> \o Packet(m))
  <2>1. Packet(m) \in Seq(Byte)
    BY PacketIs
  <2>2. Readable(Packet(m) \o Packet(m))
    BY DEF PacketsReadable
  <2>3. Readable(Packet(m))
    BY <2>1, <2>2, ReadableParts
  <2> QED BY <2>1, <2>3, ConcatEmptySeq
<1> QED BY <1>1, <1>2 DEF Clear

\* Neither has the end of bytes that have none.
LEMMA ClearEnd ==
  ASSUME NEW x \in Seq(Byte), NEW y \in Seq(Byte), Clear(x \o y)
  PROVE  Clear(y)
<1>1. Readable(y)
  BY ReadableParts DEF Clear
<1>2. ASSUME NEW m \in Messages PROVE Readable(y \o Packet(m))
  <2>1. Packet(m) \in Seq(Byte)
    BY PacketIs
  <2>2. (x \o y) \o Packet(m) = x \o (y \o Packet(m))
    BY <2>1, Associative
  <2>3. Readable(x \o (y \o Packet(m)))
    BY <2>2 DEF Clear
  <2>4. y \o Packet(m) \in Seq(Byte)
    BY <2>1, Joined
  <2> QED BY <2>3, <2>4, ReadableParts
<1> QED BY <1>1, <1>2 DEF Clear

\* The last byte of its length ends the length of a packet.
LEMMA LengthEnds ==
  ASSUME NEW m \in Messages
  PROVE  \E i \in 1 .. Len(Packet(m)) : Packet(m)[i] < Base
<1> DEFINE n == Len(Body(m))
           k == LengthBytes(n)
<1>1. k \in 1 .. 4 /\ n \in Nat /\ Len(Packet(m)) = 1 + k + n
  BY PacketIs
<1>2. \A i \in 1 .. k : Packet(m)[i + 1] >= Base <=> i < k
  BY PacketIs
<1>3. Packet(m) \in Seq(Byte)
  BY PacketIs
<1> HIDE DEF n, k
<1>4. k + 1 \in 1 .. Len(Packet(m)) /\ k \in 1 .. k /\ ~(k < k)
  BY <1>1
<1>5. ~(Packet(m)[k + 1] >= Base)
  BY <1>2, <1>4
<1>6. Packet(m)[k + 1] \in Byte
  BY <1>3, <1>4, ElementOfSeq
<1>7. Packet(m)[k + 1] < Base
  BY <1>5, <1>6, MessageAssumption DEF Byte
<1> QED BY <1>4, <1>7

\* Nor have such bytes with one more packet after them.
LEMMA ClearMore ==
  ASSUME PacketsReadable, NEW x \in Seq(Byte), Clear(x), NEW m \in Messages
  PROVE  Clear(x \o Packet(m))
<1>1. Readable(x \o Packet(m))
  BY DEF Clear
<1>2. ASSUME NEW n \in Messages PROVE Readable((x \o Packet(m)) \o Packet(n))
  <2>1. PICK p \in Seq(Byte) : p = Packet(m)
    BY PacketIs
  <2>2. PICK q \in Seq(Byte) : q = Packet(n)
    BY PacketIs
  <2>3. Readable(x \o p) /\ Readable(p \o q)
    BY <1>1, <2>1, <2>2 DEF PacketsReadable
  <2>4. PICK k \in 1 .. Len(p) : p[k] < Base
    BY <2>1, LengthEnds
  <2>6. Readable((x \o p) \o q)
    BY <2>3, <2>4, ReadableJoined
  <2> QED BY <2>1, <2>2, <2>6
<1> QED BY <1>1, <1>2 DEF Clear

\* At most five bytes are taken for a fixed header.
LEMMA FixedLengthBound ==
  ASSUME NEW b \in Seq(Byte), Readable(b)
  PROVE  FixedLength(b) \in 1 .. HeaderSize
<1>1. Base \in Nat
  BY MessageAssumption
<1>2. ASSUME NEW i \in LengthAt(b) PROVE i \in 2 .. 5
  <2>1. i \in 2 .. Len(b) /\ \A j \in 2 .. i - 1 : b[j] >= Base
    BY DEF LengthAt
  <2>2. SUFFICES ASSUME i >= 6 PROVE FALSE
    BY <2>1
  <2>3. 2 \in 1 .. Len(b) - 3 /\ Len(b) \in Nat
    BY <2>1, <2>2
  <2>4. \E j \in 2 .. 2 + 3 : b[j] < Base
    BY <2>3 DEF Readable
  <2>5. PICK j \in 2 .. 5 : b[j] < Base
    BY <2>4
  <2>6. j \in 2 .. i - 1 /\ j \in 1 .. Len(b)
    BY <2>1, <2>2, <2>5
  <2>7. b[j] \in Byte
    BY <2>6, ElementOfSeq
  <2> QED BY <1>1, <2>1, <2>5, <2>6, <2>7 DEF Byte
<1>3. LengthAt(b) \subseteq 2 .. 5
  BY <1>2
<1>4. IsFiniteSet(2 .. 5) /\ Cardinality(2 .. 5) = 4
  <2>1. PICK i \in Int, j \in Int : i = 2 /\ j = 5
    OBVIOUS
  <2>2. IsFiniteSet(i .. j) /\ Cardinality(i .. j) = IF i > j THEN 0 ELSE j - i + 1
    BY FS_Interval
  <2> QED BY <2>1, <2>2
<1>5. IsFiniteSet(LengthAt(b)) /\ Cardinality(LengthAt(b)) <= 4
  BY <1>3, <1>4, FS_Subset
<1>6. Cardinality(LengthAt(b)) \in Nat
  BY <1>5, FS_CardinalityType
<1> QED BY <1>5, <1>6 DEF FixedLength, HeaderSize

\* What is in the buffer, and what will be, has no long run of bytes with high
\* bits.
Buffered ==
  /\ Len(buf) <= InBuffer /\ before <= InBuffer
  /\ at = "length" => Len(buf) <= HeaderSize
  /\ at = "topic" => Len(buf) < FixedLength(buf) + 2
  /\ at = "payload" => buf = <<>>
  /\ online => Clear(buf \o wire)

\* The buffer is free, and an end of what there was is on its way.
LEMMA BufferedFree ==
  ASSUME Buffered, buf' = <<>>, before' = before, wire' \in Seq(Byte), Clear(wire'),
         at' \in {"idle", "payload"}
  PROVE  Buffered'
<1>1. <<>> \o wire' = wire'
  BY ConcatEmptySeq
<1>2. Len(<<>>) = 0 /\ 0 <= InBuffer
  BY MessageAssumption
<1> QED BY <1>1, <1>2 DEF Buffered

\* What a read takes belongs to the buffer afterwards.
LEMMA BufferedReads ==
  ASSUME Streams, Buffered, online, NEW n, NEW e \in Bytes(n), Reads(e),
         NEW c, c = buf \o e
  PROVE  /\ e \in Seq(Byte) /\ Len(e) \in Nat /\ Len(e) <= n
         /\ c \in Seq(Byte) /\ Len(c) = Len(buf) + Len(e) /\ Len(buf) \in Nat
         /\ wire' \in Seq(Byte) /\ Clear(c \o wire') /\ Clear(wire') /\ Clear(e \o wire')
<1>1. buf \in Seq(Byte) /\ wire \in Seq(Byte) /\ Clear(buf \o wire)
  BY DEF Streams, Buffered
<1>2. /\ e \in Seq(Byte) /\ Len(e) \in Nat /\ Len(e) <= n
      /\ wire' \in Seq(Byte) /\ e \o wire' = wire
  BY <1>1, BytesIs DEF Reads
<1>3. c \in Seq(Byte) /\ Len(c) = Len(buf) + Len(e) /\ Len(buf) \in Nat
  BY <1>1, <1>2, Joined
<1>4. c \o wire' = buf \o wire
  BY <1>1, <1>2, Associative
<1>5. Clear(wire) /\ Clear(e \o wire')
  BY <1>1, <1>2, ClearEnd
<1>6. Clear(wire')
  BY <1>2, <1>5, ClearEnd
<1> QED BY <1>1, <1>2, <1>3, <1>4, <1>5, <1>6

\* A read for the length of a topic fits.
LEMMA TopicFits ==
  ASSUME NEW f \in 1 .. HeaderSize, NEW l \in Nat, l < f + 2, NEW j \in Nat,
         j <= l - f + 2, NEW i \in Nat, i >= HeaderSize + 4
  PROVE  l + j <= i
  BY DEF HeaderSize

\* What is wanted fits.
LEMMA WantedFits ==
  ASSUME NEW t, NEW i \in Nat, t \in Nat, NEW l \in Nat, NEW j \in Nat,
         j <= (IF t <= i THEN t ELSE i) - l
  PROVE  l + j <= i
  OBVIOUS

\* No step fills the buffer beyond its size.
LEMMA BufferedStep ==
  ASSUME PacketsReadable, InBuffer >= HeaderSize + 4,
         Scalars, Offsets, Queue, Streams, Buffered, [Next]_vars
  PROVE  Buffered'
<1>1. /\ buf \in Seq(Byte) /\ wire \in Seq(Byte) /\ before \in Nat /\ Len(buf) \in Nat
      /\ InBuffer \in Nat
  BY MessageAssumption DEF Streams
<1>2. ASSUME UNCHANGED <<buf, wire, before, online>>,
             at' \notin {"length", "topic", "payload"}
      PROVE  Buffered'
  BY <1>2 DEF Buffered
<1>3. ASSUME online' = FALSE, at' = "closed", UNCHANGED <<buf, before>> PROVE Buffered'
  BY <1>3 DEF Buffered
<1>4. at # "closed" => online
  BY DEF Scalars
<1>5. CASE Writer
  <2>1. UNCHANGED <<online, buf, at, before>>
    BY <1>5, WriterIs DEF readerVars
  <2>2. CASE UNCHANGED <<wire, sent>>
    BY <2>1, <2>2 DEF Buffered
  <2>3. ASSUME online, NEW m \in Messages, wire' = wire \o Packet(m) PROVE Buffered'
    <3>1. Packet(m) \in Seq(Byte) /\ buf \o wire \in Seq(Byte) /\ Clear(buf \o wire)
      BY <1>1, <2>3, PacketIs, Joined DEF Buffered
    <3>2. Clear((buf \o wire) \o Packet(m))
      BY <3>1, ClearMore
    <3>3. (buf \o wire) \o Packet(m) = buf \o (wire \o Packet(m))
      BY <1>1, <3>1, Associative
    <3> QED BY <2>1, <2>3, <3>2, <3>3 DEF Buffered
  <2> QED BY <1>5, <2>2, <2>3, WriterIs
<1>6. CASE Connect
  <2>1. ~online /\ buf' = <<>> /\ at' = "idle" /\ wire' = wire /\ before' = before
    BY <1>6 DEF Connect
  <2>2. wire = <<>> /\ <<>> \in Seq(Byte)
    BY <2>1 DEF Streams
  <2>3. Clear(<<>>)
    BY ClearEmpty
  <2> QED BY <2>1, <2>2, <2>3, BufferedFree
<1>7. CASE Lose \/ ReadInvalid \/ TooBig \/ ReadMalformed \/ Stalls
  BY <1>7, <1>3 DEF Lose, ReadInvalid, TooBig, ReadMalformed, Stalls, Closes
<1>8. CASE Begin
  <2>1. /\ before' = Len(buf)
        /\ at' = IF buf = <<>> THEN "first"
                 ELSE IF Len(buf) = 1 \/ LengthGoesOn(buf) THEN "length" ELSE "header"
        /\ UNCHANGED <<buf, wire, online>>
    BY <1>8 DEF Begin, linkVars
  <2>2. at' = "length" => Len(buf) <= HeaderSize
    <3>1. Len(buf) = 1 => Len(buf) <= HeaderSize
      BY DEF HeaderSize
    <3>2. LengthGoesOn(buf) => Len(buf) <= HeaderSize
      BY <1>1 DEF LengthGoesOn, HeaderSize
    <3> QED BY <2>1, <3>1, <3>2
  <2> QED BY <2>1, <2>2 DEF Buffered
<1>9. CASE NoMessage \/ TimesOut
  <2> UNCHANGED <<buf, wire, before, online>> /\ at' = "idle"
    BY <1>9 DEF NoMessage, TimesOut, linkVars
  <2> QED BY <1>2
<1>10. CASE ReadHeader
  <2>1. /\ at' = IF TotalLength(buf) <= InBuffer THEN "rest"
                 ELSE IF Len(buf) < FixedLength(buf) + 2 THEN "topic" ELSE "large"
        /\ UNCHANGED <<buf, wire, before, online>>
    BY <1>10 DEF ReadHeader, linkVars
  <2>2. at' = "topic" => Len(buf) < FixedLength(buf) + 2
    BY <2>1
  <2>3. at' \notin {"length", "payload"}
    BY <2>1
  <2> QED BY <2>1, <2>2, <2>3 DEF Buffered
<1>11. CASE ReadFirst
  <2>1. PICK e \in Bytes(1) : Reads(e) /\ buf' = e
    BY <1>11 DEF ReadFirst
  <2>2. online /\ at' = "length" /\ before' = before
    BY <1>4, <1>11 DEF ReadFirst
  <2>3. Len(e) \in Nat /\ Len(e) <= 1 /\ Clear(e \o wire')
    BY <2>1, <2>2, BufferedReads
  <2>4. Len(e) <= HeaderSize /\ Len(e) <= InBuffer
    <3>1. Len(e) \in Nat /\ Len(e) <= 1
      BY <2>3
    <3> QED BY <1>1, <3>1 DEF HeaderSize
  <2> QED BY <2>1, <2>2, <2>3, <2>4 DEF Buffered
<1>12. CASE ReadLength
  <2>1. PICK e \in Bytes(1) : Reads(e) /\ buf' = buf \o e
    BY <1>12 DEF ReadLength
  <2>2. /\ online /\ at = "length" /\ before' = before
        /\ at' = IF LengthGoesOn(buf') THEN "length" ELSE "header"
    BY <1>4, <1>12 DEF ReadLength
  <2>3. PICK c : c = buf \o e
    OBVIOUS
  <2>4. /\ Len(e) \in Nat /\ Len(e) <= 1 /\ Len(c) = Len(buf) + Len(e)
        /\ Clear(c \o wire')
    BY <2>1, <2>2, <2>3, BufferedReads
  <2>5. Len(buf) <= HeaderSize
    BY <2>2 DEF Buffered
  <2>6. Len(c) <= InBuffer /\ Len(c) \in Nat
    <3>1. Len(e) \in Nat /\ Len(e) <= 1 /\ Len(c) = Len(buf) + Len(e)
      BY <2>4
    <3> QED BY <1>1, <2>5, <3>1 DEF HeaderSize
  <2>7. LengthGoesOn(c) => Len(c) <= HeaderSize
    BY <2>6 DEF LengthGoesOn, HeaderSize
  <2>8. buf' = c
    BY <2>1, <2>3
  <2>9. (at' = "length" => Len(c) <= HeaderSize) /\ at' \notin {"topic", "payload"}
    BY <2>2, <2>7, <2>8
  <2> QED BY <2>2, <2>4, <2>6, <2>8, <2>9 DEF Buffered
<1>13. CASE ReadTopicLength
  <2>1. PICK e \in Bytes(Len(buf) - FixedLength(buf) + 2) : Reads(e) /\ buf' = buf \o e
    BY <1>13 DEF ReadTopicLength
  <2>2. /\ online /\ at = "topic" /\ before' = before
        /\ at' = IF Len(buf') < FixedLength(buf') + 2 THEN "idle" ELSE "large"
    BY <1>4, <1>13 DEF ReadTopicLength
  <2>3. PICK c : c = buf \o e
    OBVIOUS
  <2>4. /\ Len(e) \in Nat /\ Len(e) <= Len(buf) - FixedLength(buf) + 2
        /\ Len(c) = Len(buf) + Len(e) /\ Clear(c \o wire')
    BY <2>1, <2>2, <2>3, BufferedReads
  <2>5. FixedLength(buf) \in 1 .. HeaderSize
    <3>1. Readable(buf)
      BY <1>1, <2>2, ReadableParts DEF Buffered, Clear
    <3> QED BY <1>1, <3>1, FixedLengthBound
  <2>6. Len(buf) < FixedLength(buf) + 2
    BY <2>2 DEF Buffered
  <2>7. Len(buf) + Len(e) <= InBuffer
    <3>1. Len(e) \in Nat /\ Len(e) <= Len(buf) - FixedLength(buf) + 2
      BY <2>4
    <3> QED BY <1>1, <2>5, <2>6, <3>1, TopicFits
  <2>8. buf' = c /\ Len(c) <= InBuffer
    BY <2>1, <2>3, <2>4, <2>7
  <2>9. at' \notin {"length", "topic", "payload"}
    BY <2>2
  <2> QED BY <2>2, <2>4, <2>8, <2>9 DEF Buffered
<1>14. CASE ReadRest
  <2>1. online /\ before' = before /\ buf # <<>>
    BY <1>4, <1>14 DEF ReadRest, Streams
  <2>2. TotalLength(buf) \in Nat
    BY <1>1, <2>1, TotalLengthType
  <2>3. CASE Delivers(buf) /\ UNCHANGED <<wire, online>>
    <3>1. Clear(wire)
      BY <1>1, <2>1, ClearEnd DEF Buffered
    <3>2. buf' = <<>> /\ at' \in {"idle", "payload"}
      BY <2>3 DEF Delivers
    <3> QED BY <1>1, <2>1, <2>3, <3>1, <3>2, BufferedFree
  <2>4. ASSUME NEW e \in Bytes(Wanted - Len(buf)), Reads(e),
               \/ buf' = buf \o e /\ at' = "idle"
               \/ Delivers(buf \o e)
        PROVE  Buffered'
    <3>1. PICK c : c = buf \o e
      OBVIOUS
    <3>2. /\ Len(e) \in Nat /\ Len(e) <= Wanted - Len(buf)
          /\ Len(c) = Len(buf) + Len(e) /\ wire' \in Seq(Byte)
          /\ Clear(c \o wire') /\ Clear(wire')
      BY <2>1, <2>4, <3>1, BufferedReads
    <3>3. CASE buf' = c /\ at' = "idle"
      <4>1. Len(e) <= (IF TotalLength(buf) <= InBuffer THEN TotalLength(buf)
                       ELSE InBuffer) - Len(buf)
        BY <3>2 DEF Wanted
      <4>2. Len(buf) + Len(e) <= InBuffer
        BY <1>1, <2>2, <3>2, <4>1, WantedFits
      <4>3. Len(c) <= InBuffer
        BY <3>2, <4>2
      <4> QED BY <2>1, <3>2, <3>3, <4>3 DEF Buffered
    <3>4. CASE Delivers(c)
      <4>1. buf' = <<>> /\ at' \in {"idle", "payload"}
        BY <3>4 DEF Delivers
      <4> QED BY <2>1, <3>2, <4>1, BufferedFree
    <3> QED BY <2>4, <3>1, <3>3, <3>4
  <2> QED BY <1>14, <2>3, <2>4 DEF ReadRest
<1>15. CASE ReadPayload
  <2>1. PICK n : \E e \in Bytes(n) : Reads(e)
    BY <1>15 DEF ReadPayload
  <2>2. PICK e \in Bytes(n) : Reads(e)
    BY <2>1
  <2>3. /\ online /\ at = "payload" /\ buf' = buf /\ before' = before
        /\ at' \in {"idle", "payload"}
    BY <1>4, <1>15 DEF ReadPayload
  <2>4. wire' \in Seq(Byte) /\ Clear(wire')
    BY <2>2, <2>3, BufferedReads
  <2>5. buf' = <<>>
    BY <2>3 DEF Buffered
  <2> QED BY <2>3, <2>4, <2>5, BufferedFree
<1>16. CASE PayloadStalls
  <2> UNCHANGED <<buf, wire, before, online>> /\ at' = "idle"
    BY <1>16 DEF PayloadStalls
  <2> QED BY <1>2
<1>17. CASE UNCHANGED vars
  BY <1>17 DEF Buffered, vars, readerVars, linkVars
<1> QED
  BY <1>5, <1>6, <1>7, <1>8, <1>9, <1>10, <1>11, <1>12, <1>13, <1>14, <1>15, <1>16,
     <1>17 DEF Next, Reader

-----------------------------------------------------------------------------
(* The theorems *)

\* What the writer keeps true
WireInv == Scalars /\ Offsets /\ Queue /\ Streams

\* What the writer keeps true holds all along.
LEMMA WireInvAlways ==
  ASSUME OffsetsHarmless
  PROVE  Spec => []WireInv
<1>1. Init => WireInv
  <2>1. SUFFICES ASSUME Init PROVE WireInv
    OBVIOUS
  <2>2. Scalars
    <3>1. MaxCalls \in Nat /\ MaxFaults \in Nat
      BY PlanAssumption
    <3>2. 0 \in 0 .. MaxCalls /\ 0 \in 0 .. MaxFaults
      BY <3>1
    <3>3. /\ total = 0 /\ offset = 0 /\ online = FALSE /\ at = "closed"
          /\ cut = FALSE /\ calls = 0 /\ faults = 0
      BY <2>1 DEF Init
    <3>4. offset \in Int /\ at \in Stages
      BY <3>3 DEF Stages
    <3>5. online \in BOOLEAN /\ cut \in BOOLEAN
      BY <3>3
    <3>6. at = "closed" <=> ~online
      BY <3>3
    <3>7. calls \in 0 .. MaxCalls /\ faults \in 0 .. MaxFaults
      BY <3>2, <3>3, Zenon
    <3> QED BY <3>3, <3>4, <3>5, <3>6, <3>7 DEF Scalars
  <2>3. Offsets
    <3>1. SUFFICES ASSUME NEW q \in Plan, q[1] = "publish"
                   PROVE  offset <= HeaderSize + Len(VariableHeader(q[2]))
                                    + (IF online THEN 0 ELSE HeaderSize - 1 - 1)
      BY DEF Offsets
    <3> DEFINE h == Len(VariableHeader(q[2]))
    <3>2. h \in Nat
      BY <3>1, PublishedIs
    <3>3. offset = 0 /\ ~online
      BY <2>1 DEF Init
    <3> HIDE DEF h
    <3>4. offset <= HeaderSize + h + (IF online THEN 0 ELSE HeaderSize - 1 - 1)
      BY <3>2, <3>3 DEF HeaderSize
    <3> QED BY <3>4 DEF h
  <2>4. Queue
    BY <2>1 DEF Init, Queue
  <2>5. Streams
    BY <2>1 DEF Init, Streams
  <2> QED BY <2>2, <2>3, <2>4, <2>5 DEF WireInv
<1>2. WireInv /\ [Next]_vars => WireInv'
  <2>1. SUFFICES ASSUME WireInv, [Next]_vars PROVE WireInv'
    OBVIOUS
  <2>2. Scalars'
    BY <2>1, ScalarsStep DEF WireInv
  <2>3. Offsets'
    BY <2>1, <2>2, OffsetsStep DEF WireInv
  <2>4. Queue'
    BY <2>1, QueueStep DEF WireInv
  <2>5. Streams'
    BY <2>1, StreamsStep DEF WireInv
  <2> QED BY <2>2, <2>3, <2>4, <2>5 DEF WireInv
<1> QED BY <1>1, <1>2, PTL DEF Spec

\* Every variable has its type, and the reader of mqtt_message_receive never
\* writes past in_buffer: no two packets after each other have four bytes with
\* high bits in a row.
THEOREM TypeCorrect ==
  ASSUME OffsetsHarmless, PacketsReadable, InBuffer >= HeaderSize + 4
  PROVE  Spec => []TypeOK
<1>1. Spec => []WireInv
  BY WireInvAlways
<1>2. Init => Buffered
  <2>1. Len(<<>>) = 0 /\ 0 <= InBuffer
    BY MessageAssumption
  <2> QED BY <2>1 DEF Init, Buffered
<1>3. WireInv /\ Buffered /\ [Next]_vars => Buffered'
  BY BufferedStep DEF WireInv
<1>4. WireInv /\ Buffered => TypeOK
  <2>1. SUFFICES ASSUME WireInv, Buffered PROVE TypeOK
    OBVIOUS
  <2>2. /\ total \in Nat /\ offset \in Int /\ online \in BOOLEAN /\ cut \in BOOLEAN
        /\ at \in Stages /\ calls \in 0 .. MaxCalls /\ faults \in 0 .. MaxFaults
    BY <2>1 DEF WireInv, Scalars
  <2>3. \A i \in 1 .. Len(outbox) : outbox[i].message \in Messages
    <3>1. ASSUME NEW i \in 1 .. Len(outbox) PROVE outbox[i].message \in Messages
      <4>1. outbox[i] \in Items
        BY <2>1, ElementOfSeq DEF WireInv, Queue
      <4>2. PICK m \in Messages : outbox[i] = [message |-> m, bytes |-> Packet(m)]
        BY <4>1 DEF Items
      <4> QED BY <4>2
    <3> QED BY <3>1
  <2>4. /\ wire \in Seq(Byte) /\ sent \in Seq(Messages) /\ buf \in Seq(Byte)
        /\ rest \in Int
    BY <2>1 DEF WireInv, Streams
  <2>5. Len(buf) <= InBuffer
    BY <2>1 DEF Buffered
  <2>6. before \in 0 .. InBuffer
    <3>1. before \in Nat /\ before <= InBuffer /\ InBuffer \in Nat
      BY <2>1, MessageAssumption DEF WireInv, Streams, Buffered
    <3> QED BY <3>1
  <2> QED BY <2>2, <2>3, <2>4, <2>5, <2>6 DEF TypeOK, Stages
<1> QED BY <1>1, <1>2, <1>3, <1>4, PTL DEF Spec

\* Reader and writer are in step all along.
LEMMA InSyncAlways ==
  ASSUME Plain
  PROVE  Spec => [](WireInv /\ InSync)
<1>1. Spec => []WireInv
  BY WireInvAlways DEF Plain
<1>2. Init => InSync
  BY DEF Init, InSync
<1>3. WireInv /\ WireInv' /\ InSync /\ [Next]_vars => InSync'
  BY InSyncStep DEF WireInv
<1> QED BY <1>1, <1>2, <1>3, PTL DEF Spec

\* The bytes read of a packet and those on their way are the packets written and
\* not delivered, however reads of mqtt_message_receive cut the stream.
THEOREM InStepAlways ==
  ASSUME Plain
  PROVE  Spec => []InStep
<1>1. WireInv /\ InSync => InStep
  <2>1. SUFFICES ASSUME WireInv, InSync, at \notin {"payload", "closed"}, ~cut
                 PROVE  buf \o wire = FlattenSeq([i \in 1 .. Len(sent) - Len(got) |->
                                                    Packet(sent[Len(got) + i])])
    BY DEF InStep
  <2>2. online
    BY <2>1 DEF WireInv, Scalars
  <2>3. Together
    BY <2>1, <2>2 DEF InSync
  <2> QED BY <2>3 DEF Together, Whole, Stream, Undelivered
<1> QED BY <1>1, InSyncAlways, PTL

\* deliver_publish hands on the messages that were published, in their order and
\* with all their data, the fragmented ones too, as long as no stall cuts one
\* short; of those whose identifier does not fit in the buffer it hands on what
\* Received says.
THEOREM ReceivedAsSentAlways ==
  ASSUME Plain
  PROVE  Spec => []ReceivedAsSent
<1>1. WireInv /\ InSync => ReceivedAsSent
  <2> DEFINE t == [i \in DOMAIN sent |-> Received(sent[i])]
  <2>1. SUFFICES ASSUME WireInv, InSync, ~cut PROVE IsPrefix(got, t)
    BY DEF ReceivedAsSent
  <2>2. CASE ~online
    <3>1. got = <<>> /\ sent = <<>>
      BY <2>1, <2>2 DEF WireInv, Streams
    <3>2. Len(t) = 0
      BY <3>1
    <3> QED BY <3>1, <3>2 DEF IsPrefix
  <2>3. CASE online
    <3>1. /\ got \in Seq(Arrivals) /\ Len(got) <= Len(sent) /\ sent \in Seq(Messages)
          /\ \A i \in 1 .. Len(got) : got[i] = Received(sent[i])
      BY <2>1, <2>3 DEF WireInv, InSync, Agree, Streams
    <3>2. Len(got) \in Nat /\ Len(sent) \in Nat
      BY <3>1
    <3>3. t \in Seq(Arrivals) /\ Len(t) = Len(sent)
      <4>1. \A i \in DOMAIN sent : Received(sent[i]) \in Arrivals
        BY <3>1, ElementOfSeq, ReceivedIs
      <4>2. DOMAIN sent = 1 .. Len(sent)
        BY <3>1
      <4> QED BY <3>2, <4>1, <4>2
    <3>4. \A i \in 1 .. Len(got) : got[i] = t[i]
      BY <3>1, <3>2
    <3> HIDE DEF t
    <3>5. got = SubSeq(t, 1, Len(got))
      <4> DEFINE s == SubSeq(t, 1, Len(got))
      <4>1. Len(got) \in 0 .. Len(t)
        BY <3>1, <3>2, <3>3
      <4>2. /\ s \in Seq(Arrivals) /\ Len(s) = Len(got)
            /\ \A i \in 1 .. Len(got) : s[i] = t[i]
        BY <3>3, <4>1, Split
      <4> HIDE DEF s
      <4>3. got = s
        BY <3>1, <3>4, <4>2, SeqEqual
      <4> QED BY <4>3 DEF s
    <3>6. got = SubSeq(got, 1, Len(got))
      BY <3>1, SubSeqAll
    <3> QED BY <3>1, <3>3, <3>5, <3>6 DEF IsPrefix
  <2> QED BY <2>2, <2>3
<1> QED BY <1>1, InSyncAlways, PTL

=============================================================================
