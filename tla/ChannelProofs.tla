--------------------------- MODULE ChannelProofs ---------------------------
(***************************************************************************)
(* Theorems about Channel: the reader keeps in step with the writer for    *)
(* every base, every length of a prefix and every length of a message, and *)
(* Channel implements MessagePipe.                                         *)
(***************************************************************************)
EXTENDS Channel, SequenceTheorems, WellFoundedInduction, TLAPS

-----------------------------------------------------------------------------
(* The inductive invariant *)

(* The bytes of a message of length n. *)
FrameLength(n) == VarintSize(n) + n

(* A byte is what its note says. *)
Genuine(b) ==
    /\ b.of \in 1 .. Len(log)
    /\ b.length \in Lengths
    /\ b.at \in 1 .. FrameLength(b.length)
    /\ b = Frame(b.of, b.length)[b.at]

(* b is the last byte of its message. *)
IsLast(b) == b.at = FrameLength(b.length)

(* c has been written next after b. *)
Follows(b, c) ==
    IF IsLast(b) THEN c.of = b.of + 1 /\ c.at = 1
                 ELSE c.of = b.of /\ c.length = b.length /\ c.at = b.at + 1

(* The bytes written and not yet received. *)
Stream == wire \o sending

(* The stream is what was written, without a gap, up to the end of the     *)
(* last message; of this one only there are bytes that have not arrived.   *)
StreamAsWritten ==
    /\ \A i \in 1 .. Len(Stream) : Genuine(Stream[i])
    /\ \A i \in 1 .. Len(Stream) - 1 : Follows(Stream[i], Stream[i + 1])
    /\ Stream # <<>> => /\ Stream[Len(Stream)].of = Len(log)
                        /\ IsLast(Stream[Len(Stream)])
    /\ \A i \in 1 .. Len(sending) : sending[i].of = Len(log)

(* The method that is called after n messages. *)
CalledAfter(n) == IF n = 0 THEN "readCommand" ELSE log[n].next

(* Every message is written for the method that is then called. *)
MessagesInTurn == \A m \in 1 .. Len(log) : log[m].reader = CalledAfter(m - 1)

(* The next byte is the one that the reader takes it for, and the size is  *)
(* what the digits so far say of the length of the message.                *)
InSync ==
    /\ got <= Len(log)
    /\ reader = CalledAfter(got)
    /\ Stream = <<>> => got = Len(log) /\ count = 0
    /\ Stream # <<>> => Stream[1].of = got + 1 /\ Stream[1].at = count + 1
    /\ step = "first" => count = 0 /\ size = 0
    /\ step = "more" => /\ 0 < count /\ count < VarintSize(Stream[1].length)
                        /\ size = Stream[1].length % Base ^ count
    /\ step = "body" => /\ 0 < count /\ count = VarintSize(Stream[1].length)
                        /\ size = Stream[1].length

(* The reader has come to the end of the stream. *)
AtEnd ==
    /\ closed
    /\ wire = <<>>
    /\ IF Cut THEN got + 1 = Len(log) /\ reader = log[Len(log)].reader
              ELSE got = Arrived

(* The inductive invariant: the stream is as written, and the reader is    *)
(* where it believes to be, or has come to the end.                        *)
ChannelInv ==
    /\ TypeOK
    /\ MessagesInTurn
    /\ StreamAsWritten
    /\ InSync \/ AtEnd
-----------------------------------------------------------------------------
(* Numbers *)

(* A set of natural numbers has a least element. *)
LEMMA Least ==
    ASSUME NEW T \in SUBSET Nat, NEW n \in T
    PROVE  \E x \in T : \A y \in T : x <= y
<1>1. PICK R : R = OpToRel(<, Nat)
  OBVIOUS
<1>2. IsWellFoundedOn(R, Nat)
  BY <1>1, NatLessThanWellFounded
<1>3. PICK x \in T : \A y \in T : ~(<<y, x>> \in R)
  BY <1>2, WFMin
<1>4. R = {ss \in Nat \X Nat : ss[1] < ss[2]}
  BY <1>1 DEF OpToRel
<1>5. ASSUME NEW y \in T PROVE x <= y
  <2>1. <<y, x>> \in {ss \in Nat \X Nat : ss[1] < ss[2]} <=> y < x
    OBVIOUS
  <2>2. ~(y < x)
    BY <1>3, <1>4, <2>1
  <2> QED
    BY <2>2
<1> QED
  BY <1>5

(* Induction, over the set of the numbers for which something holds. *)
LEMMA SetInduction ==
    ASSUME NEW T \in SUBSET Nat, 0 \in T, \A n \in T : n + 1 \in T
    PROVE  T = Nat
<1> SUFFICES ASSUME NEW n \in Nat, n \notin T PROVE FALSE
  OBVIOUS
<1>1. PICK x \in Nat \ T : \A y \in Nat \ T : x <= y
  BY Least
<1>2. x - 1 \in Nat
  BY <1>1
<1>3. x - 1 \in T
  BY <1>1, <1>2
<1>4. x - 1 + 1 \in T
  BY <1>3
<1> QED
  BY <1>1, <1>2, <1>4

-----------------------------------------------------------------------------
(* Division and digits *)

(* Quotient and remainder. *)
LEMMA Division ==
    ASSUME NEW n \in Nat, NEW d \in Nat \ {0}
    PROVE  /\ n \div d \in Nat /\ n % d \in Nat /\ n % d < d
           /\ n = d * (n \div d) + (n % d)
  OBVIOUS

(* Multiples of d are at least d apart. *)
LEMMA Multiple ==
    ASSUME NEW d \in Nat \ {0}, NEW a \in Nat, NEW c \in Nat, a < c
    PROVE  d * c \in Nat /\ d * a \in Nat /\ d * a + d <= d * c
<1>1. PICK x \in Nat : c = a + 1 + x
  <2>1. c - (a + 1) \in Nat /\ c = a + 1 + (c - (a + 1))
    OBVIOUS
  <2> QED
    BY <2>1
<1>2. d * c = d * a + d + d * x /\ d * x \in Nat /\ d * a \in Nat
  BY <1>1
<1> QED
  BY <1>2

(* There is one quotient and one remainder. *)
LEMMA UniqueDivision ==
    ASSUME NEW d \in Nat \ {0}, NEW a \in Nat, NEW b \in Nat, b < d,
           NEW p \in Nat, NEW q \in Nat, q < d, d * a + b = d * p + q
    PROVE  a = p /\ b = q
<1>1. ~(a < p)
  <2> SUFFICES ASSUME a < p PROVE FALSE
    OBVIOUS
  <2>1. d * p \in Nat /\ d * a \in Nat /\ d * a + d <= d * p
    BY Multiple
  <2> QED
    BY <2>1
<1>2. ~(p < a)
  <2> SUFFICES ASSUME p < a PROVE FALSE
    OBVIOUS
  <2>1. d * p \in Nat /\ d * a \in Nat /\ d * p + d <= d * a
    BY Multiple
  <2> QED
    BY <2>1
<1>3. a = p
  BY <1>1, <1>2
<1> QED
  BY <1>3

(* A remainder by w * d has one digit more than one by w. *)
LEMMA NextDigit ==
    ASSUME NEW n \in Nat, NEW w \in Nat \ {0}, NEW d \in Nat \ {0}
    PROVE  /\ n % (w * d) = (n % w) + ((n \div w) % d) * w
           /\ w * d \in Nat \ {0}
<1>1. PICK q, r : q = n \div w /\ r = n % w
  OBVIOUS
<1>2. PICK s, t : s = q \div d /\ t = q % d
  OBVIOUS
<1>3. q \in Nat /\ r \in Nat /\ r < w /\ n = w * q + r
  BY <1>1, Division
<1>4. s \in Nat /\ t \in Nat /\ t < d /\ q = d * s + t
  BY <1>2, <1>3, Division
<1>5. w * d \in Nat \ {0}
  OBVIOUS
<1>6. n = (w * d) * s + (r + t * w)
  <2>1. w * q = (w * d) * s + t * w
    BY <1>4
  <2> QED
    BY <1>3, <1>4, <2>1
<1>7. r + t * w \in Nat /\ r + t * w < w * d
  <2>1. w * t + w <= w * d /\ w * t \in Nat
    BY <1>4, Multiple
  <2>2. t * w = w * t
    BY <1>4
  <2> QED
    BY <1>3, <1>5, <2>1, <2>2
<1>8. PICK m, z : m = n \div (w * d) /\ z = n % (w * d)
  OBVIOUS
<1>9. m \in Nat /\ z \in Nat /\ z < w * d /\ n = (w * d) * m + z
  BY <1>5, <1>8, Division
<1>10. r + t * w = z
  <2>1. PICK v \in Nat \ {0}, y \in Nat : v = w * d /\ y = r + t * w
    BY <1>5, <1>7
  <2>2. y < v /\ z < v /\ v * s + y = v * m + z
    BY <1>6, <1>7, <1>9, <2>1
  <2>3. y = z
    BY <1>4, <1>9, <2>2, UniqueDivision
  <2> QED
    BY <2>1, <2>3
<1> QED
  BY <1>1, <1>2, <1>5, <1>8, <1>10

-----------------------------------------------------------------------------
(* Powers of Base, and the bytes of a message *)

(* Powers are positive. *)
LEMMA Powers == \A k \in 0 .. MaxPrefix : Base ^ k \in Nat \ {0}
<1> DEFINE T == {k \in Nat : k <= MaxPrefix => Base ^ k \in Nat \ {0}}
<1>1. 0 \in T
  BY PowersAssumption
<1>2. ASSUME NEW k \in T PROVE k + 1 \in T
  <2> SUFFICES ASSUME k + 1 <= MaxPrefix PROVE Base ^ (k + 1) \in Nat \ {0}
    OBVIOUS
  <2>1. k + 1 \in 1 .. MaxPrefix /\ k + 1 - 1 = k
    BY ChannelAssumption
  <2>2. Base ^ (k + 1) = Base * Base ^ k
    BY <2>1, PowersAssumption
  <2>3. PICK p \in Nat \ {0} : p = Base ^ k
    BY <2>1, ChannelAssumption
  <2> QED
    BY <2>2, <2>3, ChannelAssumption
<1>3. T = Nat
  <2> HIDE DEF T
  <2>1. T \in SUBSET Nat
    BY DEF T
  <2> QED
    BY <1>1, <1>2, <2>1, SetInduction
<1> QED
  BY <1>3, ChannelAssumption

(* Powers grow. *)
LEMMA PowersGrow == \A k \in 0 .. MaxPrefix : Base ^ k <= Base ^ MaxPrefix
<1> DEFINE T == {k \in Nat : k <= MaxPrefix => Base ^ (MaxPrefix - k) <= Base ^ MaxPrefix}
<1>0. MaxPrefix \in Nat \ {0} /\ Base \in Nat /\ Base > 1
  BY ChannelAssumption
<1>1. 0 \in T
  <2>1. MaxPrefix - 0 = MaxPrefix
    BY <1>0
  <2>2. Base ^ MaxPrefix \in Nat
    BY <1>0, Powers
  <2> QED
    BY <2>1, <2>2
<1>2. ASSUME NEW k \in T PROVE k + 1 \in T
  <2> SUFFICES ASSUME k + 1 <= MaxPrefix
               PROVE  Base ^ (MaxPrefix - (k + 1)) <= Base ^ MaxPrefix
    OBVIOUS
  <2>1. MaxPrefix - k \in 1 .. MaxPrefix /\ MaxPrefix - k - 1 = MaxPrefix - (k + 1)
    BY <1>0
  <2>2. Base ^ (MaxPrefix - k) = Base * Base ^ (MaxPrefix - (k + 1))
    BY <2>1, PowersAssumption
  <2>3. PICK p \in Nat : p = Base ^ (MaxPrefix - (k + 1))
    BY <2>1, <1>0, Powers
  <2>4. Base ^ (MaxPrefix - k) <= Base ^ MaxPrefix
    BY <1>0
  <2>5. p <= Base * p
    BY <1>0
  <2>6. PICK m \in Nat : m = Base ^ MaxPrefix
    BY <1>0, Powers
  <2> QED
    BY <1>0, <2>2, <2>3, <2>4, <2>5, <2>6
<1>3. T = Nat
  <2> HIDE DEF T
  <2>1. T \in SUBSET Nat
    BY DEF T
  <2> QED
    BY <1>1, <1>2, <2>1, SetInduction
<1> SUFFICES ASSUME NEW k \in 0 .. MaxPrefix PROVE Base ^ k <= Base ^ MaxPrefix
  OBVIOUS
<1>4. MaxPrefix - k \in T /\ MaxPrefix - k <= MaxPrefix /\ MaxPrefix - (MaxPrefix - k) = k
  <2> HIDE DEF T
  <2> QED
    BY <1>0, <1>3
<1> QED
  BY <1>4

(* VarintSize is defined for every length a message may have. *)
LEMMA VarintSizes ==
    ASSUME NEW n \in Lengths
    PROVE  /\ n \in Nat \ {0}
           /\ VarintSize(n) \in 1 .. MaxPrefix
           /\ n < Base ^ VarintSize(n)
           /\ FrameLength(n) \in Nat
           /\ FrameLength(n) = VarintSize(n) + n
<1>0. MaxPrefix \in Nat \ {0} /\ Base \in Nat /\ Base > 1
  BY ChannelAssumption
<1>1. n \in Nat \ {0} /\ n < Base ^ MaxPrefix
  <2>1. PICK p \in Nat : p = Base ^ MaxPrefix
    BY <1>0, Powers
  <2>2. n \in 1 .. p - 1
    BY <2>1, ChannelAssumption
  <2> QED
    BY <2>1, <2>2
<1> DEFINE T == {k \in 1 .. MaxPrefix : n < Base ^ k}
<1>2. MaxPrefix \in T
  BY <1>0, <1>1
<1>3. PICK k \in T : \A j \in T : k <= j
  <2>1. T \in SUBSET Nat
    OBVIOUS
  <2> HIDE DEF T
  <2> QED
    BY <1>2, <2>1, Least
<1>4. k > 1 => n >= Base ^ (k - 1)
  <2> SUFFICES ASSUME k > 1 PROVE n >= Base ^ (k - 1)
    OBVIOUS
  <2>1. k - 1 \in 1 .. MaxPrefix /\ ~(k <= k - 1)
    BY <1>0, <1>3
  <2>2. PICK p \in Nat : p = Base ^ (k - 1)
    BY <1>0, <2>1, Powers
  <2>3. k - 1 \notin T
    BY <1>3, <2>1
  <2> QED
    BY <1>1, <2>1, <2>2, <2>3
<1>5. \E j \in 1 .. MaxPrefix : n < Base ^ j /\ (j > 1 => n >= Base ^ (j - 1))
  BY <1>3, <1>4
<1>6. VarintSize(n) \in 1 .. MaxPrefix /\ n < Base ^ VarintSize(n)
  BY <1>5 DEF VarintSize
<1> QED
  BY <1>0, <1>1, <1>6 DEF FrameLength

(* Digits are digits. *)
LEMMA Digits ==
    ASSUME NEW n \in Lengths, NEW i \in 1 .. MaxPrefix
    PROVE  /\ Digit(n, i) \in 0 .. Base - 1
           /\ i = 1 => n % Base ^ 1 = Digit(n, i)
           /\ i > 1 => n % Base ^ i = (n % Base ^ (i - 1)) + Digit(n, i) * Base ^ (i - 1)
<1>0. MaxPrefix \in Nat \ {0} /\ Base \in Nat \ {0} /\ n \in Nat \ {0}
  BY VarintSizes, ChannelAssumption
<1>1. PICK w \in Nat \ {0} : w = Base ^ (i - 1)
  <2>1. i - 1 \in 0 .. MaxPrefix
    BY <1>0
  <2> QED
    BY <2>1, Powers
<1>2. Digit(n, i) = (n \div w) % Base
  BY <1>1 DEF Digit
<1>3. n \div w \in Nat
  BY <1>0, Division
<1>4. Digit(n, i) \in 0 .. Base - 1
  <2>1. (n \div w) % Base \in Nat /\ (n \div w) % Base < Base
    BY <1>0, <1>3, Division
  <2> QED
    BY <1>0, <1>2, <2>1
<1>5. Base ^ i = w * Base
  <2>1. Base ^ i = Base * Base ^ (i - 1)
    BY PowersAssumption
  <2> QED
    BY <1>0, <1>1, <2>1
<1>6. n % (w * Base) = (n % w) + ((n \div w) % Base) * w
  BY <1>0, NextDigit
<1>7. ASSUME i = 1 PROVE n % Base ^ 1 = Digit(n, i)
  <2>1. w = 1
    BY <1>1, <1>7, PowersAssumption
  <2>2. n \div w = n /\ w * Base = Base
    BY <1>0, <2>1
  <2> QED
    BY <1>2, <1>5, <1>7, <2>2
<1> QED
  BY <1>1, <1>2, <1>4, <1>5, <1>6, <1>7

(* A frame is a sequence of bytes, each with its note; those of the prefix *)
(* are digits of the length, with a flag on all but the last.              *)
LEMMA Frames ==
    ASSUME NEW m \in Nat, NEW n \in Lengths
    PROVE  /\ Frame(m, n) \in Seq(Byte)
           /\ Len(Frame(m, n)) = FrameLength(n)
           /\ \A i \in 1 .. FrameLength(n) :
                 /\ Frame(m, n)[i].of = m
                 /\ Frame(m, n)[i].at = i
                 /\ Frame(m, n)[i].length = n
                 /\ i > VarintSize(n) => Frame(m, n)[i].part = "body"
                 /\ i <= VarintSize(n) =>
                       /\ Frame(m, n)[i].part = "prefix"
                       /\ Frame(m, n)[i].value % Base = Digit(n, i)
                       /\ Frame(m, n)[i].value >= Base <=> i < VarintSize(n)
<1>0. /\ Base \in Nat /\ Base > 1 /\ MaxPrefix \in Nat
      /\ n \in Nat \ {0} /\ VarintSize(n) \in 1 .. MaxPrefix
      /\ FrameLength(n) = VarintSize(n) + n
  BY VarintSizes, ChannelAssumption
<1> DEFINE value(i) == IF i > VarintSize(n) THEN BodyByte
                       ELSE Digit(n, i) + (IF i < VarintSize(n) THEN Base ELSE 0)
           byte(i) == [value |-> value(i), of |-> m, at |-> i, length |-> n,
                       part |-> IF i > VarintSize(n) THEN "body" ELSE "prefix"]
<1>1. Frame(m, n) = [i \in 1 .. FrameLength(n) |-> byte(i)]
  BY <1>0 DEF Frame
<1>2. ASSUME NEW i \in 1 .. FrameLength(n), i <= VarintSize(n)
      PROVE  /\ value(i) \in Values
             /\ value(i) % Base = Digit(n, i)
             /\ value(i) >= Base <=> i < VarintSize(n)
  <2>1. PICK d \in 0 .. Base - 1 : d = Digit(n, i)
    <3>1. i \in 1 .. MaxPrefix
      BY <1>0, <1>2
    <3> QED
      BY <3>1, Digits
  <2>2. d % Base = d /\ (d + Base) % Base = d
    BY <1>0
  <2>3. CASE i < VarintSize(n)
    <3>1. value(i) = d + Base
      BY <1>0, <1>2, <2>1, <2>3
    <3> HIDE DEF value
    <3> QED
      BY <1>0, <2>1, <2>2, <2>3, <3>1 DEF Values
  <2>4. CASE i = VarintSize(n)
    <3>1. value(i) = d
      BY <1>0, <1>2, <2>1, <2>4
    <3> HIDE DEF value
    <3> QED
      BY <1>0, <2>1, <2>2, <2>4, <3>1 DEF Values
  <2> QED
    BY <1>0, <1>2, <2>3, <2>4
<1>3. ASSUME NEW i \in 1 .. FrameLength(n), i > VarintSize(n)
      PROVE  value(i) \in Values
  BY <1>0, <1>3 DEF Values, BodyByte
<1>4. ASSUME NEW i \in 1 .. FrameLength(n) PROVE byte(i) \in Byte
  <2>1. value(i) \in Values
    <3> HIDE DEF value
    <3> QED
      BY <1>0, <1>2, <1>3
  <2>2. n \in Nat /\ i \in Nat
    BY <1>0
  <2> HIDE DEF value
  <2> QED
    BY <2>1, <2>2 DEF Byte
<1>5. Frame(m, n) \in Seq(Byte) /\ Len(Frame(m, n)) = FrameLength(n)
  <2> HIDE DEF byte
  <2> QED
    BY <1>0, <1>1, <1>4
<1>6. ASSUME NEW i \in 1 .. FrameLength(n)
      PROVE  /\ Frame(m, n)[i].of = m
             /\ Frame(m, n)[i].at = i
             /\ Frame(m, n)[i].length = n
             /\ Frame(m, n)[i].value = value(i)
             /\ Frame(m, n)[i].part = IF i > VarintSize(n) THEN "body" ELSE "prefix"
  <2>1. Frame(m, n)[i] = byte(i)
    BY <1>1
  <2> HIDE DEF value
  <2> QED
    BY <2>1
<1> HIDE DEF value, byte
<1>7. ASSUME NEW i \in 1 .. FrameLength(n)
      PROVE  i \in Int /\ (i > VarintSize(n) \/ i <= VarintSize(n)) /\ ~(i > VarintSize(n) /\ i <= VarintSize(n))
  BY <1>0
<1> QED
  BY <1>2, <1>5, <1>6, <1>7

-----------------------------------------------------------------------------
(* The stream *)

(* What is in two sequences put together. *)
LEMMA Concatenation ==
    ASSUME NEW S, NEW s \in Seq(S), NEW t \in Seq(S)
    PROVE  /\ s \o t \in Seq(S)
           /\ Len(s \o t) = Len(s) + Len(t)
           /\ \A i \in 1 .. Len(s) : (s \o t)[i] = s[i]
           /\ \A i \in 1 .. Len(t) : (s \o t)[Len(s) + i] = t[i]
           /\ s \o t = <<>> <=> s = <<>> /\ t = <<>>
<1>1. Len(s) \in Nat /\ Len(t) \in Nat
  OBVIOUS
<1>2. /\ s \o t \in Seq(S)
      /\ Len(s \o t) = Len(s) + Len(t)
      /\ \A i \in 1 .. Len(s) + Len(t) :
            (s \o t)[i] = IF i <= Len(s) THEN s[i] ELSE t[i - Len(s)]
  BY ConcatProperties
<1>3. ASSUME NEW i \in 1 .. Len(t) PROVE (s \o t)[Len(s) + i] = t[i]
  <2>1. Len(s) + i \in 1 .. Len(s) + Len(t) /\ ~(Len(s) + i <= Len(s)) /\ Len(s) + i - Len(s) = i
    BY <1>1
  <2> QED
    BY <1>2, <2>1
<1>4. \A i \in 1 .. Len(s) : (s \o t)[i] = s[i]
  BY <1>1, <1>2
<1>5. s \o t = <<>> <=> s = <<>> /\ t = <<>>
  BY <1>1, <1>2, EmptySeq
<1> QED
  BY <1>2, <1>3, <1>4, <1>5

(* The stream is a sequence of bytes. *)
LEMMA StreamBytes ==
    ASSUME TypeOK
    PROVE  /\ Stream \in Seq(Byte)
           /\ Len(wire) \in Nat /\ Len(sending) \in Nat /\ Len(log) \in Nat
           /\ Len(Stream) = Len(wire) + Len(sending)
           /\ \A i \in 1 .. Len(wire) : Stream[i] = wire[i]
           /\ \A i \in 1 .. Len(sending) : Stream[Len(wire) + i] = sending[i]
           /\ Stream = <<>> <=> wire = <<>> /\ sending = <<>>
  BY Concatenation DEF TypeOK, Stream

(* What is ahead of the reader: the rest of a message, whole, and then the *)
(* next message from its first byte, unless the rest was of the last one.  *)
LEMMA Ahead ==
    ASSUME TypeOK, StreamAsWritten, Stream # <<>>,
           NEW rest \in Int, rest = FrameLength(Stream[1].length) - Stream[1].at + 1
    PROVE  /\ rest \in 1 .. Len(Stream)
           /\ \A i \in 1 .. rest : /\ Stream[i].of = Stream[1].of
                                   /\ Stream[i].length = Stream[1].length
                                   /\ Stream[i].at = Stream[1].at + i - 1
           /\ \A i \in 1 .. Len(Stream) : i > rest => Stream[i].of > Stream[1].of
           /\ Len(Stream) > rest => /\ Stream[rest + 1].of = Stream[1].of + 1
                                    /\ Stream[rest + 1].at = 1
           /\ Len(Stream) = rest <=> Stream[1].of = Len(log)
<1> DEFINE b == Stream[1]
           N == Len(Stream)
<1>1. N \in Nat \ {0} /\ Len(log) \in Nat
  BY StreamBytes, EmptySeq
<1>2. \A i \in 1 .. N : Genuine(Stream[i])
  BY DEF StreamAsWritten
<1>3. \A i \in 1 .. N - 1 : Follows(Stream[i], Stream[i + 1])
  BY DEF StreamAsWritten
<1>4. Stream[N].of = Len(log) /\ IsLast(Stream[N])
  BY DEF StreamAsWritten
<1>5. \A i \in 1 .. N :
         /\ Stream[i].of \in 1 .. Len(log) /\ Stream[i].at \in Nat
         /\ Stream[i].at \in 1 .. FrameLength(Stream[i].length)
         /\ FrameLength(Stream[i].length) \in Nat
  BY <1>2, VarintSizes DEF Genuine
<1>6. b.at \in Nat /\ b.of \in Nat /\ FrameLength(b.length) \in Nat /\ rest >= 1
  <2>1. 1 \in 1 .. N
    BY <1>1
  <2>2. b.at \in 1 .. FrameLength(b.length) /\ FrameLength(b.length) \in Nat /\ b.of \in 1 .. Len(log)
    BY <1>5, <2>1
  <2> QED
    BY <1>1, <2>2
<1> DEFINE Same(i) == /\ Stream[i].of = b.of
                      /\ Stream[i].length = b.length
                      /\ Stream[i].at = b.at + i - 1
           Later(i) == Stream[i].of > b.of
           First(i) == Stream[i].of = b.of + 1 /\ Stream[i].at = 1
           InPlace(i) == /\ i <= rest => Same(i)
                         /\ i > rest => Later(i)
                         /\ i = rest + 1 => First(i)
           T == {i \in Nat : i + 1 \in 1 .. N => InPlace(i + 1)}
<1>7. InPlace(1)
  BY <1>6
<1>8. ASSUME NEW i \in 1 .. N - 1, InPlace(i) PROVE InPlace(i + 1)
  <2>1. /\ i \in Nat /\ i \in 1 .. N
        /\ i <= rest => Same(i)
        /\ i > rest => Later(i)
    BY <1>1, <1>8
  <2>2. Follows(Stream[i], Stream[i + 1])
    BY <1>3
  <2>3. CASE i < rest
    <3>1. Same(i)
      BY <2>1, <2>3
    <3>2. ~IsLast(Stream[i])
      <4>1. b.at + i - 1 # FrameLength(b.length)
        BY <1>6, <2>1, <2>3
      <4> QED
        BY <3>1, <4>1 DEF IsLast
    <3>3. /\ Stream[i + 1].of = Stream[i].of
          /\ Stream[i + 1].length = Stream[i].length
          /\ Stream[i + 1].at = Stream[i].at + 1
      BY <2>2, <3>2 DEF Follows
    <3>4. b.at + i - 1 + 1 = b.at + (i + 1) - 1
      <4>1. PICK x \in Nat : x = b.at
        BY <1>6
      <4>2. x + i - 1 + 1 = x + (i + 1) - 1
        BY <2>1
      <4> QED
        BY <4>1, <4>2
    <3>5. Same(i + 1)
      BY <3>1, <3>3, <3>4
    <3> QED
      BY <2>1, <2>3, <3>5
  <2>4. CASE i = rest
    <3>1. Same(i)
      BY <2>1, <2>4
    <3>2. IsLast(Stream[i])
      <4>1. b.at + i - 1 = FrameLength(b.length)
        BY <1>6, <2>1, <2>4
      <4> QED
        BY <3>1, <4>1 DEF IsLast
    <3>3. First(i + 1)
      BY <2>2, <3>1, <3>2 DEF Follows
    <3>4. Later(i + 1)
      BY <1>6, <3>3
    <3> QED
      BY <2>1, <2>4, <3>3, <3>4
  <2>5. CASE i > rest
    <3>1. Later(i) /\ Stream[i].of \in Nat
      BY <1>5, <2>1, <2>5
    <3>2. Later(i + 1)
      BY <1>6, <2>2, <3>1 DEF Follows
    <3> QED
      BY <2>1, <2>5, <3>2
  <2> QED
    BY <2>1, <2>3, <2>4, <2>5
<1>9. \A i \in Nat : i \in T
  <2> HIDE DEF InPlace
  <2>1. 0 \in T
    BY <1>7
  <2>2. ASSUME NEW i \in T PROVE i + 1 \in T
    <3> SUFFICES ASSUME i + 1 + 1 \in 1 .. N PROVE InPlace(i + 1 + 1)
      OBVIOUS
    <3>1. i + 1 \in 1 .. N - 1 /\ i + 1 \in 1 .. N
      BY <1>1
    <3>2. InPlace(i + 1)
      BY <3>1
    <3> QED
      BY <1>8, <3>1, <3>2
  <2>3. T \in SUBSET Nat
    OBVIOUS
  <2> HIDE DEF T
  <2>4. T = Nat
    BY <2>1, <2>2, <2>3, SetInduction
  <2> QED
    BY <2>4
<1>10. ASSUME NEW i \in 1 .. N
       PROVE  /\ i <= rest => Same(i)
              /\ i > rest => Later(i)
              /\ i = rest + 1 => First(i)
  <2>1. i - 1 \in Nat /\ i - 1 + 1 = i
    BY <1>1
  <2>2. i - 1 \in T
    <3> HIDE DEF T
    <3> QED
      BY <1>9, <2>1
  <2> QED
    BY <2>1, <2>2
<1> HIDE DEF T
<1>11. ~(N < rest)
  <2> SUFFICES ASSUME N < rest PROVE FALSE
    OBVIOUS
  <2>1. N \in 1 .. N /\ N <= rest
    BY <1>1
  <2>2. Same(N)
    BY <1>10, <2>1
  <2> QED
    BY <1>1, <1>4, <1>6, <2>2 DEF IsLast
<1>12. N > rest => First(rest + 1)
  <2> SUFFICES ASSUME N > rest PROVE First(rest + 1)
    OBVIOUS
  <2>1. rest + 1 \in 1 .. N
    BY <1>1, <1>6
  <2> QED
    BY <1>10, <2>1
<1>13. N = rest => b.of = Len(log)
  <2> SUFFICES ASSUME N = rest PROVE b.of = Len(log)
    OBVIOUS
  <2>1. N \in 1 .. N /\ N <= rest
    BY <1>1
  <2>2. Same(N)
    BY <1>10, <2>1
  <2> QED
    BY <1>4, <2>2
<1>14. N > rest => b.of # Len(log)
  <2> SUFFICES ASSUME N > rest PROVE b.of # Len(log)
    OBVIOUS
  <2>1. N \in 1 .. N
    BY <1>1
  <2>2. Later(N)
    BY <1>10, <2>1
  <2> QED
    BY <1>1, <1>4, <1>6, <2>2
<1>15. rest \in 1 .. N /\ (N = rest <=> b.of = Len(log))
  BY <1>1, <1>6, <1>11, <1>13, <1>14
<1>16. \A i \in 1 .. rest : Same(i)
  BY <1>1, <1>10, <1>15
<1> QED
  BY <1>10, <1>12, <1>15, <1>16

(* Bytes are taken off the stream. *)
LEMMA Dropped ==
    ASSUME TypeOK, StreamAsWritten, NEW k \in 0 .. Len(wire),
           wire' = SubSeq(wire, k + 1, Len(wire)), UNCHANGED <<log, sending>>
    PROVE  /\ wire' \in Seq(Byte)
           /\ Len(wire') = Len(wire) - k
           /\ Len(Stream') = Len(Stream) - k
           /\ \A i \in 1 .. Len(Stream) - k : Stream'[i] = Stream[i + k]
           /\ Stream' = <<>> <=> Len(Stream) = k
           /\ StreamAsWritten'
<1>0. /\ wire \in Seq(Byte) /\ sending \in Seq(Byte)
      /\ Len(wire) \in Nat /\ Len(sending) \in Nat /\ Len(log) \in Nat
      /\ Len(Stream) = Len(wire) + Len(sending)
      /\ k \in Nat /\ k <= Len(wire)
  BY StreamBytes DEF TypeOK
<1>1. /\ wire' \in Seq(Byte)
      /\ Len(wire') = Len(wire) - k
      /\ \A i \in 1 .. Len(wire) - k : wire'[i] = wire[i + k]
  <2>1. \A i \in k + 1 .. Len(wire) : wire[i] \in Byte
    BY <1>0, ElementOfSeq
  <2>2. k + 1 \in Int /\ Len(wire) \in Int
    BY <1>0
  <2>3. /\ wire' \in Seq(Byte)
        /\ Len(wire') = IF k + 1 <= Len(wire) THEN Len(wire) - (k + 1) + 1 ELSE 0
        /\ \A i \in 1 .. Len(wire) - (k + 1) + 1 : wire'[i] = wire[k + 1 + i - 1]
    BY <2>1, <2>2, SubSeqProperties
  <2>4. ASSUME NEW i \in 1 .. Len(wire) - k PROVE wire'[i] = wire[i + k]
    <3>1. i \in 1 .. Len(wire) - (k + 1) + 1 /\ k + 1 + i - 1 = i + k
      BY <1>0
    <3> QED
      BY <2>3, <3>1
  <2> QED
    BY <1>0, <2>3, <2>4
<1>2. /\ Stream' \in Seq(Byte)
      /\ Len(Stream') = Len(wire') + Len(sending)
      /\ \A i \in 1 .. Len(wire') : Stream'[i] = wire'[i]
      /\ \A i \in 1 .. Len(sending) : Stream'[Len(wire') + i] = sending[i]
  <2>1. Stream' = wire' \o sending
    BY DEF Stream
  <2>2. PICK w \in Seq(Byte), t \in Seq(Byte) : w = wire' /\ t = sending
    BY <1>0, <1>1
  <2>3. /\ w \o t \in Seq(Byte)
        /\ Len(w \o t) = Len(w) + Len(t)
        /\ \A i \in 1 .. Len(w) : (w \o t)[i] = w[i]
        /\ \A i \in 1 .. Len(t) : (w \o t)[Len(w) + i] = t[i]
    BY Concatenation
  <2>4. Stream' = w \o t
    BY <2>1, <2>2
  <2> QED
    BY <2>2, <2>3, <2>4
<1>3. Len(Stream') = Len(Stream) - k
  BY <1>0, <1>1, <1>2
<1>4. ASSUME NEW i \in 1 .. Len(Stream) - k PROVE Stream'[i] = Stream[i + k]
  <2>1. CASE i <= Len(wire) - k
    <3>1. i \in 1 .. Len(wire) - k /\ i \in 1 .. Len(wire') /\ i + k \in 1 .. Len(wire)
      BY <1>0, <1>1, <2>1
    <3> QED
      BY <1>1, <1>2, <3>1, StreamBytes
  <2>2. CASE ~(i <= Len(wire) - k)
    <3>1. PICK j \in 1 .. Len(sending) : i = Len(wire') + j /\ i + k = Len(wire) + j
      <4>1. PICK j \in Int : j = i - (Len(wire) - k)
        <5>1. Len(Stream) - k \in Int /\ i \in Int /\ Len(wire) - k \in Int
          BY <1>0
        <5> QED
          BY <5>1
      <4>2. j \in 1 .. Len(sending) /\ i = Len(wire) - k + j /\ i + k = Len(wire) + j
        BY <1>0, <2>2, <4>1
      <4> QED
        BY <1>1, <4>2
    <3>2. Stream[i + k] = sending[j]
      BY <3>1, StreamBytes
    <3>3. Stream'[i] = sending[j]
      BY <1>2, <3>1
    <3> QED
      BY <3>2, <3>3
  <2> QED
    BY <2>1, <2>2
<1>5. Stream' = <<>> <=> Len(Stream) = k
  BY <1>0, <1>2, <1>3, EmptySeq
<1>6. \A i \in 1 .. Len(Stream') : Genuine(Stream[i])'
  <2> SUFFICES ASSUME NEW i \in 1 .. Len(Stream') PROVE Genuine(Stream[i])'
    OBVIOUS
  <2>1. i + k \in 1 .. Len(Stream) /\ i \in 1 .. Len(Stream) - k
    BY <1>0, <1>3
  <2>2. Genuine(Stream[i + k]) /\ Stream'[i] = Stream[i + k]
    BY <1>4, <2>1 DEF StreamAsWritten
  <2> QED
    BY <2>2 DEF Genuine
<1>7. \A i \in 1 .. Len(Stream') - 1 : Follows(Stream[i], Stream[i + 1])'
  <2> SUFFICES ASSUME NEW i \in 1 .. Len(Stream') - 1
               PROVE  Follows(Stream[i], Stream[i + 1])'
    OBVIOUS
  <2>1. /\ i + k \in 1 .. Len(Stream) - 1
        /\ i \in 1 .. Len(Stream) - k /\ i + 1 \in 1 .. Len(Stream) - k
        /\ i + 1 + k = i + k + 1
    BY <1>0, <1>3
  <2>2. Follows(Stream[i + k], Stream[i + k + 1])
    BY <2>1 DEF StreamAsWritten
  <2>3. Stream'[i] = Stream[i + k] /\ Stream'[i + 1] = Stream[i + k + 1]
    BY <1>4, <2>1
  <2> QED
    BY <2>2, <2>3 DEF Follows, IsLast
<1>8. Stream' # <<>> => Stream'[Len(Stream')] = Stream[Len(Stream)] /\ Stream # <<>>
  <2> SUFFICES ASSUME Stream' # <<>>
               PROVE  Stream'[Len(Stream')] = Stream[Len(Stream)] /\ Stream # <<>>
    OBVIOUS
  <2>1. Len(Stream') \in 1 .. Len(Stream) - k /\ Len(Stream') + k = Len(Stream)
    BY <1>0, <1>3, <1>5
  <2>2. Stream # <<>>
    BY <1>0, <2>1, EmptySeq
  <2> QED
    BY <1>4, <2>1, <2>2
<1>9. StreamAsWritten'
  BY <1>6, <1>7, <1>8 DEF StreamAsWritten, IsLast
<1> QED
  BY <1>1, <1>3, <1>4, <1>5, <1>9

(* One byte is taken off the stream. *)
LEMMA DroppedOne ==
    ASSUME TypeOK, wire # <<>>
    PROVE  /\ Tail(wire) = SubSeq(wire, 1 + 1, Len(wire))
           /\ 1 \in 0 .. Len(wire)
           /\ Head(wire) = Stream[1] /\ Head(wire) = wire[1]
           /\ Stream # <<>>
<1>1. wire \in Seq(Byte) /\ Len(wire) \in Nat \ {0}
  BY EmptySeq DEF TypeOK
<1>2. Tail(wire) = SubSeq(wire, 2, Len(wire))
  BY <1>1, TailIsSubSeq
<1>3. Head(wire) = wire[1]
  BY <1>1
<1> QED
  BY <1>1, <1>2, <1>3, StreamBytes

(* The next byte is one of a prefix. *)
LEMMA PrefixByte ==
    ASSUME TypeOK, StreamAsWritten, InSync, wire # <<>>,
           count < VarintSize(Stream[1].length),
           wire' = Tail(wire), UNCHANGED <<log, sending>>
    PROVE  /\ Stream[1].length \in Lengths
           /\ got + 1 \in 1 .. Len(log)
           /\ count + 1 \in 1 .. VarintSize(Stream[1].length)
           /\ VarintSize(Stream[1].length) \in 1 .. MaxPrefix
           /\ Head(wire).value % Base = Digit(Stream[1].length, count + 1)
           /\ Head(wire).value >= Base <=> count + 1 < VarintSize(Stream[1].length)
           /\ StreamAsWritten'
           /\ Stream' # <<>>
           /\ Stream'[1].of = got + 1
           /\ Stream'[1].at = count + 2
           /\ Stream'[1].length = Stream[1].length
<1> DEFINE b == Stream[1]
           n == b.length
<1>1. Stream # <<>> /\ Head(wire) = b
  BY DroppedOne
<1>2. count \in Nat /\ Len(Stream) \in Nat \ {0} /\ Len(log) \in Nat /\ got \in Nat
  BY <1>1, StreamBytes, EmptySeq DEF TypeOK
<1>3. Genuine(b) /\ b.of = got + 1 /\ b.at = count + 1
  BY <1>1, <1>2 DEF StreamAsWritten, InSync
<1>4. /\ n \in Lengths /\ got + 1 \in 1 .. Len(log) /\ b = Frame(got + 1, n)[count + 1]
      /\ count + 1 \in 1 .. FrameLength(n)
  BY <1>3 DEF Genuine
<1>5. /\ VarintSize(n) \in 1 .. MaxPrefix /\ n \in Nat \ {0}
      /\ FrameLength(n) = VarintSize(n) + n
  BY <1>4, VarintSizes
<1>6. count + 1 \in 1 .. VarintSize(n) /\ count + 1 <= VarintSize(n)
  <2> HIDE DEF n
  <2>1. count < VarintSize(n)
    BY DEF n
  <2> QED
    BY <1>2, <1>5, <2>1, ChannelAssumption
<1>7. /\ b.value % Base = Digit(n, count + 1)
      /\ b.value >= Base <=> count + 1 < VarintSize(n)
  <2> HIDE DEF n, b
  <2>1. got + 1 \in Nat
    BY <1>2
  <2>2. \A i \in 1 .. FrameLength(n) : i <= VarintSize(n) =>
           /\ Frame(got + 1, n)[i].value % Base = Digit(n, i)
           /\ Frame(got + 1, n)[i].value >= Base <=> i < VarintSize(n)
    BY <1>4, <2>1, Frames
  <2> QED
    BY <1>4, <1>6, <2>2
<1>8. /\ StreamAsWritten'
      /\ Len(Stream') = Len(Stream) - 1
      /\ \A i \in 1 .. Len(Stream) - 1 : Stream'[i] = Stream[i + 1]
      /\ Stream' = <<>> <=> Len(Stream) = 1
  BY DroppedOne, Dropped
<1>9. PICK rest \in Int : rest = FrameLength(n) - b.at + 1
  BY <1>2, <1>3, <1>5
<1>10. rest >= 2
  <2> HIDE DEF n, b
  <2> QED
    BY <1>2, <1>3, <1>5, <1>6, <1>9, ChannelAssumption
<1>11. /\ rest \in 1 .. Len(Stream)
       /\ \A i \in 1 .. rest : /\ Stream[i].of = b.of
                               /\ Stream[i].length = n
                               /\ Stream[i].at = b.at + i - 1
  BY <1>1, <1>9, Ahead
<1>12. Stream'[1] = Stream[2] /\ Stream' # <<>>
  BY <1>2, <1>8, <1>10, <1>11
<1>13. Stream[2].of = b.of /\ Stream[2].length = n /\ Stream[2].at = b.at + 2 - 1
  <2>1. 2 \in 1 .. rest
    BY <1>10
  <2> QED
    BY <1>11, <2>1
<1>14. b.at + 2 - 1 = count + 2
  BY <1>2, <1>3
<1> QED
  BY <1>1, <1>3, <1>4, <1>5, <1>6, <1>7, <1>8, <1>12, <1>13, <1>14

-----------------------------------------------------------------------------
(* The writer's steps *)

(* readCommand is one of the read methods. *)
LEMMA ReadCommandReads == "readCommand" \in Readers
  BY DEF Readers, ProtoCommands, NextReader

(* The constants are numbers. *)
LEMMA Constants ==
    /\ Base \in Nat /\ Base > 1 /\ MaxPrefix \in Nat /\ MaxPrefix >= 1
    /\ Base ^ MaxPrefix \in Nat
    /\ Base <= Base ^ MaxPrefix
<1>1. Base \in Nat /\ Base > 1 /\ MaxPrefix \in Nat /\ MaxPrefix >= 1
  BY ChannelAssumption
<1>2. Base ^ MaxPrefix \in Nat
  BY <1>1, Powers
<1>3. Base ^ 1 = Base
  <2>1. Base ^ 1 = Base * Base ^ (1 - 1)
    BY <1>1, PowersAssumption
  <2>2. 1 - 1 = 0
    OBVIOUS
  <2> QED
    BY <1>1, <2>1, <2>2, PowersAssumption
<1>4. Base ^ 1 <= Base ^ MaxPrefix
  BY <1>1, PowersGrow
<1> QED
  BY <1>1, <1>2, <1>3, <1>4

(* A message is written: its bytes come after what is on the way. *)
LEMMA WriteStep ==
    ASSUME ChannelInv, Write
    PROVE  TypeOK' /\ MessagesInTurn' /\ StreamAsWritten' /\ InSync'
<1>0. /\ TypeOK /\ MessagesInTurn /\ StreamAsWritten /\ ~closed /\ sending = <<>>
      /\ UNCHANGED <<closed, wire, reader, step, count, size, got, result>>
  BY DEF ChannelInv, Write, readerVars
<1>1. InSync
  BY <1>0 DEF ChannelInv, AtEnd
<1>2. PICK entry : entry.reader = Due /\ entry.next \in Readers /\ entry \in Message
                   /\ log' = Append(log, entry)
  <2>1. PICK next \in Readers : log' = Append(log, [reader |-> Due, next |-> next])
    BY ReadCommandReads DEF Write
  <2>2. Due \in Readers
    <3>1. CASE log = <<>>
      BY <3>1, ReadCommandReads DEF Due
    <3>2. CASE log # <<>>
      <4>1. Len(log) \in 1 .. Len(log) /\ log \in Seq(Message)
        BY <1>0, <3>2, EmptySeq DEF TypeOK
      <4>2. log[Len(log)] \in Message
        BY <4>1, ElementOfSeq
      <4> QED
        BY <3>2, <4>2 DEF Due, Message
    <3> QED
      BY <3>1, <3>2
  <2> QED
    BY <2>1, <2>2 DEF Message
<1>3. PICK n \in Lengths : sending' = Frame(Len(log) + 1, n)
  BY DEF Write
<1> DEFINE F == Frame(Len(log) + 1, n)
           L == Len(log)
           W == Len(wire)
<1>4. L \in Nat /\ W \in Nat /\ log \in Seq(Message) /\ got \in Nat /\ count \in Nat
  BY <1>0, StreamBytes DEF TypeOK
<1>5. /\ log' \in Seq(Message) /\ Len(log') = L + 1
      /\ \A i \in 1 .. L : log'[i] = log[i]
      /\ log'[L + 1] = entry
  BY <1>2, <1>4, AppendProperties
<1>6. /\ n \in Nat \ {0} /\ VarintSize(n) \in Nat \ {0}
      /\ FrameLength(n) \in Nat /\ FrameLength(n) >= 1
  <2>1. /\ n \in Nat \ {0} /\ VarintSize(n) \in 1 .. MaxPrefix
        /\ FrameLength(n) = VarintSize(n) + n
    BY VarintSizes
  <2> QED
    BY <2>1, Constants
<1>7. /\ F \in Seq(Byte) /\ Len(F) = FrameLength(n)
      /\ \A i \in 1 .. FrameLength(n) : F[i].of = L + 1 /\ F[i].at = i /\ F[i].length = n
  <2>1. L + 1 \in Nat
    BY <1>4
  <2> QED
    BY <2>1, Frames
<1>8. TypeOK'
  BY <1>0, <1>3, <1>5, <1>7 DEF TypeOK
<1>9. /\ Stream \in Seq(Byte) /\ Len(Stream) = W
      /\ \A i \in 1 .. W : Stream[i] = wire[i]
      /\ Stream = <<>> <=> W = 0
  <2>1. Len(sending) = 0
    BY <1>0
  <2> QED
    BY <1>0, <1>4, <2>1, StreamBytes, EmptySeq
<1>10. /\ Stream' \in Seq(Byte) /\ Len(Stream') = W + FrameLength(n)
       /\ \A i \in 1 .. W : Stream'[i] = Stream[i]
       /\ \A i \in 1 .. FrameLength(n) : Stream'[W + i] = F[i]
  <2>1. wire \in Seq(Byte) /\ Stream' = wire \o F
    BY <1>0, <1>3 DEF Stream, TypeOK
  <2>2. PICK w \in Seq(Byte), t \in Seq(Byte) : w = wire /\ t = F
    BY <1>7, <2>1
  <2>3. /\ w \o t \in Seq(Byte)
        /\ Len(w \o t) = Len(w) + Len(t)
        /\ \A i \in 1 .. Len(w) : (w \o t)[i] = w[i]
        /\ \A i \in 1 .. Len(t) : (w \o t)[Len(w) + i] = t[i]
    BY Concatenation
  <2> HIDE DEF F
  <2>4. Stream' = w \o t /\ Len(w) = W /\ Len(t) = FrameLength(n)
    BY <1>7, <2>1, <2>2
  <2> QED
    BY <1>9, <2>2, <2>3, <2>4
<1> HIDE DEF F
<1>11. ASSUME NEW i \in 1 .. Len(Stream') PROVE Genuine(Stream[i])'
  <2>1. CASE i \in 1 .. W
    <3>1. Genuine(Stream[i])
      BY <1>0, <1>9, <2>1 DEF StreamAsWritten
    <3>2. Stream'[i] = Stream[i]
      BY <1>10, <2>1
    <3> QED
      BY <1>4, <1>5, <3>1, <3>2 DEF Genuine
  <2>2. CASE i \notin 1 .. W
    <3>1. PICK j \in 1 .. FrameLength(n) : i = W + j
      <4>1. i - W \in 1 .. FrameLength(n) /\ i = W + (i - W)
        BY <1>4, <1>6, <1>10, <2>2
      <4> QED
        BY <4>1
    <3>2. Stream'[i] = F[j] /\ F[j].of = L + 1 /\ F[j].at = j /\ F[j].length = n
      BY <1>7, <1>10, <3>1
    <3>3. F[j] = Frame(F[j].of, F[j].length)[F[j].at]
      BY <3>2 DEF F
    <3>4. L + 1 \in 1 .. Len(log')
      BY <1>4, <1>5
    <3> QED
      BY <3>1, <3>2, <3>3, <3>4 DEF Genuine
  <2> QED
    BY <2>1, <2>2
<1>12. ASSUME NEW i \in 1 .. Len(Stream') - 1 PROVE Follows(Stream[i], Stream[i + 1])'
  <2>1. CASE i \in 1 .. W - 1
    <3>1. Follows(Stream[i], Stream[i + 1])
      BY <1>0, <1>9, <2>1 DEF StreamAsWritten
    <3>2. Stream'[i] = Stream[i] /\ Stream'[i + 1] = Stream[i + 1]
      <4>1. i \in 1 .. W /\ i + 1 \in 1 .. W
        BY <1>4, <2>1
      <4> QED
        BY <1>10, <4>1
    <3> QED
      BY <3>1, <3>2 DEF Follows, IsLast
  <2>2. CASE i = W
    <3>1. W \in 1 .. W /\ W > 0 /\ W + 1 \in Nat
      BY <1>4, <2>2
    <3>2. Stream # <<>> /\ Len(Stream) = W
      BY <1>9, <3>1
    <3>3. Stream[W].of = L /\ IsLast(Stream[W])
      BY <1>0, <3>2 DEF StreamAsWritten
    <3>4. Stream'[W] = Stream[W]
      BY <1>10, <3>1
    <3>5. Stream'[W + 1] = F[1] /\ F[1].of = L + 1 /\ F[1].at = 1
      BY <1>6, <1>7, <1>10
    <3> QED
      BY <2>2, <3>3, <3>4, <3>5 DEF Follows, IsLast
  <2>3. CASE i > W
    <3>1. PICK j \in 1 .. FrameLength(n) - 1 : i = W + j
      <4>1. i - W \in 1 .. FrameLength(n) - 1 /\ i = W + (i - W)
        BY <1>4, <1>6, <1>10, <2>3
      <4> QED
        BY <4>1
    <3>2. /\ j \in 1 .. FrameLength(n) /\ j + 1 \in 1 .. FrameLength(n)
          /\ i + 1 = W + (j + 1) /\ j # FrameLength(n)
      BY <1>4, <1>6, <3>1
    <3>3. /\ Stream'[i] = F[j] /\ F[j].of = L + 1 /\ F[j].at = j /\ F[j].length = n
      BY <1>7, <1>10, <3>1, <3>2
    <3>4. /\ Stream'[i + 1] = F[j + 1] /\ F[j + 1].of = L + 1
          /\ F[j + 1].at = j + 1 /\ F[j + 1].length = n
      BY <1>7, <1>10, <3>2
    <3> QED
      BY <3>2, <3>3, <3>4 DEF Follows, IsLast
  <2> QED
    BY <1>4, <2>1, <2>2, <2>3
<1>13. Stream' # <<>> /\ Stream'[Len(Stream')].of = Len(log') /\ IsLast(Stream[Len(Stream)])'
  <2>1. FrameLength(n) \in 1 .. FrameLength(n) /\ Len(Stream') = W + FrameLength(n)
        /\ Len(Stream') # 0
    BY <1>4, <1>6, <1>10
  <2>2. Stream'[Len(Stream')] = F[FrameLength(n)]
    BY <1>10, <2>1
  <2>3. /\ F[FrameLength(n)].of = L + 1 /\ F[FrameLength(n)].at = FrameLength(n)
        /\ F[FrameLength(n)].length = n
    BY <1>7, <2>1
  <2> QED
    BY <1>5, <1>10, <2>1, <2>2, <2>3 DEF IsLast
<1>14. \A i \in 1 .. Len(sending') : sending'[i].of = Len(log')
  BY <1>3, <1>5, <1>7 DEF F
<1>15. StreamAsWritten'
  BY <1>11, <1>12, <1>13, <1>14 DEF StreamAsWritten
<1>16. CalledAfter(got)' = CalledAfter(got) /\ got <= L
  <2>1. got <= L
    BY <1>1 DEF InSync
  <2>2. got # 0 => log'[got] = log[got]
    BY <1>4, <1>5, <2>1
  <2> QED
    BY <1>0, <2>1, <2>2 DEF CalledAfter
<1>17. MessagesInTurn'
  <2> SUFFICES ASSUME NEW m \in 1 .. Len(log') PROVE log'[m].reader = CalledAfter(m - 1)'
    BY DEF MessagesInTurn
  <2>1. CASE m \in 1 .. L
    <3>1. log[m].reader = CalledAfter(m - 1) /\ log'[m] = log[m]
      BY <1>0, <1>5, <2>1 DEF MessagesInTurn
    <3>2. m - 1 # 0 => log'[m - 1] = log[m - 1]
      BY <1>4, <1>5, <2>1
    <3> QED
      BY <3>1, <3>2 DEF CalledAfter
  <2>2. CASE m = L + 1
    <3>1. log'[m].reader = Due
      BY <1>2, <1>5, <2>2
    <3>2. log = <<>> <=> L = 0
      BY <1>4, EmptySeq
    <3>3. m - 1 = L
      BY <1>4, <2>2
    <3>4. L # 0 => log'[L] = log[L]
      BY <1>4, <1>5
    <3> QED
      BY <3>1, <3>2, <3>3, <3>4 DEF CalledAfter, Due
  <2> QED
    BY <1>4, <1>5, <2>1, <2>2
<1>18. CASE W = 0
  <2>1. got = L /\ count = 0 /\ step = "first" /\ size = 0
    BY <1>0, <1>1, <1>9, <1>18 DEF InSync, TypeOK
  <2>2. Stream'[1] = F[1] /\ F[1].of = L + 1 /\ F[1].at = 1
    <3>1. 1 \in 1 .. FrameLength(n) /\ W + 1 = 1
      BY <1>6, <1>18
    <3> QED
      BY <1>7, <1>10, <3>1
  <2>3. InSync'
    BY <1>0, <1>1, <1>4, <1>5, <1>13, <1>16, <2>1, <2>2 DEF InSync
  <2> QED
    BY <1>8, <1>15, <1>17, <2>3
<1>19. CASE W # 0
  <2>1. Stream # <<>> /\ Stream'[1] = Stream[1]
    BY <1>4, <1>9, <1>10, <1>19
  <2>2. InSync'
    BY <1>0, <1>1, <1>4, <1>5, <1>13, <1>16, <2>1 DEF InSync
  <2> QED
    BY <1>8, <1>15, <1>17, <2>2
<1> QED
  BY <1>18, <1>19

(* A byte arrives. *)
LEMMA ArriveStep ==
    ASSUME ChannelInv, Arrive
    PROVE  TypeOK' /\ MessagesInTurn' /\ StreamAsWritten' /\ InSync'
<1>0. /\ TypeOK /\ MessagesInTurn /\ StreamAsWritten /\ ~closed /\ sending # <<>>
      /\ wire' = Append(wire, Head(sending)) /\ sending' = Tail(sending)
      /\ UNCHANGED <<log, closed, reader, step, count, size, got, result>>
  BY DEF ChannelInv, Arrive, readerVars
<1>1. InSync
  BY <1>0 DEF ChannelInv, AtEnd
<1> DEFINE W == Len(wire)
           N == Len(sending)
<1>2. /\ W \in Nat /\ N \in Nat \ {0} /\ wire \in Seq(Byte) /\ sending \in Seq(Byte)
      /\ Head(sending) \in Byte /\ Head(sending) = sending[1]
      /\ Tail(sending) \in Seq(Byte) /\ Len(Tail(sending)) = N - 1
      /\ \A i \in 1 .. N - 1 : Tail(sending)[i] = sending[i + 1]
  <2>1. W \in Nat /\ N \in Nat \ {0} /\ wire \in Seq(Byte) /\ sending \in Seq(Byte)
    BY <1>0, EmptySeq, StreamBytes DEF TypeOK
  <2>2. Head(sending) = sending[1]
    BY <2>1
  <2> QED
    BY <1>0, <2>1, <2>2, HeadTailProperties
<1>3. /\ wire' \in Seq(Byte) /\ Len(wire') = W + 1
      /\ \A i \in 1 .. W : wire'[i] = wire[i]
      /\ wire'[W + 1] = sending[1]
  BY <1>0, <1>2, AppendProperties
<1>4. TypeOK'
  BY <1>0, <1>2, <1>3 DEF TypeOK
<1>5. /\ Stream' \in Seq(Byte) /\ Len(Stream') = W + N
      /\ \A i \in 1 .. W + 1 : Stream'[i] = wire'[i]
      /\ \A i \in 1 .. N - 1 : Stream'[W + 1 + i] = sending[i + 1]
  <2>1. PICK w \in Seq(Byte), t \in Seq(Byte) : w = wire' /\ t = sending'
    BY <1>0, <1>2, <1>3
  <2>2. /\ w \o t \in Seq(Byte)
        /\ Len(w \o t) = Len(w) + Len(t)
        /\ \A i \in 1 .. Len(w) : (w \o t)[i] = w[i]
        /\ \A i \in 1 .. Len(t) : (w \o t)[Len(w) + i] = t[i]
    BY Concatenation
  <2>3. Stream' = w \o t
    BY <2>1 DEF Stream
  <2>4. /\ Len(w) = W + 1 /\ Len(t) = N - 1
        /\ \A i \in 1 .. N - 1 : t[i] = sending[i + 1]
    BY <1>0, <1>2, <1>3, <2>1
  <2>5. /\ Stream' \in Seq(Byte) /\ Len(Stream') = W + N
        /\ \A i \in 1 .. W + 1 : Stream'[i] = wire'[i]
    <3>1. Len(w \o t) = (W + 1) + (N - 1)
      BY <2>2, <2>4
    <3>2. Len(w \o t) = W + N
      BY <1>2, <3>1
    <3>3. \A i \in 1 .. W + 1 : (w \o t)[i] = w[i]
      BY <2>2, <2>4
    <3> QED
      BY <2>1, <2>2, <2>3, <3>2, <3>3
  <2>6. \A i \in 1 .. N - 1 : Stream'[W + 1 + i] = sending[i + 1]
    <3>1. \A i \in 1 .. N - 1 : (w \o t)[W + 1 + i] = t[i]
      BY <2>2, <2>4
    <3> QED
      BY <2>3, <2>4, <3>1
  <2> QED
    BY <2>5, <2>6
<1>6. /\ Stream \in Seq(Byte) /\ Len(Stream) = W + N
      /\ \A i \in 1 .. W : Stream[i] = wire[i]
      /\ \A i \in 1 .. N : Stream[W + i] = sending[i]
  BY <1>0, StreamBytes
<1>7. ASSUME NEW i \in 1 .. W + N PROVE Stream'[i] = Stream[i]
  <2>1. CASE i <= W
    BY <1>2, <1>3, <1>5, <1>6, <2>1
  <2>2. CASE i = W + 1
    <3>1. 1 \in 1 .. N /\ W + 1 \in 1 .. W + 1
      BY <1>2
    <3> QED
      BY <1>3, <1>5, <1>6, <2>2, <3>1
  <2>3. CASE i > W + 1
    <3>1. PICK j \in 1 .. N - 1 : i = W + 1 + j
      <4>1. i - (W + 1) \in 1 .. N - 1 /\ i = W + 1 + (i - (W + 1))
        BY <1>2, <2>3
      <4> QED
        BY <4>1
    <3>2. j + 1 \in 1 .. N /\ i = W + (j + 1)
      BY <1>2, <3>1
    <3> QED
      BY <1>5, <1>6, <3>1, <3>2
  <2> QED
    BY <1>2, <2>1, <2>2, <2>3
<1>8. Stream' = Stream
  <2>1. PICK s \in Seq(Byte), t \in Seq(Byte) : s = Stream' /\ t = Stream
    BY <1>5, <1>6
  <2>2. Len(s) = Len(t) /\ \A i \in 1 .. Len(s) : s[i] = t[i]
    BY <1>5, <1>6, <1>7, <2>1
  <2>3. s = t
    BY <2>2
  <2> QED
    BY <2>1, <2>3
<1>9. \A i \in 1 .. Len(sending') : sending'[i].of = Len(log')
  <2> SUFFICES ASSUME NEW i \in 1 .. N - 1 PROVE sending[i + 1].of = Len(log)
    BY <1>0, <1>2
  <2>1. i + 1 \in 1 .. N
    BY <1>2
  <2> QED
    BY <1>0, <2>1 DEF StreamAsWritten
<1>10. StreamAsWritten'
  BY <1>0, <1>8, <1>9 DEF StreamAsWritten, Genuine, Follows, IsLast
<1>11. MessagesInTurn' /\ InSync'
  BY <1>0, <1>1, <1>8 DEF MessagesInTurn, InSync, CalledAfter
<1> QED
  BY <1>4, <1>10, <1>11

(* The ambassador goes. *)
LEMMA CloseStep ==
    ASSUME ChannelInv, Close
    PROVE  TypeOK' /\ MessagesInTurn' /\ StreamAsWritten' /\ InSync'
<1>1. /\ TypeOK /\ MessagesInTurn /\ StreamAsWritten /\ ~closed /\ closed' = TRUE
      /\ UNCHANGED <<log, sending, wire, reader, step, count, size, got, result>>
  BY DEF ChannelInv, Close, readerVars
<1>2. InSync
  BY <1>1 DEF ChannelInv, AtEnd
<1>3. Stream' = Stream
  BY <1>1 DEF Stream
<1>4. TypeOK' /\ MessagesInTurn'
  BY <1>1 DEF TypeOK, MessagesInTurn, CalledAfter
<1>5. StreamAsWritten' /\ InSync'
  BY <1>1, <1>2, <1>3 DEF StreamAsWritten, Genuine, Follows, IsLast, InSync, CalledAfter
<1> QED
  BY <1>4, <1>5

-----------------------------------------------------------------------------
(* The reader's steps *)

(* The digits of a length, all of them, are the length. *)
LEMMA AllDigits ==
    ASSUME NEW n \in Lengths
    PROVE  n % Base ^ VarintSize(n) = n
<1>1. VarintSize(n) \in 0 .. MaxPrefix /\ n \in Nat /\ n < Base ^ VarintSize(n)
  <2>1. VarintSize(n) \in 1 .. MaxPrefix /\ n \in Nat /\ n < Base ^ VarintSize(n)
    BY VarintSizes
  <2> QED
    BY <2>1, ChannelAssumption
<1>2. PICK w \in Nat \ {0} : w = Base ^ VarintSize(n)
  BY <1>1, Powers
<1>3. /\ n \div w \in Nat /\ n % w \in Nat /\ n % w < w
      /\ n = w * (n \div w) + (n % w)
  BY <1>1, Division
<1>4. n < w /\ w * 0 + n = w * (n \div w) + (n % w)
  BY <1>1, <1>2, <1>3
<1>5. n = n % w
  <2>1. PICK a \in Nat, b \in Nat : a = n \div w /\ b = n % w
    BY <1>3
  <2>2. b < w /\ w * 0 + n = w * a + b
    BY <1>3, <1>4, <2>1
  <2>3. n = b
    BY <1>1, <1>4, <2>2, UniqueDivision
  <2> QED
    BY <2>1, <2>3
<1> QED
  BY <1>2, <1>5

(* A reader in step that waits at the end has come to the end. *)
LEMMA SyncEnds ==
    ASSUME TypeOK, MessagesInTurn, StreamAsWritten, InSync, wire = <<>>, closed
    PROVE  AtEnd
<1>0. got \in Nat /\ Len(log) \in Nat /\ sending \in Seq(Byte) /\ got <= Len(log)
  BY StreamBytes DEF TypeOK, InSync
<1>1. CASE sending = <<>>
  <2>1. got = Len(log)
    BY <1>1, StreamBytes DEF InSync
  <2> QED
    BY <1>1, <2>1 DEF AtEnd, Cut, Arrived
<1>2. CASE sending # <<>>
  <2>1. Len(wire) = 0 /\ Len(sending) \in Nat \ {0} /\ Head(sending) = sending[1]
    BY <1>0, <1>2, EmptySeq
  <2>2. Stream # <<>> /\ Stream[1] = Head(sending) /\ 1 \in 1 .. Len(Stream)
    BY <1>2, <2>1, StreamBytes
  <2>3. Head(sending).of = Len(log) /\ Head(sending).of = got + 1
    BY <2>1, <2>2 DEF StreamAsWritten, InSync
  <2>4. Genuine(Stream[1])
    BY <2>2 DEF StreamAsWritten
  <2>5. Head(sending).at \in Nat /\ Head(sending).at >= 1
    BY <2>2, <2>4, VarintSizes DEF Genuine
  <2>6. reader = log[Len(log)].reader
    <3>1. Len(log) \in 1 .. Len(log) /\ Len(log) - 1 = got
      BY <1>0, <2>3
    <3>2. log[Len(log)].reader = CalledAfter(got)
      BY <3>1 DEF MessagesInTurn
    <3> QED
      BY <3>2 DEF InSync
  <2>7. CASE Head(sending).at > 1
    <3>1. Cut /\ got + 1 = Len(log)
      BY <1>0, <1>2, <2>3, <2>7 DEF Cut
    <3> QED
      BY <2>6, <3>1 DEF AtEnd
  <2>8. CASE Head(sending).at = 1
    <3>1. ~Cut
      BY <2>8 DEF Cut
    <3>2. Arrived = got
      BY <1>0, <1>2, <2>3, <2>8 DEF Arrived
    <3> QED
      BY <3>1, <3>2 DEF AtEnd
  <2> QED
    BY <2>5, <2>7, <2>8
<1> QED
  BY <1>1, <1>2

(* What the reader does there does not lead it away, short of a result. *)
LEMMA EndStays ==
    ASSUME AtEnd, UNCHANGED <<log, sending, closed, wire, reader, got>>
    PROVE  AtEnd'
  BY DEF AtEnd, Cut, Arrived

(* A reader with bytes to read is in step, one without them at the end. *)
LEMMA SyncOrEnd ==
    ASSUME ChannelInv
    PROVE  /\ TypeOK /\ MessagesInTurn /\ StreamAsWritten
           /\ wire # <<>> => InSync
           /\ wire = <<>> /\ closed => AtEnd
  BY SyncEnds DEF ChannelInv, AtEnd

(* Nothing is read at the end. *)
LEMMA NothingRead ==
    ASSUME TypeOK, MessagesInTurn, StreamAsWritten, UNCHANGED <<log, sending, wire>>
    PROVE  MessagesInTurn' /\ StreamAsWritten'
  BY DEF MessagesInTurn, StreamAsWritten, Stream, Genuine, Follows, IsLast, CalledAfter

(* The first byte of a prefix. *)
LEMMA ReadFirstStep ==
    ASSUME ChannelInv, ReadFirst
    PROVE  TypeOK' /\ MessagesInTurn' /\ StreamAsWritten' /\ (InSync' \/ AtEnd')
<1>0. /\ TypeOK /\ MessagesInTurn /\ StreamAsWritten /\ step = "first"
      /\ UNCHANGED <<log, sending, closed, reader, got, result>> /\ count' = 1
  BY SyncOrEnd DEF ReadFirst, writerVars
<1>1. PICK value \in Values :
         /\ \/ wire # <<>> /\ value = Head(wire).value /\ wire' = Tail(wire)
            \/ wire = <<>> /\ closed /\ UNCHANGED wire
         /\ size' = value % Base
         /\ step' = StepAfter(value)
  BY DEF ReadFirst, ReceiveByte
<1>2. PICK P \in Nat : P = Base ^ MaxPrefix /\ Base <= P
  BY Constants
<1>3. /\ count' \in 0 .. MaxPrefix /\ size' \in 0 .. (Base ^ MaxPrefix - 1)
      /\ step' \in {"first", "more", "body"}
  <2>1. value \in Nat
    BY <1>1, Constants DEF Values
  <2>2. value % Base \in 0 .. Base - 1
    BY <2>1, Constants
  <2>3. value % Base \in 0 .. P - 1
    BY <1>2, <2>2, Constants
  <2> QED
    BY <1>0, <1>1, <1>2, <2>3, Constants DEF StepAfter
<1>4. CASE wire # <<>>
  <2> DEFINE n == Stream[1].length
  <2>1. InSync /\ count = 0 /\ Stream # <<>>
    BY <1>0, <1>4, SyncOrEnd, StreamBytes DEF InSync
  <2>2. n \in Lengths
    <3>1. Genuine(Stream[1])
      <4>1. 1 \in 1 .. Len(Stream)
        BY <1>0, <2>1, StreamBytes, EmptySeq
      <4> QED
        BY <1>0, <4>1 DEF StreamAsWritten
    <3> QED
      BY <3>1 DEF Genuine
  <2>3. VarintSize(n) \in 1 .. MaxPrefix
    BY <2>2, VarintSizes
  <2>4. value = Head(wire).value /\ wire' = Tail(wire)
    BY <1>1, <1>4
  <2>5. count < VarintSize(n)
    <3> HIDE DEF n
    <3> QED
      BY <2>1, <2>3, Constants
  <2>6. /\ got + 1 \in 1 .. Len(log)
        /\ value % Base = Digit(n, count + 1)
        /\ value >= Base <=> count + 1 < VarintSize(n)
        /\ StreamAsWritten'
        /\ Stream' # <<>>
        /\ Stream'[1].of = got + 1
        /\ Stream'[1].at = count + 2
        /\ Stream'[1].length = n
    BY <1>0, <1>4, <2>1, <2>4, <2>5, PrefixByte
  <2>7. wire' \in Seq(Byte)
    <3>1. wire \in Seq(Byte)
      BY <1>0 DEF TypeOK
    <3> QED
      BY <1>4, <2>4, <3>1, HeadTailProperties
  <2>8. TypeOK'
    BY <1>0, <1>3, <2>7 DEF TypeOK
  <2> HIDE DEF n
  <2>9. count + 1 = 1 /\ count + 2 = 1 + 1 /\ 1 \in 1 .. MaxPrefix
    BY <2>1, Constants
  <2>10. size' = n % Base ^ count'
    BY <1>0, <1>1, <2>2, <2>6, <2>9, Digits
  <2>11. CASE 1 < VarintSize(n)
    <3>1. step' = "more"
      BY <1>1, <2>6, <2>9, <2>11 DEF StepAfter
    <3> QED
      BY <1>0, <2>1, <2>6, <2>8, <2>9, <2>10, <2>11, <3>1
      DEF InSync, CalledAfter, MessagesInTurn
  <2>12. CASE 1 = VarintSize(n)
    <3>1. step' = "body"
      BY <1>1, <2>6, <2>9, <2>12 DEF StepAfter
    <3>2. size' = n
      BY <1>0, <2>2, <2>10, <2>12, AllDigits
    <3> QED
      BY <1>0, <2>1, <2>6, <2>8, <2>9, <2>12, <3>1, <3>2
      DEF InSync, CalledAfter, MessagesInTurn
  <2> QED
    BY <2>3, <2>11, <2>12, Constants
<1>5. CASE wire = <<>>
  <2>1. AtEnd /\ UNCHANGED wire
    BY <1>1, <1>5, SyncOrEnd
  <2>2. TypeOK'
    BY <1>0, <1>3, <2>1 DEF TypeOK
  <2> QED
    BY <1>0, <2>1, <2>2, EndStays, NothingRead
<1> QED
  BY <1>4, <1>5

(* Another byte of a prefix. *)
LEMMA ReadMoreStep ==
    ASSUME ChannelInv, ReadMore
    PROVE  TypeOK' /\ MessagesInTurn' /\ StreamAsWritten' /\ (InSync' \/ AtEnd')
<1>0. /\ TypeOK /\ MessagesInTurn /\ StreamAsWritten /\ step = "more" /\ count < MaxPrefix
      /\ UNCHANGED <<log, sending, closed, reader, got, result>> /\ count' = count + 1
  BY SyncOrEnd DEF ReadMore, writerVars
<1>1. PICK value \in Values :
         /\ \/ wire # <<>> /\ value = Head(wire).value /\ wire' = Tail(wire)
            \/ wire = <<>> /\ closed /\ value = 0 /\ UNCHANGED wire
         /\ size' = size + (value % Base) * Base ^ count
         /\ step' = StepAfter(value)
  BY DEF ReadMore, ReceiveByte, Weighed
<1>2. PICK P \in Nat : P = Base ^ MaxPrefix
  BY Constants
<1>3. /\ count \in Nat /\ count' \in 1 .. MaxPrefix /\ size \in 0 .. P - 1
      /\ step' \in {"first", "more", "body"}
  BY <1>0, <1>1, <1>2, Constants DEF TypeOK, StepAfter
<1>4. CASE wire # <<>>
  <2> DEFINE n == Stream[1].length
  <2>1. InSync /\ Stream # <<>> /\ 0 < count /\ count < VarintSize(n) /\ size = n % Base ^ count
    BY <1>0, <1>4, SyncOrEnd, StreamBytes DEF InSync
  <2>2. value = Head(wire).value /\ wire' = Tail(wire)
    BY <1>1, <1>4
  <2>3. /\ n \in Lengths
        /\ got + 1 \in 1 .. Len(log)
        /\ count + 1 \in 1 .. VarintSize(n)
        /\ VarintSize(n) \in 1 .. MaxPrefix
        /\ value % Base = Digit(n, count + 1)
        /\ value >= Base <=> count + 1 < VarintSize(n)
        /\ StreamAsWritten'
        /\ Stream' # <<>>
        /\ Stream'[1].of = got + 1
        /\ Stream'[1].at = count + 2
        /\ Stream'[1].length = n
    BY <1>0, <1>4, <2>1, <2>2, PrefixByte
  <2>4. wire' \in Seq(Byte)
    <3>1. wire \in Seq(Byte)
      BY <1>0 DEF TypeOK
    <3> QED
      BY <1>4, <2>2, <3>1, HeadTailProperties
  <2> HIDE DEF n
  <2>5. size' = n % Base ^ count'
    <3>1. count + 1 \in 1 .. MaxPrefix /\ count + 1 > 1 /\ count + 1 - 1 = count
      BY <1>0, <1>3, <2>1, Constants
    <3>2. n % Base ^ (count + 1) = (n % Base ^ count) + Digit(n, count + 1) * Base ^ count
      <4>1. PICK i \in 1 .. MaxPrefix : i = count + 1
        BY <3>1
      <4>2. n % Base ^ i = (n % Base ^ (i - 1)) + Digit(n, i) * Base ^ (i - 1)
        BY <2>3, <3>1, <4>1, Digits
      <4>3. i - 1 = count
        BY <1>3, <4>1
      <4>4. n % Base ^ i = (n % Base ^ count) + Digit(n, i) * Base ^ count
        BY <4>2, <4>3
      <4> QED
        BY <4>1, <4>4
    <3> QED
      BY <1>0, <1>1, <2>1, <2>3, <3>1, <3>2
  <2>6. size' \in 0 .. P - 1
    <3>1. count' \in 0 .. MaxPrefix
      BY <1>3, Constants
    <3>2. PICK p \in Nat \ {0} : p = Base ^ count' /\ p <= P
      BY <1>2, <3>1, Powers, PowersGrow
    <3>3. n \in Nat
      BY <2>3, VarintSizes
    <3>4. n % p \in Nat /\ n % p < p
      BY <3>2, <3>3, Division
    <3> QED
      BY <1>2, <2>5, <3>2, <3>4
  <2>7. TypeOK'
    BY <1>0, <1>2, <1>3, <2>4, <2>6, Constants DEF TypeOK
  <2>8. count + 2 = count' + 1 /\ 0 < count'
    BY <1>0, <1>3
  <2>9. CASE count' < VarintSize(n)
    <3>1. step' = "more"
      BY <1>0, <1>1, <2>3, <2>9 DEF StepAfter
    <3> QED
      BY <1>0, <2>1, <2>3, <2>5, <2>7, <2>8, <2>9, <3>1
      DEF InSync, CalledAfter, MessagesInTurn
  <2>10. CASE count' = VarintSize(n)
    <3>1. step' = "body"
      BY <1>0, <1>1, <1>3, <2>3, <2>10 DEF StepAfter
    <3>2. size' = n
      BY <2>3, <2>5, <2>10, AllDigits
    <3> QED
      BY <1>0, <2>1, <2>3, <2>7, <2>8, <2>10, <3>1, <3>2
      DEF InSync, CalledAfter, MessagesInTurn
  <2> QED
    BY <1>0, <1>3, <2>3, <2>9, <2>10, Constants
<1>5. CASE wire = <<>>
  <2>1. AtEnd /\ UNCHANGED wire /\ value = 0
    BY <1>1, <1>5, SyncOrEnd
  <2>2. size' = size
    <3>1. PICK p \in Nat : p = Base ^ count
      <4>1. count \in 0 .. MaxPrefix
        BY <1>0 DEF TypeOK
      <4> QED
        BY <4>1, Powers
    <3>2. 0 % Base = 0
      BY Constants
    <3> QED
      BY <1>1, <1>3, <2>1, <3>1, <3>2
  <2>3. TypeOK'
    BY <1>0, <1>2, <1>3, <2>1, <2>2, Constants DEF TypeOK
  <2> QED
    BY <1>0, <2>1, <2>3, EndStays, NothingRead
<1> QED
  BY <1>4, <1>5

(* What the method makes of n bytes. *)
LEMMA Outcomes ==
    ASSUME TypeOK, NEW n \in 0 .. size
    PROVE  /\ ResultOf(n) \in [reader : Readers, content : Contents, success : BOOLEAN]
           /\ n = size /\ n > 0 => ResultOf(n) = WholeResult(reader)
           /\ n < size => ResultOf(n) \in CutResults(reader)
           /\ n = 0 => ResultOf(n) \in CutResults(reader) /\ ResultOf(n) \in EndResults(reader)
<1>1. n \in Nat /\ size \in Nat /\ n <= size /\ reader \in Readers
  <2>1. PICK P \in Nat : P = Base ^ MaxPrefix
    BY Constants
  <2> QED
    BY <2>1 DEF TypeOK
<1> USE DEF Result, WholeResult, CutResults, EndResults, Contents
<1>2. CASE reader = "readCommand"
  BY <1>1, <1>2 DEF ResultOf, CommandResult
<1>3. CASE reader = "readUpdateNode"
  BY <1>1, <1>3 DEF ResultOf, UpdateNodeResult
<1>4. CASE reader # "readCommand" /\ reader # "readUpdateNode"
  BY <1>1, <1>4 DEF ResultOf, ParsedResult
<1> QED
  BY <1>2, <1>3, <1>4

(* A reader in step, before a body: how much of the body has arrived, and  *)
(* what comes after it.                                                    *)
LEMMA BeforeBody ==
    ASSUME TypeOK, MessagesInTurn, StreamAsWritten, InSync, step = "body"
    PROVE  /\ size \in Nat \ {0}
           /\ Stream # <<>>
           /\ got < Len(log) /\ reader = log[got + 1].reader
           /\ size <= Len(Stream)
           /\ \A i \in 1 .. Len(Stream) : Stream[i].of = got + 1 <=> i <= size
           /\ Len(Stream) > size => Stream[size + 1].of = got + 2 /\ Stream[size + 1].at = 1
           /\ Len(Stream) = size <=> got + 1 = Len(log)
           /\ Len(wire) >= size => got < Arrived /\ (Cut => got + 1 < Len(log))
           /\ Len(wire) < size => /\ sending # <<>> /\ Head(sending).at > 1
                                  /\ got + 1 = Len(log) /\ Arrived = Len(log)
<1> DEFINE n == Stream[1].length
           W == Len(wire)
<1>1. /\ 0 < count /\ count = VarintSize(n) /\ size = n /\ count \in Nat /\ got \in Nat
      /\ got <= Len(log) /\ reader = CalledAfter(got)
      /\ Stream # <<>> /\ Stream[1].of = got + 1 /\ Stream[1].at = count + 1
  <2>1. count \in Nat /\ got \in Nat
    BY Constants DEF TypeOK
  <2> QED
    BY <2>1 DEF InSync
<1>2. /\ W \in Nat /\ Len(log) \in Nat /\ Len(sending) \in Nat /\ sending \in Seq(Byte)
      /\ Len(Stream) = W + Len(sending) /\ Len(Stream) \in Nat \ {0}
      /\ \A i \in 1 .. Len(sending) : Stream[W + i] = sending[i]
  BY <1>1, StreamBytes, EmptySeq DEF TypeOK
<1>3. n \in Lengths /\ got + 1 \in 1 .. Len(log)
  <2>1. 1 \in 1 .. Len(Stream)
    BY <1>2
  <2>2. Genuine(Stream[1])
    BY <2>1 DEF StreamAsWritten
  <2> QED
    BY <1>1, <2>2 DEF Genuine
<1>4. size \in Nat \ {0} /\ FrameLength(n) = count + size
  BY <1>1, <1>3, VarintSizes
<1>5. size = FrameLength(n) - Stream[1].at + 1 /\ size \in Int
  <2> HIDE DEF n
  <2> QED
    BY <1>1, <1>4
<1>6. /\ size \in 1 .. Len(Stream)
      /\ \A i \in 1 .. size : /\ Stream[i].of = got + 1
                              /\ Stream[i].at = count + 1 + i - 1
      /\ \A i \in 1 .. Len(Stream) : i > size => Stream[i].of > got + 1
      /\ Len(Stream) > size => Stream[size + 1].of = got + 1 + 1 /\ Stream[size + 1].at = 1
      /\ Len(Stream) = size <=> got + 1 = Len(log)
  BY <1>1, <1>5, Ahead
<1> HIDE DEF n
<1>7. \A i \in 1 .. Len(Stream) : Stream[i].of = got + 1 <=> i <= size
  <2> SUFFICES ASSUME NEW i \in 1 .. Len(Stream) PROVE Stream[i].of = got + 1 <=> i <= size
    OBVIOUS
  <2>1. CASE i <= size
    <3>1. i \in 1 .. size
      BY <1>2, <1>4, <2>1
    <3> QED
      BY <1>6, <2>1, <3>1
  <2>2. CASE i > size
    <3>1. Stream[i].of > got + 1 /\ ~(i <= size)
      BY <1>2, <1>4, <1>6, <2>2
    <3>2. ~(Stream[i].of = got + 1)
      <4>1. got + 1 \in Nat
        BY <1>1
      <4> QED
        BY <3>1, <4>1
    <3> QED
      BY <3>1, <3>2
  <2> QED
    BY <1>2, <1>4, <2>1, <2>2
<1>8. got < Len(log) /\ reader = log[got + 1].reader
  <2>1. log[got + 1].reader = CalledAfter(got + 1 - 1) /\ got + 1 - 1 = got
    BY <1>1, <1>3 DEF MessagesInTurn
  <2> QED
    BY <1>1, <1>2, <1>3, <2>1
<1>9. sending # <<>> => /\ Len(sending) >= 1 /\ Head(sending) = Stream[W + 1]
                        /\ W + 1 \in 1 .. Len(Stream)
                        /\ Head(sending).of = Len(log)
  <2> SUFFICES ASSUME sending # <<>>
               PROVE  /\ Len(sending) >= 1 /\ Head(sending) = Stream[W + 1]
                      /\ W + 1 \in 1 .. Len(Stream)
                      /\ Head(sending).of = Len(log)
    OBVIOUS
  <2>1. Len(sending) >= 1 /\ 1 \in 1 .. Len(sending) /\ Head(sending) = sending[1]
    BY <1>2, EmptySeq
  <2> QED
    BY <1>2, <2>1 DEF StreamAsWritten
<1>10. ASSUME W >= size PROVE got < Arrived /\ (Cut => got + 1 < Len(log))
  <2>1. CASE sending = <<>>
    BY <1>8, <2>1 DEF Arrived, Cut
  <2>2. CASE sending # <<>>
    <3>1. Stream[W + 1].of > got + 1
      BY <1>2, <1>4, <1>6, <1>9, <1>10, <2>2
    <3>2. Len(log) > got + 1
      BY <1>9, <2>2, <3>1
    <3> QED
      BY <1>1, <1>2, <3>2 DEF Arrived
  <2> QED
    BY <2>1, <2>2
<1>11. ASSUME W < size
       PROVE  /\ sending # <<>> /\ Head(sending).at > 1
              /\ got + 1 = Len(log) /\ Arrived = Len(log)
  <2>1. sending # <<>>
    BY <1>2, <1>4, <1>6, <1>11, EmptySeq
  <2>2. W + 1 \in 1 .. size
    BY <1>2, <1>4, <1>11
  <2>3. Stream[W + 1].of = got + 1 /\ Stream[W + 1].at = count + 1 + (W + 1) - 1
    BY <1>6, <2>2
  <2>4. got + 1 = Len(log)
    BY <1>9, <2>1, <2>3
  <2>5. count + 1 + (W + 1) - 1 > 1 /\ count + 1 + (W + 1) - 1 # 1
    BY <1>1, <1>2
  <2>6. Head(sending).at > 1 /\ Head(sending).at # 1
    BY <1>9, <2>1, <2>3, <2>5
  <2> QED
    BY <2>1, <2>4, <2>6 DEF Arrived
<1>12. Len(Stream) > size => Stream[size + 1].of = got + 2 /\ Stream[size + 1].at = 1
  <2>1. got + 1 + 1 = got + 2
    BY <1>1
  <2> QED
    BY <1>6, <2>1
<1>13. size <= Len(Stream) /\ (Len(Stream) = size <=> got + 1 = Len(log))
  BY <1>2, <1>4, <1>6
<1> QED
  BY <1>1, <1>4, <1>7, <1>8, <1>10, <1>11, <1>12, <1>13

(* A whole body. *)
LEMMA WholeBody ==
    ASSUME ChannelInv, ReadBody, InSync, Len(wire) >= size
    PROVE  /\ TypeOK' /\ MessagesInTurn' /\ StreamAsWritten' /\ InSync'
           /\ got' = got + 1
           /\ reader' = log[got + 1].next
           /\ result' = WholeResult(reader)
<1>0. /\ TypeOK /\ MessagesInTurn /\ StreamAsWritten /\ step = "body"
      /\ UNCHANGED <<log, sending, closed>>
      /\ step' = "first" /\ count' = 0 /\ size' = 0
  BY DEF ChannelInv, ReadBody, writerVars
<1>1. /\ size \in Nat \ {0} /\ Len(wire) \in Nat /\ Len(log) \in Nat /\ got \in Nat
      /\ got < Len(log) /\ got < Arrived
      /\ size <= Len(Stream)
      /\ Len(Stream) > size => Stream[size + 1].of = got + 2 /\ Stream[size + 1].at = 1
      /\ Len(Stream) = size <=> got + 1 = Len(log)
      /\ Len(Stream) \in Nat
  BY <1>0, BeforeBody, StreamBytes DEF TypeOK
<1>2. (IF Len(wire) < size THEN Len(wire) ELSE size) = size
  BY <1>1
<1>3. /\ wire' = SubSeq(wire, size + 1, Len(wire))
      /\ result' = ResultOf(size)
      /\ reader' = ReaderAfter(size = size /\ size > 0)
      /\ got' = got + 1
  BY <1>1, <1>2 DEF ReadBody
<1>4. reader' = log[got + 1].next
  BY <1>1, <1>3 DEF ReaderAfter
<1>5. /\ result' = WholeResult(reader)
      /\ result' \in [reader : Readers, content : Contents, success : BOOLEAN]
  <2>1. size \in 0 .. size /\ size > 0
    BY <1>1
  <2> QED
    BY <1>0, <1>3, <2>1, Outcomes
<1>6. size \in 0 .. Len(wire)
  BY <1>1
<1>7. /\ wire' \in Seq(Byte)
      /\ Len(Stream') = Len(Stream) - size
      /\ \A i \in 1 .. Len(Stream) - size : Stream'[i] = Stream[i + size]
      /\ Stream' = <<>> <=> Len(Stream) = size
      /\ StreamAsWritten'
  BY <1>0, <1>3, <1>6, Dropped
<1>8. got + 1 \in 1 .. Len(log) /\ got + 1 # 0
  BY <1>1
<1>9. log[got + 1] \in Message
  BY <1>0, <1>8, ElementOfSeq DEF TypeOK
<1>10. TypeOK'
  <2>1. reader' \in Readers
    BY <1>4, <1>9 DEF Message
  <2>2. got' \in Nat
    BY <1>1, <1>3
  <2>3. count' \in 0 .. MaxPrefix
    BY <1>0, Constants
  <2>4. size' \in 0 .. (Base ^ MaxPrefix - 1)
    <3>1. PICK P \in Nat : P = Base ^ MaxPrefix /\ Base <= P
      BY Constants
    <3>2. 0 \in 0 .. P - 1
      BY <3>1, Constants
    <3> QED
      BY <1>0, <3>1, <3>2
  <2> QED
    BY <1>0, <1>5, <1>7, <2>1, <2>2, <2>3, <2>4 DEF TypeOK
<1>11. MessagesInTurn'
  BY <1>0 DEF MessagesInTurn, CalledAfter
<1>12. reader' = CalledAfter(got)'
  BY <1>0, <1>3, <1>4, <1>8 DEF CalledAfter
<1>13. Stream' # <<>> => Stream'[1].of = got' + 1 /\ Stream'[1].at = count' + 1
  <2> SUFFICES ASSUME Stream' # <<>>
               PROVE  Stream'[1].of = got' + 1 /\ Stream'[1].at = count' + 1
    OBVIOUS
  <2>1. Len(Stream) > size /\ 1 \in 1 .. Len(Stream) - size /\ 1 + size = size + 1
    BY <1>1, <1>7
  <2>2. Stream'[1] = Stream[size + 1]
    BY <1>7, <2>1
  <2>3. got' + 1 = got + 2 /\ count' + 1 = 1
    BY <1>0, <1>1, <1>3
  <2> QED
    BY <1>1, <2>1, <2>2, <2>3
<1>14. Stream' = <<>> => got' = Len(log') /\ count' = 0
  BY <1>0, <1>1, <1>3, <1>7
<1>15. got' <= Len(log')
  BY <1>0, <1>1, <1>3
<1>16. InSync'
  BY <1>0, <1>12, <1>13, <1>14, <1>15 DEF InSync
<1> QED
  BY <1>3, <1>4, <1>5, <1>7, <1>10, <1>11, <1>16

(* Nothing of the bytes after a cut body, or beyond the end, is left. *)
LEMMA WireUsedUp ==
    ASSUME TypeOK, wire' = SubSeq(wire, Len(wire) + 1, Len(wire))
    PROVE  wire' = <<>>
<1>1. Len(wire) \in Nat
  BY StreamBytes
<1>2. Len(wire) + 1 \in Int /\ Len(wire) \in Int /\ Len(wire) < Len(wire) + 1
  BY <1>1
<1> QED
  BY <1>2, SubSeqEmpty

(* A body that the end of the stream cuts short. *)
LEMMA CutBody ==
    ASSUME ChannelInv, ReadBody, InSync, Len(wire) < size
    PROVE  /\ TypeOK' /\ MessagesInTurn' /\ StreamAsWritten' /\ AtEnd'
           /\ Cut /\ ~Cut' /\ got + 1 = Len(log) /\ got' = Len(log)
           /\ reader = log[Len(log)].reader
           /\ reader' = "readCommand"
           /\ result' \in CutResults(reader)
<1>0. /\ TypeOK /\ MessagesInTurn /\ StreamAsWritten /\ step = "body"
      /\ UNCHANGED <<log, sending, closed>>
      /\ step' = "first" /\ count' = 0 /\ size' = 0
  BY DEF ChannelInv, ReadBody, writerVars
<1>1. /\ size \in Nat \ {0} /\ Len(wire) \in Nat /\ Len(log) \in Nat /\ got \in Nat
      /\ sending # <<>> /\ Head(sending).at > 1
      /\ got + 1 = Len(log) /\ Arrived = Len(log)
      /\ reader = log[got + 1].reader
  BY <1>0, BeforeBody, StreamBytes DEF TypeOK
<1>2. (IF Len(wire) < size THEN Len(wire) ELSE size) = Len(wire)
  OBVIOUS
<1>3. ~(Len(wire) >= size) /\ Len(wire) # size
  BY <1>1
<1>4. /\ wire' = SubSeq(wire, Len(wire) + 1, Len(wire))
      /\ result' = ResultOf(Len(wire))
      /\ reader' = ReaderAfter(Len(wire) = size /\ Len(wire) > 0)
      /\ closed
  BY <1>2, <1>3 DEF ReadBody, Available
<1>5. got' = got + 1
  BY <1>1 DEF ReadBody
<1>6. wire' = <<>>
  BY <1>0, <1>4, WireUsedUp
<1>7. reader' = "readCommand"
  BY <1>3, <1>4 DEF ReaderAfter
<1>8. /\ result' \in CutResults(reader)
      /\ result' \in [reader : Readers, content : Contents, success : BOOLEAN]
  <2>1. Len(wire) \in 0 .. size
    BY <1>1
  <2> QED
    BY <1>0, <1>4, <2>1, Outcomes
<1>9. StreamAsWritten'
  <2>1. Len(wire) \in 0 .. Len(wire)
    BY <1>1
  <2> QED
    BY <1>0, <1>4, <2>1, Dropped
<1>10. TypeOK'
  <2>1. reader' \in Readers /\ got' \in Nat /\ count' \in 0 .. MaxPrefix
    BY <1>0, <1>1, <1>5, <1>7, ReadCommandReads, Constants
  <2>2. size' \in 0 .. (Base ^ MaxPrefix - 1)
    <3>1. PICK P \in Nat : P = Base ^ MaxPrefix /\ Base <= P
      BY Constants
    <3>2. 0 \in 0 .. P - 1
      BY <3>1, Constants
    <3> QED
      BY <1>0, <3>1, <3>2
  <2>3. wire' \in Seq(Byte)
    BY <1>6, EmptySeq
  <2> QED
    BY <1>0, <1>8, <2>1, <2>2, <2>3 DEF TypeOK
<1>11. MessagesInTurn'
  BY <1>0 DEF MessagesInTurn, CalledAfter
<1>12. Cut
  BY <1>1, <1>4 DEF Cut
<1>13. ~Cut' /\ AtEnd'
  BY <1>0, <1>1, <1>4, <1>5, <1>6 DEF Cut, AtEnd, Arrived
<1> QED
  BY <1>1, <1>5, <1>7, <1>8, <1>9, <1>10, <1>11, <1>12, <1>13

(* A body beyond the end of the stream. *)
LEMMA NoBody ==
    ASSUME ChannelInv, ReadBody, AtEnd
    PROVE  /\ TypeOK' /\ MessagesInTurn' /\ StreamAsWritten' /\ AtEnd' /\ ~Cut'
           /\ got' = IF Cut THEN got + 1 ELSE got
           /\ reader' = "readCommand"
           /\ result' \in CutResults(reader) /\ result' \in EndResults(reader)
<1>0. /\ TypeOK /\ MessagesInTurn /\ StreamAsWritten
      /\ UNCHANGED <<log, sending, closed>>
      /\ step' = "first" /\ count' = 0 /\ size' = 0
      /\ closed /\ wire = <<>>
  BY DEF ChannelInv, ReadBody, writerVars, AtEnd
<1>1. /\ size \in Nat /\ Len(wire) = 0 /\ Len(log) \in Nat /\ got \in Nat
  <2>1. PICK P \in Nat : P = Base ^ MaxPrefix
    BY Constants
  <2> QED
    BY <1>0, <2>1, StreamBytes DEF TypeOK
<1>2. (IF Len(wire) < size THEN Len(wire) ELSE size) = 0
  BY <1>1
<1>3. /\ wire' = SubSeq(wire, 0 + 1, Len(wire))
      /\ result' = ResultOf(0)
      /\ reader' = ReaderAfter(0 = size /\ 0 > 0)
  BY <1>2 DEF ReadBody
<1>4. wire' = <<>>
  <2>1. wire' = SubSeq(wire, Len(wire) + 1, Len(wire))
    BY <1>1, <1>3
  <2> QED
    BY <1>0, <2>1, WireUsedUp
<1>5. reader' = "readCommand"
  BY <1>3 DEF ReaderAfter
<1>6. /\ result' \in CutResults(reader) /\ result' \in EndResults(reader)
      /\ result' \in [reader : Readers, content : Contents, success : BOOLEAN]
  <2>1. 0 \in 0 .. size
    BY <1>1
  <2> QED
    BY <1>0, <1>3, <2>1, Outcomes
<1>7. MessagesInTurn' /\ StreamAsWritten'
  <2>1. UNCHANGED wire
    BY <1>0, <1>4
  <2> QED
    BY <1>0, <2>1, NothingRead
<1>8. /\ Cut => Arrived = Len(log) /\ got < Arrived /\ got + 1 = Len(log)
      /\ ~Cut => got = Arrived
  <2>1. Cut => Head(sending).at # 1
    BY DEF Cut
  <2> QED
    BY <1>1, <2>1 DEF AtEnd, Cut, Arrived
<1>9. got' = IF Cut THEN got + 1 ELSE got
  <2>1. ~Cut => ~(got < Arrived)
    BY <1>1, <1>8
  <2> QED
    BY <1>8, <2>1 DEF ReadBody
<1>10. TypeOK'
  <2>1. reader' \in Readers /\ got' \in Nat /\ count' \in 0 .. MaxPrefix
    BY <1>0, <1>1, <1>5, <1>9, ReadCommandReads, Constants
  <2>2. size' \in 0 .. (Base ^ MaxPrefix - 1)
    <3>1. PICK P \in Nat : P = Base ^ MaxPrefix /\ Base <= P
      BY Constants
    <3>2. 0 \in 0 .. P - 1
      BY <3>1, Constants
    <3> QED
      BY <1>0, <3>1, <3>2
  <2>3. wire' \in Seq(Byte)
    BY <1>4, EmptySeq
  <2> QED
    BY <1>0, <1>6, <2>1, <2>2, <2>3 DEF TypeOK
<1>11. ~Cut' /\ got' = Arrived'
  <2>1. CASE Cut
    BY <1>0, <1>1, <1>8, <1>9, <2>1 DEF Cut, Arrived
  <2>2. CASE ~Cut
    BY <1>0, <1>8, <1>9, <2>2 DEF Cut, Arrived
  <2> QED
    BY <2>1, <2>2
<1>12. AtEnd'
  BY <1>0, <1>4, <1>11 DEF AtEnd
<1> QED
  BY <1>5, <1>6, <1>7, <1>9, <1>10, <1>11, <1>12

-----------------------------------------------------------------------------
(* The invariant *)

(* The channel is in step when it is opened. *)
LEMMA InitInvariant == Init => ChannelInv
<1> SUFFICES ASSUME Init PROVE ChannelInv
  OBVIOUS
<1>1. /\ log = <<>> /\ sending = <<>> /\ wire = <<>> /\ step = "first" /\ got = 0
      /\ count = 0 /\ size = 0 /\ reader = "readCommand" /\ closed = FALSE
      /\ result = WholeResult("readCommand")
  BY DEF Init
<1>2. TypeOK
  <2>1. result \in [reader : Readers, content : Contents, success : BOOLEAN]
    BY <1>1, ReadCommandReads DEF WholeResult, Result, Contents
  <2>2. size \in 0 .. (Base ^ MaxPrefix - 1)
    <3>1. PICK P \in Nat : P = Base ^ MaxPrefix /\ Base <= P
      BY Constants
    <3>2. 0 \in 0 .. P - 1
      BY <3>1, Constants
    <3> QED
      BY <1>1, <3>1, <3>2
  <2>3. log \in Seq(Message) /\ sending \in Seq(Byte) /\ wire \in Seq(Byte)
    BY <1>1, EmptySeq
  <2> QED
    <3>1. count \in 0 .. MaxPrefix /\ got \in Nat
      BY <1>1, Constants
    <3>2. reader \in Readers /\ step \in {"first", "more", "body"} /\ closed \in BOOLEAN
      BY <1>1, ReadCommandReads
    <3> QED
      BY <2>1, <2>2, <2>3, <3>1, <3>2 DEF TypeOK
<1>3. Len(log) = 0 /\ Len(sending) = 0
  BY <1>1
<1>4. Stream = <<>> /\ Len(Stream) = 0
  BY <1>1, <1>2, StreamBytes
<1>5. StreamAsWritten
  BY <1>3, <1>4 DEF StreamAsWritten
<1>6. MessagesInTurn /\ InSync
  BY <1>1, <1>3, <1>4 DEF MessagesInTurn, InSync, CalledAfter
<1> QED
  BY <1>2, <1>5, <1>6 DEF ChannelInv

(* And every step keeps it so, or comes to the end. *)
LEMMA NextInvariant == ChannelInv /\ [Next]_vars => ChannelInv'
<1> SUFFICES ASSUME ChannelInv, [Next]_vars PROVE ChannelInv'
  OBVIOUS
<1>1. CASE Write
  BY <1>1, WriteStep DEF ChannelInv
<1>2. CASE Arrive
  BY <1>2, ArriveStep DEF ChannelInv
<1>3. CASE Close
  BY <1>3, CloseStep DEF ChannelInv
<1>4. CASE ReadFirst
  BY <1>4, ReadFirstStep DEF ChannelInv
<1>5. CASE ReadMore
  BY <1>5, ReadMoreStep DEF ChannelInv
<1>6. CASE ReadBody
  <2>1. CASE AtEnd
    BY <1>6, <2>1, NoBody DEF ChannelInv
  <2>2. CASE InSync /\ Len(wire) >= size
    BY <1>6, <2>2, WholeBody DEF ChannelInv
  <2>3. CASE InSync /\ ~(Len(wire) >= size)
    <3>1. Len(wire) < size
      <4>1. PICK P \in Nat : P = Base ^ MaxPrefix
        BY Constants
      <4>2. size \in Nat /\ Len(wire) \in Nat
        BY <4>1, StreamBytes DEF ChannelInv, TypeOK
      <4> QED
        BY <2>3, <4>2
    <3> QED
      BY <1>6, <2>3, <3>1, CutBody DEF ChannelInv
  <2> QED
    BY <2>1, <2>2, <2>3 DEF ChannelInv
<1>7. CASE UNCHANGED vars
  <2>1. UNCHANGED <<log, sending, closed, wire, reader, step, count, size, got, result>>
    BY <1>7 DEF vars, writerVars, readerVars
  <2> QED
    BY <2>1 DEF ChannelInv, TypeOK, MessagesInTurn, StreamAsWritten, Stream, Genuine, Follows,
                IsLast, InSync, AtEnd, Cut, Arrived, CalledAfter
<1> QED
  BY <1>1, <1>2, <1>3, <1>4, <1>5, <1>6, <1>7 DEF Next, Read

(* What is on the stream is what was written, and the reader is where it   *)
(* believes to be, until it has come to the end.                           *)
THEOREM Invariance == Spec => []ChannelInv
  BY InitInvariant, NextInvariant, PTL DEF Spec

(* The locals of the read methods never leave their types.                 *)
THEOREM TypeCorrect == Spec => []TypeOK
<1>1. ChannelInv => TypeOK
  BY DEF ChannelInv
<1> QED
  BY Invariance, <1>1, PTL

(* A reader never loses the writer: what it takes for a prefix, a body and *)
(* its end are those of the next message, which is meant for it.           *)
THEOREM Synchrony == Spec => []InStep
<1>1. ChannelInv => InStep
  <2> SUFFICES ASSUME ChannelInv, wire # <<>>
               PROVE  LET byte == Head(wire)
                      IN  /\ byte.of = got + 1
                          /\ reader = log[got + 1].reader
                          /\ step # "body" => byte.part = "prefix" /\ byte.at = count + 1
                          /\ step = "body" =>
                                /\ byte.part = "body"
                                /\ \A i \in DOMAIN wire : wire[i].of = got + 1 <=> i <= size
    BY DEF InStep
  <2> DEFINE b == Stream[1]
             n == b.length
  <2>1. /\ TypeOK /\ MessagesInTurn /\ StreamAsWritten /\ InSync
        /\ Head(wire) = b /\ Stream # <<>>
    BY SyncOrEnd, DroppedOne
  <2>2. /\ b.of = got + 1 /\ b.at = count + 1 /\ reader = CalledAfter(got)
        /\ got \in Nat /\ count \in Nat
    BY <2>1, Constants DEF InSync, TypeOK
  <2>3. Genuine(b)
    <3>1. 1 \in 1 .. Len(Stream)
      BY <2>1, StreamBytes, EmptySeq
    <3> QED
      BY <2>1, <3>1 DEF StreamAsWritten
  <2>4. /\ n \in Lengths /\ got + 1 \in 1 .. Len(log) /\ count + 1 \in 1 .. FrameLength(n)
        /\ b = Frame(got + 1, n)[count + 1]
    BY <2>2, <2>3 DEF Genuine
  <2>5. reader = log[got + 1].reader
    <3>1. log[got + 1].reader = CalledAfter(got + 1 - 1) /\ got + 1 - 1 = got
      BY <2>1, <2>2, <2>4 DEF MessagesInTurn
    <3> QED
      BY <2>2, <3>1
  <2>6. /\ count + 1 > VarintSize(n) => b.part = "body"
        /\ count + 1 <= VarintSize(n) => b.part = "prefix"
    <3> HIDE DEF n, b
    <3>1. got + 1 \in Nat
      BY <2>2
    <3>2. \A i \in 1 .. FrameLength(n) :
             /\ i > VarintSize(n) => Frame(got + 1, n)[i].part = "body"
             /\ i <= VarintSize(n) => Frame(got + 1, n)[i].part = "prefix"
      BY <2>4, <3>1, Frames
    <3> QED
      BY <2>4, <3>2
  <2>7. VarintSize(n) \in Nat /\ VarintSize(n) >= 1
    <3>1. VarintSize(n) \in 1 .. MaxPrefix
      BY <2>4, VarintSizes
    <3> QED
      BY <3>1, Constants
  <2>8. CASE step # "body"
    <3>1. count < VarintSize(n)
      <4>1. step = "first" \/ step = "more"
        BY <2>1, <2>8 DEF TypeOK
      <4> QED
        BY <2>1, <2>7, <4>1 DEF InSync
    <3>2. count + 1 <= VarintSize(n)
      <4> HIDE DEF n
      <4> QED
        BY <2>2, <2>7, <3>1
    <3> QED
      BY <2>1, <2>2, <2>5, <2>6, <2>8, <3>2
  <2>9. CASE step = "body"
    <3>1. count = VarintSize(n)
      BY <2>1, <2>9 DEF InSync
    <3>2. count + 1 > VarintSize(n)
      <4> HIDE DEF n
      <4> QED
        BY <2>2, <2>7, <3>1
    <3>3. \A i \in 1 .. Len(Stream) : Stream[i].of = got + 1 <=> i <= size
      BY <2>1, <2>9, BeforeBody
    <3>4. /\ wire \in Seq(Byte) /\ DOMAIN wire = 1 .. Len(wire)
          /\ \A i \in 1 .. Len(wire) : Stream[i] = wire[i] /\ i \in 1 .. Len(Stream)
      BY <2>1, StreamBytes DEF TypeOK
    <3>5. \A i \in DOMAIN wire : wire[i].of = got + 1 <=> i <= size
      BY <3>3, <3>4
    <3> QED
      BY <2>1, <2>2, <2>5, <2>6, <2>9, <3>2, <3>5
  <2> QED
    BY <2>8, <2>9
<1> QED
  BY Invariance, <1>1, PTL

-----------------------------------------------------------------------------
(* Implementation of MessagePipe *)

(* The last message that can still be received, or a part of it. *)
Reach == IF closed THEN Arrived ELSE Len(log)

(* What is in the queue. *)
QueueIsRest ==
    /\ got \in Nat /\ Reach \in Nat /\ got <= Reach /\ Reach <= Len(log)
    /\ Len(log) \in Nat /\ log \in Seq(Message)
    /\ Queue \in Seq(Message)
    /\ Len(Queue) = Reach - got
    /\ \A i \in 1 .. Reach - got : Queue[i] = log[got + i] /\ log[got + i] \in Message
    /\ Cut => closed /\ Reach = Len(log) /\ got < Len(log)

LEMMA Queued == ChannelInv => QueueIsRest
<1> SUFFICES ASSUME ChannelInv PROVE QueueIsRest
  OBVIOUS
<1>1. got \in Nat /\ Len(log) \in Nat /\ log \in Seq(Message) /\ TypeOK
  BY StreamBytes DEF ChannelInv, TypeOK
<1>2. Cut => closed /\ Reach = Len(log) /\ got < Len(log)
  <2>1. Cut => Head(sending).at # 1
    BY DEF Cut
  <2> QED
    BY <2>1 DEF Cut, Reach, Arrived
<1>3. Arrived \in {Len(log), Len(log) - 1} /\ (sending = <<>> => Arrived = Len(log))
  BY DEF Arrived
<1>4. got <= Reach /\ Reach <= Len(log)
  <2>1. CASE AtEnd
    <3>1. closed /\ (got = Arrived \/ got + 1 = Len(log))
      BY <2>1 DEF AtEnd
    <3> QED
      BY <1>1, <1>3, <3>1 DEF Reach
  <2>2. CASE InSync /\ Stream = <<>>
    <3>1. sending = <<>> /\ got = Len(log)
      BY <1>1, <2>2, StreamBytes DEF InSync
    <3> QED
      BY <1>1, <1>3, <3>1 DEF Reach
  <2>3. CASE InSync /\ Stream # <<>>
    <3>1. 1 \in 1 .. Len(Stream)
      BY <1>1, <2>3, StreamBytes, EmptySeq
    <3>2. Genuine(Stream[1])
      BY <3>1 DEF ChannelInv, StreamAsWritten
    <3>3. got + 1 \in 1 .. Len(log)
      BY <2>3, <3>2 DEF Genuine, InSync
    <3> QED
      BY <1>1, <1>3, <3>3 DEF Reach
  <2> QED
    BY <2>1, <2>2, <2>3 DEF ChannelInv
<1>5. Reach \in Nat
  BY <1>1, <1>3, <1>4 DEF Reach
<1>6. Queue = SubSeq(log, got + 1, Reach)
  BY DEF Queue, Reach
<1>7. ASSUME NEW i \in got + 1 .. Reach PROVE log[i] \in Message
  <2>1. i \in 1 .. Len(log)
    BY <1>1, <1>4, <1>5
  <2> QED
    BY <1>1, <2>1, ElementOfSeq
<1>8. /\ SubSeq(log, got + 1, Reach) \in Seq(Message)
      /\ Len(SubSeq(log, got + 1, Reach)) = IF got + 1 <= Reach THEN Reach - (got + 1) + 1 ELSE 0
      /\ \A i \in 1 .. Reach - (got + 1) + 1 : SubSeq(log, got + 1, Reach)[i] = log[got + 1 + i - 1]
  <2>1. got + 1 \in Int /\ Reach \in Int
    BY <1>1, <1>5
  <2> QED
    BY <1>7, <2>1, SubSeqProperties
<1>9. Len(Queue) = Reach - got
  BY <1>1, <1>4, <1>5, <1>6, <1>8
<1>10. ASSUME NEW i \in 1 .. Reach - got
       PROVE  Queue[i] = log[got + i] /\ log[got + i] \in Message
  <2>1. i \in 1 .. Reach - (got + 1) + 1 /\ got + 1 + i - 1 = got + i /\ got + i \in got + 1 .. Reach
    BY <1>1, <1>5
  <2> QED
    BY <1>6, <1>7, <1>8, <2>1
<1> QED
  BY <1>1, <1>2, <1>4, <1>5, <1>6, <1>8, <1>9, <1>10 DEF QueueIsRest

LEMMA QueuedNext == ChannelInv' => QueueIsRest'
  BY Queued, PTL

(* Sequences with the same elements are the same. *)
LEMMA SameSequence ==
    ASSUME NEW S, NEW s \in Seq(S), NEW t \in Seq(S), Len(s) = Len(t),
           \A i \in 1 .. Len(s) : s[i] = t[i]
    PROVE  s = t
  OBVIOUS

(* The first message is taken from the queue. *)
LEMMA Taken ==
    ASSUME ChannelInv, ChannelInv', got < Reach, UNCHANGED <<log, sending, closed>>, got' = got + 1
    PROVE  /\ Queue # <<>> /\ Head(Queue) = log[got + 1]
           /\ Queue' = Tail(Queue)
           /\ Len(Queue) = Reach - got
<1>1. /\ got \in Nat /\ Reach \in Nat /\ Queue \in Seq(Message) /\ Len(Queue) = Reach - got
      /\ \A i \in 1 .. Reach - got : Queue[i] = log[got + i]
  BY Queued DEF QueueIsRest
<1>2. Reach' = Reach
  BY DEF Reach, Arrived
<1>3. /\ Queue' \in Seq(Message) /\ Len(Queue') = Reach - (got + 1)
      /\ \A i \in 1 .. Reach - (got + 1) : Queue'[i] = log[got + 1 + i]
  <2>1. /\ Queue' \in Seq(Message) /\ Len(Queue') = Reach' - got'
        /\ \A i \in 1 .. Reach' - got' : Queue'[i] = log'[got' + i]
    BY QueuedNext DEF QueueIsRest
  <2> QED
    BY <1>2, <2>1
<1>4. Queue # <<>> /\ Head(Queue) = log[got + 1]
  <2>1. Len(Queue) # 0 /\ 1 \in 1 .. Reach - got
    BY <1>1
  <2>2. Queue # <<>>
    BY <2>1
  <2>3. Head(Queue) = Queue[1]
    BY <1>1, <2>2
  <2> QED
    BY <1>1, <2>1, <2>2, <2>3
<1>5. /\ Tail(Queue) \in Seq(Message) /\ Len(Tail(Queue)) = Reach - got - 1
      /\ \A i \in 1 .. Len(Tail(Queue)) : Tail(Queue)[i] = Queue[i + 1]
  BY <1>1, <1>4, HeadTailProperties
<1>6. ASSUME NEW i \in 1 .. Len(Queue') PROVE Queue'[i] = Tail(Queue)[i]
  <2>1. /\ i \in 1 .. Reach - (got + 1) /\ i \in 1 .. Len(Tail(Queue))
        /\ i + 1 \in 1 .. Reach - got /\ got + (i + 1) = got + 1 + i
    BY <1>1, <1>3, <1>5
  <2> QED
    BY <1>1, <1>3, <1>5, <2>1
<1>7. Len(Queue') = Len(Tail(Queue))
  BY <1>1, <1>3, <1>5
<1>8. PICK s \in Seq(Message), t \in Seq(Message) : s = Queue' /\ t = Tail(Queue)
  BY <1>3, <1>5
<1>9. s = t
  BY <1>6, <1>7, <1>8, SameSequence
<1> QED
  BY <1>1, <1>4, <1>8, <1>9

(* MessagePipe's sets are Channel's. *)
LEMMA PipeSets ==
    /\ Pipe!Message = Message
    /\ \A r : /\ Pipe!WholeResult(r) = WholeResult(r)
              /\ Pipe!CutResults(r) = CutResults(r)
              /\ Pipe!EndResults(r) = EndResults(r)
  BY DEF Pipe!Message, Message, Pipe!Readers, Readers, Pipe!ProtoCommands, ProtoCommands,
         Pipe!NextReader, NextReader, Pipe!WholeResult, WholeResult, Pipe!Result, Result,
         Pipe!CutResults, CutResults, Pipe!EndResults, EndResults

(* The queue is empty when the channel is opened. *)
LEMMA PipeInit == Init => Pipe!Init
<1> SUFFICES ASSUME Init PROVE Pipe!Init
  OBVIOUS
<1>1. log = <<>> /\ got = 0 /\ closed = FALSE /\ reader = "readCommand"
      /\ result = WholeResult("readCommand") /\ Len(log) = 0
  BY DEF Init
<1>2. Queue = <<>>
  <2>1. Queue = SubSeq(log, 1, 0)
    BY <1>1 DEF Queue
  <2> QED
    BY <2>1, SubSeqEmpty
<1>3. Cut = FALSE
  BY <1>1 DEF Cut
<1> QED
  BY <1>1, <1>2, <1>3, PipeSets DEF Pipe!Init

(* A message that is written comes to the end of the queue. *)
LEMMA PipeWrite ==
    ASSUME ChannelInv, ChannelInv', Write
    PROVE  Pipe!Write
<1>1. ~closed /\ UNCHANGED <<closed, reader, got, result>>
  BY DEF Write, readerVars
<1>2. PICK m \in Message : log' = Append(log, m)
  <2>1. PICK next \in Readers : log' = Append(log, [reader |-> Due, next |-> next])
    BY ReadCommandReads DEF Write
  <2>2. /\ log' \in Seq(Message) /\ log \in Seq(Message) /\ Len(log) \in Nat
    BY Queued, QueuedNext DEF QueueIsRest
  <2>3. Len(log') = Len(log) + 1 /\ log'[Len(log) + 1] = [reader |-> Due, next |-> next]
    BY <2>1, <2>2
  <2>4. log'[Len(log) + 1] \in Message
    <3>1. Len(log) + 1 \in 1 .. Len(log')
      BY <2>2, <2>3
    <3> QED
      BY <2>2, <3>1, ElementOfSeq
  <2> QED
    BY <2>1, <2>3, <2>4
<1>3. PICK g \in Nat, l \in Nat, q \in Seq(Message) : g = got /\ l = Len(log) /\ q = Queue
  BY Queued DEF QueueIsRest
<1>4. /\ g <= l /\ Len(q) = l - g
      /\ \A i \in 1 .. l - g : q[i] = log[g + i]
  BY <1>1, <1>3, Queued DEF QueueIsRest, Reach
<1>5. /\ Len(log') = l + 1
      /\ \A i \in 1 .. l : log'[i] = log[i]
      /\ log'[l + 1] = m
  <2>1. log \in Seq(Message)
    BY Queued DEF QueueIsRest
  <2> QED
    BY <1>2, <1>3, <2>1, AppendProperties
<1>6. PICK p \in Seq(Message) : p = Queue'
  BY QueuedNext DEF QueueIsRest
<1>7. Len(p) = l + 1 - g /\ \A i \in 1 .. l + 1 - g : p[i] = log'[g + i]
  <2>1. Reach' = l + 1 /\ got' = g
    BY <1>1, <1>3, <1>5 DEF Reach
  <2> QED
    BY <1>6, <2>1, QueuedNext DEF QueueIsRest
<1>8. Queue' = Append(Queue, m)
  <2>1. /\ Append(q, m) \in Seq(Message)
        /\ Len(Append(q, m)) = l - g + 1
        /\ \A i \in 1 .. l - g : Append(q, m)[i] = q[i]
        /\ Append(q, m)[l - g + 1] = m
    BY <1>4, AppendProperties
  <2>2. ASSUME NEW i \in 1 .. Len(p) PROVE p[i] = Append(q, m)[i]
    <3>0. i \in 1 .. l + 1 - g
      BY <1>7
    <3>1. CASE i <= l - g
      <4>1. i \in 1 .. l - g /\ g + i \in 1 .. l
        BY <1>4, <3>0, <3>1
      <4> QED
        BY <1>4, <1>5, <1>7, <2>1, <3>0, <4>1
    <3>2. CASE i = l - g + 1
      <4>1. g + i = l + 1
        BY <3>2
      <4> QED
        BY <1>5, <1>7, <2>1, <3>0, <3>2, <4>1
    <3> QED
      BY <1>4, <3>0, <3>1, <3>2
  <2>3. Len(p) = Len(Append(q, m))
    BY <1>4, <1>7, <2>1
  <2>4. p = Append(q, m)
    BY <2>1, <2>2, <2>3, SameSequence
  <2> QED
    BY <1>3, <1>6, <2>4
<1>9. Cut' = Cut
  BY <1>1 DEF Cut
<1> QED
  BY <1>1, <1>8, <1>9, PipeSets DEF Pipe!Write

(* When the ambassador goes, the queue keeps what has begun to arrive. *)
LEMMA PipeEnd ==
    ASSUME ChannelInv, ChannelInv', Close
    PROVE  Pipe!End
<1>1. ~closed /\ closed' = TRUE /\ UNCHANGED <<log, sending, reader, got, result>>
  BY DEF Close, readerVars
<1>2. PICK g \in Nat, l \in Nat, q \in Seq(Message) : g = got /\ l = Len(log) /\ q = Queue
  BY Queued DEF QueueIsRest
<1>3. /\ g <= l /\ Len(q) = l - g
      /\ \A i \in 1 .. l - g : q[i] = log[g + i] /\ log[g + i] \in Message
  BY <1>1, <1>2, Queued DEF QueueIsRest, Reach
<1>4. PICK r \in Nat, p \in Seq(Message) : r = Reach' /\ p = Queue'
  BY QueuedNext DEF QueueIsRest
<1>5. /\ g <= r /\ r <= l /\ Len(p) = r - g
      /\ \A i \in 1 .. r - g : p[i] = log[g + i]
      /\ Cut' => r = l /\ g < l
  BY <1>1, <1>2, <1>4, QueuedNext DEF QueueIsRest
<1>6. PICK n \in 0 .. Len(q) : n = r - g
  BY <1>3, <1>5
<1>7. /\ SubSeq(q, 1, n) \in Seq(Message)
      /\ Len(SubSeq(q, 1, n)) = n
      /\ \A i \in 1 .. n : SubSeq(q, 1, n)[i] = q[i]
  <2>1. n \in Int /\ n >= 0 /\ \A i \in 1 .. n : i \in 1 .. l - g
    BY <1>3, <1>6
  <2>2. \A i \in 1 .. n : q[i] \in Message
    BY <1>3, <2>1
  <2>3. /\ SubSeq(q, 1, n) \in Seq(Message)
        /\ Len(SubSeq(q, 1, n)) = IF 1 <= n THEN n - 1 + 1 ELSE 0
        /\ \A i \in 1 .. n - 1 + 1 : SubSeq(q, 1, n)[i] = q[1 + i - 1]
    BY <2>1, <2>2, SubSeqProperties
  <2>4. \A i \in 1 .. n : i \in 1 .. n - 1 + 1 /\ 1 + i - 1 = i
    BY <2>1
  <2> QED
    BY <2>1, <2>3, <2>4
<1>8. p = SubSeq(q, 1, n)
  <2>1. ASSUME NEW i \in 1 .. n PROVE p[i] = SubSeq(q, 1, n)[i]
    <3>1. i \in 1 .. r - g /\ i \in 1 .. l - g
      BY <1>3, <1>5, <1>6
    <3> QED
      BY <1>3, <1>5, <1>7, <3>1
  <2>2. Len(p) = n
    BY <1>5, <1>6
  <2> QED
    BY <1>7, <2>1, <2>2, SameSequence
<1>9. Cut' => p # <<>>
  <2> SUFFICES ASSUME Cut' PROVE p # <<>>
    OBVIOUS
  <2>1. r - g # 0
    BY <1>5
  <2> QED
    BY <1>5, <2>1
<1>10. Cut' \in {FALSE, Queue' # <<>>}
  <2>1. Cut' \in BOOLEAN
    BY DEF Cut
  <2> QED
    BY <1>4, <1>9, <2>1
<1> QED
  BY <1>1, <1>2, <1>4, <1>6, <1>8, <1>10 DEF Pipe!End

(* A method that returns takes a message, a cut one, or finds the end. *)
LEMMA PipeRead ==
    ASSUME ChannelInv, ChannelInv', ReadBody
    PROVE  Pipe!Read \/ Pipe!ReadCut \/ Pipe!ReadEnd
<1>0. /\ UNCHANGED <<log, sending, closed>> /\ TypeOK /\ MessagesInTurn /\ StreamAsWritten
      /\ step = "body"
  BY DEF ReadBody, writerVars, ChannelInv
<1>1. /\ got \in Nat /\ Len(log) \in Nat /\ Reach \in Nat /\ got <= Reach
      /\ Len(Queue) = Reach - got
      /\ Cut => closed /\ Reach = Len(log) /\ got < Len(log)
      /\ Queue \in Seq(Message)
  BY Queued DEF QueueIsRest
<1>2. CASE InSync /\ Len(wire) >= size
  <2>1. /\ got' = got + 1 /\ reader' = log[got + 1].next /\ result' = WholeResult(reader)
    BY <1>2, WholeBody
  <2>2. /\ reader = log[got + 1].reader /\ got < Len(log) /\ got < Arrived
        /\ Cut => got + 1 < Len(log)
    BY <1>0, <1>2, BeforeBody
  <2>3. got < Reach
    BY <2>2 DEF Reach
  <2>4. Queue # <<>> /\ Head(Queue) = log[got + 1] /\ Queue' = Tail(Queue)
    BY <1>0, <2>1, <2>3, Taken
  <2>5. Cut => Len(Queue) > 1
    BY <1>1, <2>2
  <2>6. Cut' = Cut
    <3>1. got < Len(log) => (Cut <=> (closed /\ sending # <<>> /\ Head(sending).at > 1))
      BY DEF Cut
    <3>2. Cut => Cut'
      BY <1>0, <1>1, <2>1, <2>2 DEF Cut
    <3>3. Cut' => Cut
      BY <1>0, <2>1, <2>2 DEF Cut
    <3>4. Cut \in BOOLEAN /\ Cut' \in BOOLEAN
      BY DEF Cut
    <3> QED
      BY <3>2, <3>3, <3>4
  <2>7. Pipe!Read
    BY <1>0, <2>1, <2>2, <2>4, <2>5, <2>6, PipeSets DEF Pipe!Read
  <2> QED
    BY <2>7
<1>3. ASSUME Cut, ~Cut', got + 1 = Len(log), got' = got + 1, reader = log[Len(log)].reader,
             reader' = "readCommand", result' \in CutResults(reader)
      PROVE  Pipe!ReadCut
  <2>1. got < Reach /\ Reach = Len(log) /\ Reach - got = 1
    BY <1>1, <1>3
  <2>2. Queue # <<>> /\ Head(Queue) = log[got + 1] /\ Queue' = Tail(Queue) /\ Len(Queue) = 1
    BY <1>0, <1>3, <2>1, Taken
  <2>3. Queue' = <<>>
    <3>1. Len(Tail(Queue)) = Len(Queue) - 1 /\ Tail(Queue) \in Seq(Message)
      BY <1>1, <2>2, HeadTailProperties
    <3>2. Len(Tail(Queue)) = 0
      BY <2>2, <3>1
    <3> QED
      BY <2>2, <3>1, <3>2, EmptySeq
  <2>4. Cut' = FALSE
    BY <1>3 DEF Cut
  <2> QED
    BY <1>0, <1>3, <2>2, <2>3, <2>4, PipeSets DEF Pipe!ReadCut
<1>4. CASE InSync /\ Len(wire) < size
  <2>1. Pipe!ReadCut
    BY <1>1, <1>3, <1>4, CutBody
  <2> QED
    BY <2>1
<1>5. CASE AtEnd
  <2>1. /\ ~Cut' /\ got' = (IF Cut THEN got + 1 ELSE got) /\ reader' = "readCommand"
        /\ result' \in CutResults(reader) /\ result' \in EndResults(reader)
    BY <1>5, NoBody
  <2>2. CASE Cut
    <3>1. got + 1 = Len(log) /\ reader = log[Len(log)].reader
      BY <1>5, <2>2 DEF AtEnd
    <3>2. Pipe!ReadCut
      BY <1>3, <2>1, <2>2, <3>1
    <3> QED
      BY <3>2
  <2>3. CASE ~Cut
    <3>1. closed /\ got = Arrived /\ got' = got
      BY <1>5, <2>1, <2>3 DEF AtEnd
    <3>2. Queue = <<>>
      <4>1. Len(Queue) = 0
        BY <1>1, <3>1 DEF Reach
      <4> QED
        BY <1>1, <4>1, EmptySeq
    <3>3. Queue' = Queue
      BY <1>0, <3>1 DEF Queue, Arrived
    <3>4. Cut' = Cut
      BY <2>1, <2>3 DEF Cut
    <3>5. Pipe!ReadEnd
      BY <1>0, <2>1, <3>1, <3>2, <3>3, <3>4, PipeSets DEF Pipe!ReadEnd
    <3> QED
      BY <3>5
  <2> QED
    BY <2>2, <2>3
<1>6. Len(wire) >= size \/ Len(wire) < size
  <2>1. PICK P \in Nat : P = Base ^ MaxPrefix
    BY Constants
  <2>2. size \in Nat /\ Len(wire) \in Nat
    BY <1>0, <2>1, StreamBytes DEF TypeOK
  <2> QED
    BY <2>2
<1> QED
  BY <1>2, <1>4, <1>5, <1>6 DEF ChannelInv

(* Every step is one of the queue's, or none that it knows of. *)
LEMMA PipeNext == ChannelInv /\ ChannelInv' /\ [Next]_vars => [Pipe!Next]_Pipe!vars
<1> SUFFICES ASSUME ChannelInv, ChannelInv', [Next]_vars PROVE [Pipe!Next]_Pipe!vars
  OBVIOUS
<1>1. CASE Write
  BY <1>1, PipeWrite DEF Pipe!Next
<1>2. CASE Close
  BY <1>2, PipeEnd DEF Pipe!Next
<1>3. CASE ReadBody
  BY <1>3, PipeRead DEF Pipe!Next
<1>4. CASE Arrive
  <2>1. ~closed /\ UNCHANGED <<log, closed, reader, got, result>>
    BY <1>4 DEF Arrive, readerVars
  <2>2. Queue' = Queue /\ Cut' = Cut
    BY <2>1 DEF Queue, Cut
  <2> QED
    BY <2>1, <2>2 DEF Pipe!vars
<1>5. CASE ReadFirst \/ ReadMore \/ UNCHANGED vars
  <2>1. UNCHANGED <<log, sending, closed, reader, got, result>>
    BY <1>5 DEF ReadFirst, ReadMore, vars, writerVars, readerVars
  <2>2. Queue' = Queue /\ Cut' = Cut
    BY <2>1 DEF Queue, Cut, Arrived
  <2> QED
    BY <2>1, <2>2 DEF Pipe!vars
<1> QED
  BY <1>1, <1>2, <1>3, <1>4, <1>5 DEF Next, Read

(* To its callers the channel is a queue of messages that ends, if it      *)
(* ends within a message, with a cut one.                                  *)
THEOREM PipeImplementation == Spec => ImplementsPipe
  BY PipeInit, PipeNext, Invariance, PTL DEF Spec, ImplementsPipe, Pipe!Spec
=============================================================================
