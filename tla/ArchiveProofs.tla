--------------------------- MODULE ArchiveProofs ----------------------------
(***************************************************************************)
(* Proofs about Archive, for texts and arrays of any length.               *)
(***************************************************************************)
EXTENDS Archive, SequenceTheorems, TLAPS

-----------------------------------------------------------------------------
(* Seven bytes for eight characters.                                       *)

LEMMA PacksTypes == ASSUME NEW n \in Nat PROVE Packs(n) \in Nat /\ Packs(n) <= 2 * n
  BY DEF Packs, Least

\* Character c needs the bytes up to its own.
LEMMA PacksReach ==
  ASSUME NEW n \in Nat, NEW q \in Nat, NEW j \in 0..6, 8 * q + j < n
  PROVE  7 * q + j < Packs(n)
<1>1. n \div 8 \in Nat /\ n % 8 \in 0..7 /\ n = 8 * (n \div 8) + (n % 8)
  OBVIOUS
<1>2. CASE q < n \div 8
  BY <1>1, <1>2 DEF Packs, Least
<1>3. CASE q >= n \div 8
  <2>1. q = n \div 8 /\ j < n % 8
    BY <1>1, <1>3
  <2> QED
    BY <2>1, <1>1 DEF Packs, Least
<1> QED
  BY <1>1, <1>2, <1>3

\* The byte at j in a group, of characters x and y; the character from bytes
\* a and b.
Pair(x, y, j)  == ((x * 2^(j + 1)) % 256) + ((y \div 2^(6 - j)) % 256)
First(a)       == (a \div 2) % 128
Joint(a, b, j) == ((a * 2^(7 - j)) % 128) + ((b % 256) \div 2^(j + 1))

\* Two neighbours share the bits of a character without loss.
LEMMA FirstComesBack ==
  ASSUME NEW x \in 0..127, NEW y \in 0..127
  PROVE  First(Pair(x, y, 0)) = x
  BY DEF First, Pair

LEMMA MiddleComesBack ==
  ASSUME NEW j \in 1..6, NEW x \in 0..127, NEW y \in 0..127, NEW z \in 0..127
  PROVE  Joint(Pair(x, y, j - 1), Pair(y, z, j), j) = y
<1>1. CASE j = 1
  <2>1. Joint(Pair(x, y, 0), Pair(y, z, 1), 1) = y
    BY DEF Joint, Pair
  <2> QED
    BY <1>1, <2>1
<1>2. CASE j = 2
  <2>1. Joint(Pair(x, y, 1), Pair(y, z, 2), 2) = y
    BY DEF Joint, Pair
  <2> QED
    BY <1>2, <2>1
<1>3. CASE j = 3
  <2>1. Joint(Pair(x, y, 2), Pair(y, z, 3), 3) = y
    BY DEF Joint, Pair
  <2> QED
    BY <1>3, <2>1
<1>4. CASE j = 4
  <2>1. Joint(Pair(x, y, 3), Pair(y, z, 4), 4) = y
    BY DEF Joint, Pair
  <2> QED
    BY <1>4, <2>1
<1>5. CASE j = 5
  <2>1. Joint(Pair(x, y, 4), Pair(y, z, 5), 5) = y
    BY DEF Joint, Pair
  <2> QED
    BY <1>5, <2>1
<1>6. CASE j = 6
  <2>1. Joint(Pair(x, y, 5), Pair(y, z, 6), 6) = y
    BY DEF Joint, Pair
  <2> QED
    BY <1>6, <2>1
<1> QED
  BY <1>1, <1>2, <1>3, <1>4, <1>5, <1>6

LEMMA LastComesBack ==
  ASSUME NEW x \in 0..127, NEW y \in 0..127, NEW b \in Nat
  PROVE  Joint(Pair(x, y, 6), b, 7) = y
  BY DEF Joint, Pair

LEMMA CharacterComesBack ==
  ASSUME NEW j \in 0..7, NEW x \in 0..127, NEW y \in 0..127, NEW z \in 0..127,
         NEW a, NEW b \in Nat,
         j # 0 => a = Pair(x, y, j - 1), j # 7 => b = Pair(y, z, j)
  PROVE  (IF j = 0 THEN First(b) ELSE Joint(a, b, j)) = y
<1>1. CASE j = 0
  <2>1. First(Pair(y, z, 0)) = y
    BY FirstComesBack, ZenonT(60)
  <2> QED
    BY <1>1, <2>1
<1>2. CASE j \in 1..6
  <2>1. Joint(Pair(x, y, j - 1), Pair(y, z, j), j) = y
    BY <1>2, MiddleComesBack, ZenonT(60)
  <2> QED
    BY <1>2, <2>1
<1>3. CASE j = 7
  <2>1. Joint(Pair(x, y, 6), b, 7) = y
    BY LastComesBack, Zenon
  <2> QED
    BY <1>3, <2>1
<1> QED
  BY <1>1, <1>2, <1>3

\* Character k, and what stands for the end.
Here(t, k) == IF k < Len(t) THEN t[k + 1] ELSE 0

LEMMA HereTypes ==
  ASSUME NEW t \in Seq(Char), NEW k \in Nat
  PROVE  Here(t, k) \in 0..127 /\ (k < Len(t) => Here(t, k) = t[k + 1])
<1>1. CASE k < Len(t)
  <2>1. k + 1 \in 1..Len(t)
    BY <1>1
  <2>2. t[k + 1] \in Char
    BY <2>1
  <2> QED
    BY <1>1, <2>2 DEF Here, Char
<1> QED
  BY <1>1 DEF Here

LEMMA PairTypes ==
  ASSUME NEW x \in Int, NEW y \in Int, NEW j \in 0..6
  PROVE  Pair(x, y, j) \in Nat
  BY DEF Pair

LEMMA SignedIs == ASSUME NEW c \in 0..127 PROVE Signed(c) = c
  BY DEF Signed

LEMMA AtTypes ==
  ASSUME NEW t \in Seq(Char), NEW g \in Byte, NEW k \in Nat
  PROVE  At(t, k, g) \in 0..255
<1>1. k < Len(t) => t[k + 1] \in Char
  OBVIOUS
<1> QED
  BY <1>1 DEF At, Char, Byte

LEMMA ElemTypes ==
  ASSUME NEW a \in Seq(Nat), NEW k \in Nat, NEW g \in Byte
  PROVE  Elem(a, k, g) \in Nat
<1>1. k < Len(a) => a[k + 1] \in Nat
  OBVIOUS
<1> QED
  BY <1>1 DEF Elem, Byte

LEMMA PackedIs ==
  ASSUME NEW t \in Seq(Char), NEW g \in Byte, NEW k \in Nat, NEW j \in 0..6, k % 8 = j, k < Len(t)
  PROVE  Packed(t, k, g) = Pair(Here(t, k), Here(t, k + 1), j)
<1>1. k + 1 \in Nat /\ k + 1 <= Len(t)
  OBVIOUS
<1>2. At(t, k, g) = Here(t, k) /\ At(t, k + 1, g) = Here(t, k + 1)
  BY <1>1 DEF At, Here
<1>3. Signed(Here(t, k + 1)) = Here(t, k + 1)
  BY <1>1, HereTypes, SignedIs
<1> QED
  BY <1>2, <1>3 DEF Packed, Pair

LEMMA CompressTypes ==
  ASSUME NEW t \in Seq(Char), NEW g \in Byte
  PROVE  /\ compress8to7(t, g).elem \in Seq(Nat)
         /\ Len(compress8to7(t, g).elem) = Packs(Len(t))
         /\ compress8to7(t, g).size = 2 * Len(t)
<1>1. Packs(Len(t)) \in Nat
  BY PacksTypes
<1>2. ASSUME NEW k \in Nat, k % 8 \in 0..6 PROVE Packed(t, k, g) \in Nat
  <2>3. k + 1 \in Nat /\ 0..255 \subseteq Int
    OBVIOUS
  <2>4. At(t, k, g) \in Int /\ At(t, k + 1, g) \in Int
    BY <2>3, AtTypes
  <2>5. Signed(At(t, k + 1, g)) \in Int
    BY <2>4 DEF Signed
  <2>6. Packed(t, k, g) = Pair(At(t, k, g), Signed(At(t, k + 1, g)), k % 8)
    BY Zenon DEF Packed, Pair
  <2>7. Pair(At(t, k, g), Signed(At(t, k + 1, g)), k % 8) \in Nat
    BY <1>2, <2>4, <2>5, PairTypes, Zenon
  <2> QED
    BY <2>6, <2>7
<1>3. ASSUME NEW m \in 1..Packs(Len(t)) PROVE Packed(t, (m - 1) + ((m - 1) \div 7), g) \in Nat
  <2>1. (m - 1) + ((m - 1) \div 7) \in Nat /\ ((m - 1) + ((m - 1) \div 7)) % 8 \in 0..6
    BY <1>1
  <2> QED
    BY <2>1, <1>2
<1> QED
  BY <1>1, <1>3 DEF compress8to7, Array

LEMMA PackedByte ==
  ASSUME NEW e \in Nat, NEW k \in Nat, k = e + (e \div 7),
         NEW t \in Seq(Char), NEW g \in Byte, NEW h, k < Len(t)
  PROVE  Elem(compress8to7(t, g).elem, e, h) = Pair(Here(t, k), Here(t, k + 1), e % 7)
<1>0. Len(t) \in Nat
  OBVIOUS
<1>1. e \div 7 \in Nat /\ e % 7 \in 0..6 /\ e = 7 * (e \div 7) + (e % 7) /\ k % 8 = e % 7
  OBVIOUS
<1>2. 8 * (e \div 7) + (e % 7) < Len(t)
  BY <1>1
<1>3. e < Packs(Len(t)) /\ Packs(Len(t)) \in Nat
  BY <1>0, <1>1, <1>2, PacksReach, PacksTypes
<1>4. compress8to7(t, g).elem[e + 1] = Packed(t, k, g)
  <2>1. e + 1 \in 1..Packs(Len(t)) /\ (e + 1) - 1 = e
    BY <1>3
  <2> QED
    BY <2>1 DEF compress8to7, Array
<1>5. Elem(compress8to7(t, g).elem, e, h) = Packed(t, k, g)
  BY <1>3, <1>4, CompressTypes DEF Elem
<1>6. Packed(t, k, g) = Pair(Here(t, k), Here(t, k + 1), e % 7)
  BY <1>1, PackedIs
<1> QED
  BY <1>5, <1>6

\* Each character of a group comes back.
LEMMA CharacterIsUnpacked ==
  ASSUME NEW t \in Seq(Char), NEW g \in Byte, NEW h \in Byte, NEW q \in Nat, NEW j \in 0..7,
         8 * q + j < Len(t)
  PROVE  Unpacked(compress8to7(t, g).elem, 7 * q, h)[j + 1] = t[8 * q + j + 1]
<1> DEFINE a == compress8to7(t, g).elem
           c == 8 * q + j
           b == Elem(a, 7 * q + j, h)
           b0 == Elem(a, 7 * q + j - 1, h)
           u == Unpacked(a, 7 * q, h)[j + 1]
<1>1. c \in Nat /\ c < Len(t) /\ Here(t, c) = t[c + 1] /\ 8 * q + j + 1 = c + 1
  BY HereTypes
<1>2. u = IF j = 0 THEN First(b) ELSE Joint(b0, b, j)
  BY DEF Unpacked, First, Joint
<1>3. PICK y \in 0..127 : y = Here(t, c)
  BY <1>1, HereTypes
<1>4. PICK z \in 0..127 : z = Here(t, c + 1)
  <2>1. c + 1 \in Nat
    BY <1>1
  <2> QED
    BY <2>1, HereTypes
<1>5. PICK x \in 0..127 : j # 0 => x = Here(t, c - 1)
  <2>1. j # 0 => c - 1 \in Nat
    OBVIOUS
  <2> QED
    BY <2>1, HereTypes
<1>6. j # 7 => b = Pair(y, z, j)
  <2> SUFFICES ASSUME j # 7 PROVE b = Pair(y, z, j)
    OBVIOUS
  <2>1. PICK e \in Nat : e = 7 * q + j
    OBVIOUS
  <2>2. PICK k \in Nat : k = c
    BY <1>1
  <2>3. e % 7 = j /\ k = e + (e \div 7) /\ k < Len(t)
    BY <1>1, <2>1, <2>2
  <2>4. Elem(compress8to7(t, g).elem, e, h) = Pair(Here(t, k), Here(t, k + 1), e % 7)
    BY <2>3, PackedByte, ZenonT(60)
  <2> QED
    BY <1>3, <1>4, <2>1, <2>2, <2>3, <2>4
<1>7. j # 0 => b0 = Pair(x, y, j - 1)
  <2> SUFFICES ASSUME j # 0 PROVE b0 = Pair(x, y, j - 1)
    OBVIOUS
  <2>1. PICK e \in Nat : e = 7 * q + j - 1
    OBVIOUS
  <2>2. PICK k \in Nat : k = c - 1
    OBVIOUS
  <2>3. e % 7 = j - 1 /\ k = e + (e \div 7) /\ k < Len(t)
    BY <1>1, <2>1, <2>2
  <2>4. Elem(compress8to7(t, g).elem, e, h) = Pair(Here(t, k), Here(t, k + 1), e % 7)
    BY <2>3, PackedByte, ZenonT(60)
  <2> QED
    BY <1>1, <1>3, <1>5, <2>1, <2>2, <2>3, <2>4
<1>8. b \in Nat
  <2>1. a \in Seq(Nat) /\ 7 * q + j \in Nat
    BY CompressTypes
  <2> QED
    BY <2>1, ElemTypes
<1> HIDE DEF a, b, b0, c, u
<1>9. u = y
  <2>1. (IF j = 0 THEN First(b) ELSE Joint(b0, b, j)) = y
    BY <1>6, <1>7, <1>8, CharacterComesBack, Zenon
  <2> QED
    BY <1>2, <2>1
<1> QED
  BY <1>1, <1>3, <1>9 DEF u, a, c
-----------------------------------------------------------------------------
(* Base 64: four characters for three words.                               *)

At3(a, k)  == IF k < Len(a) THEN a[k + 1] ELSE 0
Chars(n)   == 4 * (n \div 3) + (IF n % 3 = 0 THEN 0 ELSE (n % 3) + 1)

\* Character j of the four for three words, none left out.
Char64(b1, b2, b3, j) ==
  CASE j = 0 -> (b1 \div 4) % 64
    [] j = 1 -> (b1 % 4) * 16 + ((b2 % 256) \div 16)
    [] j = 2 -> (b2 % 16) * 4 + ((b3 % 256) \div 64)
    [] j = 3 -> b3 % 64

CharOf(a, c) ==
  LET k == 3 * (c \div 4) IN Char64(At3(a, k), At3(a, k + 1), At3(a, k + 2), c % 4)

\* s is what the words up to k are written as.
Written(s, a, k) ==
  /\ s \in Seq(Nat) /\ Len(s) = Chars(k)
  /\ \A c \in 0..(Chars(k) - 1) : s[c + 1] = CharOf(a, c)

LEMMA CharsTypes ==
  ASSUME NEW n \in Nat
  PROVE  /\ Chars(n) \in Nat /\ Triplets(Chars(n)) = n
         /\ n % 3 = 0 => Chars(n + 1) = Chars(n) + 2 /\ Chars(n + 2) = Chars(n) + 3
                           /\ Chars(n + 3) = Chars(n) + 4 /\ Chars(n) % 4 = 0
                           /\ 3 * (Chars(n) \div 4) = n
  BY DEF Chars, Triplets

LEMMA WordsAreNumbers == \A x \in Word : x \in Nat
<1>1. ASSUME NEW m \in Nat PROVE \A x \in 0..m : x \in Nat
  OBVIOUS
<1>2. 65535 \in Nat
  OBVIOUS
<1> QED
  BY <1>1, <1>2, SMTT(30) DEF Word

LEMMA At3Types == ASSUME NEW a \in Seq(Word), NEW k \in Nat PROVE At3(a, k) \in Nat
<1>1. CASE k < Len(a)
  <2>1. a[k + 1] \in Word
    BY <1>1
  <2>2. At3(a, k) = a[k + 1]
    BY <1>1 DEF At3
  <2> QED
    BY <2>1, <2>2, WordsAreNumbers
<1> QED
  BY <1>1 DEF At3

LEMMA Chars64Types ==
  ASSUME NEW b1 \in Nat, NEW b2 \in Nat, NEW b3 \in Nat, NEW j \in 0..3
  PROVE  Char64(b1, b2, b3, j) \in 0..63
<1>1. (b1 \div 4) % 64 \in 0..63 /\ b3 % 64 \in 0..63
  OBVIOUS
<1>2. (b1 % 4) * 16 + ((b2 % 256) \div 16) \in 0..63
  OBVIOUS
<1>3. (b2 % 16) * 4 + ((b3 % 256) \div 64) \in 0..63
  OBVIOUS
<1>4. /\ Char64(b1, b2, b3, 0) = (b1 \div 4) % 64
      /\ Char64(b1, b2, b3, 1) = (b1 % 4) * 16 + ((b2 % 256) \div 16)
      /\ Char64(b1, b2, b3, 2) = (b2 % 16) * 4 + ((b3 % 256) \div 64)
      /\ Char64(b1, b2, b3, 3) = b3 % 64
  BY DEF Char64
<1>5. j = 0 \/ j = 1 \/ j = 2 \/ j = 3
  OBVIOUS
<1> QED
  BY <1>1, <1>2, <1>3, <1>4, <1>5

\* The bytes that two neighbours stand for.
Byte1(c0, c1) == c0 * 4 + (c1 \div 16)
Byte2(c1, c2) == (c1 % 16) * 16 + (c2 \div 4)
Byte3(c2, c3) == (c2 % 4) * 64 + c3
Low(x)        == x % 256

LEMMA FirstByteComesBack ==
  ASSUME NEW b1 \in Nat, NEW b2 \in Nat, NEW b3 \in Nat
  PROVE  Byte1(Char64(b1, b2, b3, 0), Char64(b1, b2, b3, 1)) = Low(b1)
<1>1. ((b1 \div 4) % 64) * 4 + (((b1 % 4) * 16 + ((b2 % 256) \div 16)) \div 16) = b1 % 256
  OBVIOUS
<1>2. /\ Char64(b1, b2, b3, 0) = (b1 \div 4) % 64
      /\ Char64(b1, b2, b3, 1) = (b1 % 4) * 16 + ((b2 % 256) \div 16)
  BY DEF Char64
<1> QED
  BY <1>1, <1>2 DEF Byte1, Low

LEMMA SecondByteComesBack ==
  ASSUME NEW b1 \in Nat, NEW b2 \in Nat, NEW b3 \in Nat
  PROVE  Byte2(Char64(b1, b2, b3, 1), Char64(b1, b2, b3, 2)) = Low(b2)
<1>1. (((b1 % 4) * 16 + ((b2 % 256) \div 16)) % 16) * 16
        + (((b2 % 16) * 4 + ((b3 % 256) \div 64)) \div 4) = b2 % 256
  OBVIOUS
<1>2. /\ Char64(b1, b2, b3, 1) = (b1 % 4) * 16 + ((b2 % 256) \div 16)
      /\ Char64(b1, b2, b3, 2) = (b2 % 16) * 4 + ((b3 % 256) \div 64)
  BY DEF Char64
<1> QED
  BY <1>1, <1>2 DEF Byte2, Low

LEMMA ThirdByteComesBack ==
  ASSUME NEW b1 \in Nat, NEW b2 \in Nat, NEW b3 \in Nat
  PROVE  Byte3(Char64(b1, b2, b3, 2), Char64(b1, b2, b3, 3)) = Low(b3)
<1>1. (((b2 % 16) * 4 + ((b3 % 256) \div 64)) % 4) * 64 + (b3 % 64) = b3 % 256
  OBVIOUS
<1>2. /\ Char64(b1, b2, b3, 2) = (b2 % 16) * 4 + ((b3 % 256) \div 64)
      /\ Char64(b1, b2, b3, 3) = b3 % 64
  BY DEF Char64
<1> QED
  BY <1>1, <1>2 DEF Byte3, Low

\* s begins with what a is written as.
Begins(s, a) ==
  /\ s \in Seq(Nat) /\ Len(s) >= Chars(Len(a))
  /\ \A c \in 0..(Chars(Len(a)) - 1) : s[c + 1] = CharOf(a, c)

\* A group of four is read as its three words.
LEMMA GroupIsRead ==
  ASSUME NEW k \in Nat, NEW j \in 0..3, NEW a \in Seq(Word), NEW s, Begins(s, a),
         4 * k + j < Chars(Len(a))
  PROVE  Digit(s, 4 * k + j) =
           Char64(At3(a, 3 * k), At3(a, 3 * k + 1), At3(a, 3 * k + 2), j)
<1>1. PICK c \in Nat : c = 4 * k + j
  OBVIOUS
<1>2. c \div 4 = k /\ c % 4 = j /\ Len(a) \in Nat
  BY <1>1
<1>3. s[c + 1] = CharOf(a, c) /\ c < Len(s)
  <2>1. c < Chars(Len(a)) /\ Chars(Len(a)) \in Nat
    BY <1>1, <1>2, CharsTypes
  <2>2. c \in 0..(Chars(Len(a)) - 1)
    BY <2>1
  <2> QED
    BY <2>1, <2>2 DEF Begins
<1>4. CharOf(a, c) = Char64(At3(a, 3 * k), At3(a, 3 * k + 1), At3(a, 3 * k + 2), j)
  BY <1>2 DEF CharOf
<1>5. PICK b1 \in Nat : b1 = At3(a, 3 * k)
  BY At3Types
<1>6. PICK b2 \in Nat : b2 = At3(a, 3 * k + 1)
  BY At3Types
<1>7. PICK b3 \in Nat : b3 = At3(a, 3 * k + 2)
  BY At3Types
<1>8. Char64(b1, b2, b3, j) \in 0..63
  BY Chars64Types
<1>9. Digit(s, c) = s[c + 1] % 64
  BY <1>3 DEF Digit
<1>10. \A x \in 0..63 : x % 64 = x
  OBVIOUS
<1> QED
  BY <1>1, <1>3, <1>4, <1>5, <1>6, <1>7, <1>8, <1>9, <1>10

LEMMA BeginningIsRead ==
  ASSUME NEW a \in Seq(Word), NEW s, Begins(s, a)
  PROVE  \A m \in 1..Len(a) :
           Triplet(s, 4 * ((m - 1) \div 3))[1 + ((m - 1) % 3)] = a[m] % 256
<1> DEFINE n == Len(a)
<1>1. n \in Nat
  OBVIOUS
<1>2. ASSUME NEW m \in 1..n
      PROVE  Triplet(s, 4 * ((m - 1) \div 3))[1 + ((m - 1) % 3)] = a[m] % 256
  <2>1. PICK k \in Nat : k = (m - 1) \div 3
    BY <1>1
  <2>2. PICK p \in 0..2 : p = (m - 1) % 3
    BY <1>1
  <2>3. m = 3 * k + p + 1 /\ 4 * k + p + 1 < Chars(n)
    <3>1. m = 3 * k + p + 1
      BY <1>1, <2>1, <2>2
    <3>2. n = 3 * (n \div 3) + (n % 3) /\ n % 3 \in 0..2 /\ n \div 3 \in Nat
      BY <1>1
    <3>3. k < n \div 3 \/ (k = n \div 3 /\ p < n % 3)
      BY <1>1, <3>1, <3>2
    <3>4. Chars(n) = 4 * (n \div 3) + (IF n % 3 = 0 THEN 0 ELSE (n % 3) + 1)
      BY DEF Chars
    <3> HIDE DEF n
    <3>5. CASE k < n \div 3
      BY <3>1, <3>2, <3>4, <3>5
    <3>6. CASE k = n \div 3 /\ p < n % 3
      <4>1. n % 3 # 0 /\ p + 1 < (n % 3) + 1
        BY <3>2, <3>6
      <4>2. Chars(n) = 4 * k + ((n % 3) + 1)
        BY <3>4, <3>6, <4>1
      <4> QED
        BY <3>1, <3>2, <4>1, <4>2
    <3> QED
      BY <3>1, <3>3, <3>5, <3>6
  <2>4. PICK b1 \in Nat : b1 = At3(a, 3 * k)
    BY At3Types
  <2>5. PICK b2 \in Nat : b2 = At3(a, 3 * k + 1)
    BY At3Types
  <2>6. PICK b3 \in Nat : b3 = At3(a, 3 * k + 2)
    BY At3Types
  <2>7. ASSUME NEW j \in 0..3, j <= p + 1 PROVE Digit(s, 4 * k + j) = Char64(b1, b2, b3, j)
    <3>1. 4 * k + j < Chars(Len(a))
      BY <1>1, <2>3, <2>7, CharsTypes
    <3> QED
      BY <2>4, <2>5, <2>6, <3>1, GroupIsRead, SMTT(30)
  <2>8. At3(a, m - 1) = a[m]
    BY <1>1 DEF At3
  <2>9. CASE p = 0
    <3>1. Digit(s, 4 * k + 0) = Char64(b1, b2, b3, 0) /\ Digit(s, 4 * k + 1) = Char64(b1, b2, b3, 1)
      BY <2>7, <2>9
    <3>2. Triplet(s, 4 * k)[1 + p] = Digit(s, 4 * k) * 4 + (Digit(s, 4 * k + 1) \div 16)
      BY <2>9 DEF Triplet
    <3>3. b1 = a[m]
      BY <2>3, <2>4, <2>8, <2>9
    <3>4. 4 * k + 0 = 4 * k
      OBVIOUS
    <3>5. Byte1(Char64(b1, b2, b3, 0), Char64(b1, b2, b3, 1)) = Low(b1)
      BY FirstByteComesBack, Zenon
    <3> QED
      BY <2>1, <2>2, <3>1, <3>2, <3>3, <3>4, <3>5 DEF Byte1, Low
  <2>10. CASE p = 1
    <3>1. Digit(s, 4 * k + 1) = Char64(b1, b2, b3, 1) /\ Digit(s, 4 * k + 2) = Char64(b1, b2, b3, 2)
      BY <2>7, <2>10
    <3>2. Triplet(s, 4 * k)[1 + p] = (Digit(s, 4 * k + 1) % 16) * 16 + (Digit(s, 4 * k + 2) \div 4)
      BY <2>10 DEF Triplet
    <3>3. b2 = a[m]
      BY <2>3, <2>5, <2>8, <2>10
    <3>4. Byte2(Char64(b1, b2, b3, 1), Char64(b1, b2, b3, 2)) = Low(b2)
      BY SecondByteComesBack, Zenon
    <3> QED
      BY <2>1, <2>2, <3>1, <3>2, <3>3, <3>4 DEF Byte2, Low
  <2>11. CASE p = 2
    <3>1. Digit(s, 4 * k + 2) = Char64(b1, b2, b3, 2) /\ Digit(s, 4 * k + 3) = Char64(b1, b2, b3, 3)
      BY <2>7, <2>11
    <3>2. Triplet(s, 4 * k)[1 + p] = (Digit(s, 4 * k + 2) % 4) * 64 + Digit(s, 4 * k + 3)
      BY <2>11 DEF Triplet
    <3>3. b3 = a[m]
      BY <2>3, <2>6, <2>8, <2>11
    <3>4. Byte3(Char64(b1, b2, b3, 2), Char64(b1, b2, b3, 3)) = Low(b3)
      BY ThirdByteComesBack, Zenon
    <3> QED
      BY <2>1, <2>2, <3>1, <3>2, <3>3, <3>4 DEF Byte3, Low
  <2> QED
    BY <2>9, <2>10, <2>11
<1> QED
  BY <1>2

\* Concatenation, position by position.
Join(s, t) == s \o t

LEMMA JoinIs ==
  ASSUME NEW s \in Seq(Nat), NEW t \in Seq(Nat)
  PROVE  /\ Join(s, t) \in Seq(Nat) /\ Len(Join(s, t)) = Len(s) + Len(t)
         /\ \A c \in 1..Len(s) : Join(s, t)[c] = s[c]
         /\ \A c \in 1..Len(t) : Join(s, t)[Len(s) + c] = t[c]
  BY ConcatProperties DEF Join

LEMMA JoinOne ==
  ASSUME NEW m \in Nat, NEW s \in Seq(Nat), NEW x \in Nat, Len(s) = m
  PROVE  /\ Join(s, <<x>>) \in Seq(Nat) /\ Len(Join(s, <<x>>)) = m + 1
         /\ \A c \in 1..m : Join(s, <<x>>)[c] = s[c]
         /\ Join(s, <<x>>)[m + 1] = x
<1> DEFINE t == <<x>>
<1>1. t \in Seq(Nat) /\ Len(t) = 1 /\ t[1] = x /\ 1 \in 1..1
  OBVIOUS
<1> HIDE DEF t
<1>2. /\ Join(s, t) \in Seq(Nat) /\ Len(Join(s, t)) = Len(s) + Len(t)
      /\ \A c \in 1..Len(s) : Join(s, t)[c] = s[c]
      /\ \A c \in 1..Len(t) : Join(s, t)[Len(s) + c] = t[c]
  BY <1>1, JoinIs, Zenon
<1>3. Join(s, t)[m + 1] = x
  BY <1>1, <1>2
<1> QED
  BY <1>1, <1>2, <1>3 DEF t

LEMMA JoinNone == ASSUME NEW s \in Seq(Nat) PROVE Join(s, <<>>) = s
  BY ConcatEmptySeq DEF Join

\* A character more is a byte more.
LEMMA OneByteMore == ASSUME NEW n \in Nat PROVE Triplets(Chars(n) + 1) = n + 1
  BY DEF Chars, Triplets

\* x is read as the bytes of a, and e more.
ReadBack(x, a, e) ==
  /\ Len(b64_to_array(x).elem) = Len(a) + e
  /\ \A k \in 1..Len(a) : b64_to_array(x).elem[k] = a[k] % 256

\* What is written is read, with a byte for the character behind it.
LEMMA WrittenIsRead ==
  ASSUME NEW a \in Seq(Word), NEW s, NEW t \in Seq(Nat), NEW e \in 0..1,
         Written(s, a, Len(a)), Len(t) = e
  PROVE  ReadBack(Join(s, t), a, e)
<1>1. PICK n \in Nat : n = Len(a)
  OBVIOUS
<1>2. s \in Seq(Nat) /\ Len(s) = Chars(n) /\ \A c \in 0..(Chars(n) - 1) : s[c + 1] = CharOf(a, c)
  BY <1>1 DEF Written
<1>4. Chars(n) \in Nat /\ Triplets(Chars(n)) = n
  BY CharsTypes
<1>5. PICK v \in Seq(Nat) : /\ v = Join(s, t) /\ Len(v) = Chars(n) + e
                            /\ \A c \in 1..Chars(n) : v[c] = s[c]
  <2>1. /\ Join(s, t) \in Seq(Nat) /\ Len(Join(s, t)) = Len(s) + Len(t)
        /\ \A c \in 1..Len(s) : Join(s, t)[c] = s[c]
    BY <1>2, JoinIs, Zenon
  <2> QED
    BY <1>2, <2>1
<1>6. Begins(v, a)
  <2>1. \A c \in 0..(Chars(n) - 1) : v[c + 1] = CharOf(a, c)
    <3>1. \A c \in 0..(Chars(n) - 1) : c + 1 \in 1..Chars(n)
      BY <1>4
    <3> QED
      BY <1>2, <1>5, <3>1
  <2>2. Chars(n) + e >= Chars(n)
    BY <1>4
  <2> QED
    BY <1>1, <1>5, <2>1, <2>2 DEF Begins
<1>7. Triplets(Chars(n) + e) = n + e
  <2>1. CASE e = 0
    BY <1>4, <2>1
  <2>2. CASE e = 1
    <3>1. Triplets(Chars(n) + 1) = n + 1
      BY OneByteMore
    <3> QED
      BY <2>2, <3>1
  <2> QED
    BY <2>1, <2>2
<1>8. \A m \in 1..n : Triplet(v, 4 * ((m - 1) \div 3))[1 + ((m - 1) % 3)] = a[m] % 256
  BY <1>1, <1>6, BeginningIsRead
<1>9. b64_to_array(v).elem =
        [m \in 1..(n + e) |-> Triplet(v, 4 * ((m - 1) \div 3))[1 + ((m - 1) % 3)]]
  BY <1>5, <1>7 DEF b64_to_array, Array
<1>10. \A m \in 1..n : m \in 1..(n + e)
  OBVIOUS
<1>11. Len(b64_to_array(v).elem) = n + e
  BY <1>9
<1> QED
  BY <1>1, <1>5, <1>8, <1>9, <1>10, <1>11 DEF ReadBack

\* Three and four characters.
LEMMA OneMore ==
  ASSUME NEW s \in Seq(Nat), Len(s) = 2, NEW z \in Nat
  PROVE  \E v \in Seq(Nat) : /\ v = Join(s, <<z>>) /\ Len(v) = 3
                             /\ v[1] = s[1] /\ v[2] = s[2] /\ v[3] = z
<1>1. /\ Join(s, <<z>>) \in Seq(Nat) /\ Len(Join(s, <<z>>)) = 2 + 1
      /\ \A c \in 1..2 : Join(s, <<z>>)[c] = s[c]
      /\ Join(s, <<z>>)[2 + 1] = z
  BY JoinOne
<1>2. PICK v \in Seq(Nat) : /\ v = Join(s, <<z>>) /\ Len(v) = 2 + 1
                            /\ \A c \in 1..2 : v[c] = s[c]
                            /\ v[2 + 1] = z
  BY <1>1, Zenon
<1> QED
  BY <1>2

LEMMA Three ==
  ASSUME NEW x \in Nat, NEW y \in Nat, NEW z \in Nat
  PROVE  \E v \in Seq(Nat) : /\ v = Join(<<x, y>>, <<z>>) /\ Len(v) = 3
                             /\ v[1] = x /\ v[2] = y /\ v[3] = z
<1>1. /\ <<x, y>> \in Seq(Nat) /\ Len(<<x, y>>) = 2
      /\ <<x, y>>[1] = x /\ <<x, y>>[2] = y
  OBVIOUS
<1>2. PICK s \in Seq(Nat) : s = <<x, y>> /\ Len(s) = 2 /\ s[1] = x /\ s[2] = y
  BY <1>1, Zenon
<1> QED
  BY <1>2, OneMore

LEMMA Four ==
  ASSUME NEW s \in Seq(Nat), Len(s) = 3, NEW x \in Nat
  PROVE  \E v \in Seq(Nat) : /\ v = Join(s, <<x>>) /\ Len(v) = 4
                             /\ v[1] = s[1] /\ v[2] = s[2] /\ v[3] = s[3] /\ v[4] = x
<1>1. /\ Join(s, <<x>>) \in Seq(Nat) /\ Len(Join(s, <<x>>)) = 3 + 1
      /\ \A c \in 1..3 : Join(s, <<x>>)[c] = s[c]
      /\ Join(s, <<x>>)[3 + 1] = x
  BY JoinOne
<1>2. PICK v \in Seq(Nat) : /\ v = Join(s, <<x>>) /\ Len(v) = 3 + 1
                            /\ \A c \in 1..3 : v[c] = s[c]
                            /\ v[3 + 1] = x
  BY <1>1, Zenon
<1> QED
  BY <1>2

\* r words are there, the second and third without a zero.
There(r, b2, b3) == (r >= 2 <=> b2 # 0) /\ (r = 3 <=> b3 # 0)

\* The characters for one, two or three words.
LEMMA QuadIs ==
  ASSUME NEW b1 \in Nat, NEW b2 \in Nat, NEW b3 \in Nat, NEW r \in 1..3, There(r, b2, b3)
  PROVE  /\ Quad(b1, b2, b3) \in Seq(Nat) /\ Len(Quad(b1, b2, b3)) = r + 1
         /\ \A j \in 0..r : Quad(b1, b2, b3)[j + 1] = Char64(b1, b2, b3, j)
<1> DEFINE x0 == (b1 \div 4) % 64
           x1 == (b1 % 4) * 16 + ((b2 % 256) \div 16)
           x2 == (b2 % 16) * 4 + ((b3 % 256) \div 64)
           x3 == b3 % 64
<1>1. x0 \in Nat /\ x1 \in Nat /\ x2 \in Nat /\ x3 \in Nat
  OBVIOUS
<1>2. /\ Char64(b1, b2, b3, 0) = x0 /\ Char64(b1, b2, b3, 1) = x1
      /\ Char64(b1, b2, b3, 2) = x2 /\ Char64(b1, b2, b3, 3) = x3
  BY DEF Char64
<1>3. Quad(b1, b2, b3) =
        Join(Join(<<x0, x1>>, IF b2 # 0 THEN <<x2>> ELSE <<>>), IF b3 # 0 THEN <<x3>> ELSE <<>>)
  BY DEF Quad, Join
<1> HIDE DEF x0, x1, x2, x3
<1>4. r \in 1..3 /\ (r = 1 \/ r = 2 \/ r = 3)
  OBVIOUS
<1>5. CASE r = 1
  <2>1. <<x0, x1>> \in Seq(Nat)
    BY <1>1
  <2>2. Quad(b1, b2, b3) = <<x0, x1>>
    <3>1. b2 = 0 /\ b3 = 0
      BY <1>5 DEF There
    <3>2. Quad(b1, b2, b3) = Join(Join(<<x0, x1>>, <<>>), <<>>)
      BY <1>3, <3>1, Zenon
    <3>3. Join(<<x0, x1>>, <<>>) = <<x0, x1>>
      BY <2>1, JoinNone
    <3> QED
      BY <3>2, <3>3
  <2>3. \A j \in 0..1 : j = 0 \/ j = 1
    OBVIOUS
  <2> QED
    BY <1>1, <1>2, <1>5, <2>1, <2>2, <2>3
<1>6. CASE r = 2
  <2>1. PICK v \in Seq(Nat) : /\ v = Join(<<x0, x1>>, <<x2>>) /\ Len(v) = 3
                              /\ v[1] = x0 /\ v[2] = x1 /\ v[3] = x2
    BY <1>1, Three
  <2>2. Quad(b1, b2, b3) = v
    <3>1. b2 # 0 /\ b3 = 0
      BY <1>6 DEF There
    <3>2. Quad(b1, b2, b3) = Join(v, <<>>)
      BY <1>3, <2>1, <3>1, Zenon
    <3> QED
      BY <3>2, JoinNone
  <2>3. \A j \in 0..2 : j = 0 \/ j = 1 \/ j = 2
    OBVIOUS
  <2> QED
    BY <1>2, <1>6, <2>1, <2>2, <2>3
<1>7. CASE r = 3
  <2>1. PICK v \in Seq(Nat) : /\ v = Join(<<x0, x1>>, <<x2>>) /\ Len(v) = 3
                              /\ v[1] = x0 /\ v[2] = x1 /\ v[3] = x2
    BY <1>1, Three
  <2>2. PICK w \in Seq(Nat) : /\ w = Join(v, <<x3>>) /\ Len(w) = 4
                              /\ w[1] = v[1] /\ w[2] = v[2] /\ w[3] = v[3] /\ w[4] = x3
    BY <1>1, <2>1, Four
  <2>3. Quad(b1, b2, b3) = w
    <3>1. b2 # 0 /\ b3 # 0
      BY <1>7 DEF There
    <3> QED
      BY <1>3, <2>1, <2>2, <3>1, Zenon
  <2>4. \A j \in 0..3 : j = 0 \/ j = 1 \/ j = 2 \/ j = 3
    OBVIOUS
  <2> QED
    BY <1>2, <1>7, <2>1, <2>2, <2>3, <2>4
<1> QED
  BY <1>4, <1>5, <1>6, <1>7

\* The words from k on, as many as there are.
LEMMA WordsThere ==
  ASSUME NEW a \in Seq(Word), NoZeroInside(a), NEW k \in Nat, k % 3 = 0, k < Len(a)
  PROVE  \E r \in 1..3 : /\ Least(k + 3, Len(a)) = k + r
                         /\ There(r, At3(a, k + 1), At3(a, k + 2))
<1>1. k + 1 < Len(a) => At3(a, k + 1) # 0
  <2> SUFFICES ASSUME k + 1 < Len(a) PROVE At3(a, k + 1) # 0
    OBVIOUS
  <2>1. k + 2 \in 1..Len(a) /\ (k + 2) % 3 # 1 /\ (k + 1) + 1 = k + 2
    OBVIOUS
  <2> QED
    BY <2>1 DEF NoZeroInside, At3
<1>2. k + 2 < Len(a) => At3(a, k + 2) # 0
  <2> SUFFICES ASSUME k + 2 < Len(a) PROVE At3(a, k + 2) # 0
    OBVIOUS
  <2>1. k + 3 \in 1..Len(a) /\ (k + 3) % 3 # 1 /\ (k + 2) + 1 = k + 3
    OBVIOUS
  <2> QED
    BY <2>1 DEF NoZeroInside, At3
<1>3. /\ ~(k + 1 < Len(a)) => At3(a, k + 1) = 0
      /\ ~(k + 2 < Len(a)) => At3(a, k + 2) = 0
  BY DEF At3
<1>4. CASE Len(a) = k + 1
  <2>1. Least(k + 3, Len(a)) = k + 1 /\ At3(a, k + 1) = 0 /\ At3(a, k + 2) = 0
    BY <1>3, <1>4 DEF Least
  <2> QED
    BY <2>1 DEF There
<1>5. CASE Len(a) = k + 2
  <2>1. Least(k + 3, Len(a)) = k + 2 /\ At3(a, k + 1) # 0 /\ At3(a, k + 2) = 0
    BY <1>1, <1>3, <1>5 DEF Least
  <2> QED
    BY <2>1 DEF There
<1>6. CASE Len(a) >= k + 3
  <2>1. Least(k + 3, Len(a)) = k + 3 /\ At3(a, k + 1) # 0 /\ At3(a, k + 2) # 0
    BY <1>1, <1>2, <1>6 DEF Least
  <2> QED
    BY <2>1 DEF There
<1> QED
  BY <1>4, <1>5, <1>6

\* A line grows by the characters of its next words.
LEMMA LineGrows ==
  ASSUME NEW a \in Seq(Word), NoZeroInside(a), NEW k \in Nat, k % 3 = 0, k < Len(a),
         NEW s, Written(s, a, k)
  PROVE  Written(s \o Quad(At3(a, k), At3(a, k + 1), At3(a, k + 2)), a, Least(k + 3, Len(a)))
<1>1. PICK r \in 1..3 : /\ Least(k + 3, Len(a)) = k + r
                        /\ There(r, At3(a, k + 1), At3(a, k + 2))
  BY WordsThere
<1>2. PICK b1 \in Nat : b1 = At3(a, k)
  BY At3Types
<1>3. PICK b2 \in Nat : b2 = At3(a, k + 1)
  BY At3Types
<1>4. PICK b3 \in Nat : b3 = At3(a, k + 2)
  BY At3Types
<1> DEFINE q == Quad(b1, b2, b3)
<1>5. /\ q \in Seq(Nat) /\ Len(q) = r + 1
      /\ \A j \in 0..r : q[j + 1] = Char64(b1, b2, b3, j)
  <2>1. There(r, b2, b3)
    BY <1>1, <1>3, <1>4
  <2> HIDE DEF q
  <2>2. /\ Quad(b1, b2, b3) \in Seq(Nat) /\ Len(Quad(b1, b2, b3)) = r + 1
        /\ \A j \in 0..r : Quad(b1, b2, b3)[j + 1] = Char64(b1, b2, b3, j)
    BY <2>1, QuadIs, Zenon
  <2> QED
    BY <2>2 DEF q
<1>6. PICK m \in Nat : m = Chars(k) /\ m % 4 = 0 /\ 3 * (m \div 4) = k
  BY CharsTypes, Zenon
<1>7. PICK n \in Nat : n = k + r /\ Chars(n) = m + r + 1
  <2>1. Chars(k + 1) = m + 2 /\ Chars(k + 2) = m + 3 /\ Chars(k + 3) = m + 4
    BY <1>6, CharsTypes, Zenon
  <2>2. r = 1 \/ r = 2 \/ r = 3
    OBVIOUS
  <2> QED
    BY <2>1, <2>2
<1>8. s \in Seq(Nat) /\ Len(s) = m /\ \A c \in 0..(m - 1) : s[c + 1] = CharOf(a, c)
  BY <1>6 DEF Written
<1> HIDE DEF q
<1>9. PICK v \in Seq(Nat) : /\ v = Join(s, q) /\ Len(v) = m + r + 1
                            /\ \A c \in 1..m : v[c] = s[c]
                            /\ \A c \in 1..(r + 1) : v[m + c] = q[c]
  <2>1. /\ Join(s, q) \in Seq(Nat) /\ Len(Join(s, q)) = Len(s) + Len(q)
        /\ \A c \in 1..Len(s) : Join(s, q)[c] = s[c]
        /\ \A c \in 1..Len(q) : Join(s, q)[Len(s) + c] = q[c]
    BY <1>5, <1>8, JoinIs, Zenon
  <2>2. PICK v \in Seq(Nat) : v = Join(s, q)
    BY <2>1
  <2>3. Len(v) = m + (r + 1) /\ m + (r + 1) = m + r + 1
    BY <1>5, <1>8, <2>1, <2>2
  <2>4. \A c \in 1..m : v[c] = s[c]
    BY <1>8, <2>1, <2>2, Zenon
  <2>5. \A c \in 1..(r + 1) : v[m + c] = q[c]
    BY <1>5, <1>8, <2>1, <2>2, Zenon
  <2> QED
    BY <2>2, <2>3, <2>4, <2>5, Zenon
<1>10. ASSUME NEW c \in 0..(m + r) PROVE v[c + 1] = CharOf(a, c)
  <2>1. CASE c < m
    <3>1. c \in 0..(m - 1) /\ c + 1 \in 1..m
      BY <2>1
    <3> QED
      BY <1>8, <1>9, <3>1
  <2>2. CASE c >= m
    <3>1. PICK j \in 0..r : c = m + j
      BY <2>2
    <3>2. v[c + 1] = q[j + 1]
      <4>1. j + 1 \in 1..(r + 1) /\ c + 1 = m + (j + 1)
        BY <3>1
      <4> QED
        BY <1>9, <4>1
    <3>3. j \in 0..3 /\ c \div 4 = m \div 4 /\ c % 4 = j
      <4>1. PICK d \in Nat : d = m \div 4
        OBVIOUS
      <4>2. m = 4 * d /\ j \in 0..3
        <5>1. m % 4 = 0
          BY <1>6
        <5> HIDE <1>6
        <5> QED
          BY <4>1, <5>1
      <4>3. c = 4 * d + j
        BY <3>1, <4>2
      <4> QED
        BY <4>1, <4>2, <4>3
    <3>4. CharOf(a, c) = Char64(b1, b2, b3, j)
      BY <1>2, <1>3, <1>4, <1>6, <3>3 DEF CharOf
    <3> QED
      BY <1>5, <3>2, <3>4
  <2> QED
    BY <2>1, <2>2
<1>11. (m + r + 1) - 1 = m + r
  OBVIOUS
<1> QED
  BY <1>1, <1>2, <1>3, <1>4, <1>7, <1>9, <1>10, <1>11 DEF Written, Join, q
-----------------------------------------------------------------------------
(* Buffers and arrays keep their types and their bounds.                   *)

Tails   == {u \in Seq(Nat) : Len(u) <= 1}
Buffers == [str : Seq(Nat), tail : Tails, size : Nat, over : BOOLEAN]

\* There is room for the zero behind the next byte, and nothing fell outside.
Fits(b) ==
  /\ b \in Buffers /\ ~b.over /\ b.size > 0
  /\ b.str = <<>> \/ Len(b.str) + 1 < b.size

LEMMA NoTail == <<>> \in Tails
  BY DEF Tails

LEMMA TailTypes == ASSUME NEW g \in Byte PROVE Tail1(g) \in Tails
<1>1. g % 65 \in Nat
  BY DEF Byte
<1>2. <<g % 65>> \in Seq(Nat) /\ Len(<<g % 65>>) = 1
  BY <1>1
<1> QED
  BY <1>2, NoTail DEF Tail1, Tails

LEMMA PushFits ==
  ASSUME NEW b, NEW s \in Seq(Nat), NEW t \in Tails, Fits(b)
  PROVE  Fits(pushBuffer(b, s, t)) /\ pushBuffer(b, s, t).str = Join(b.str, s)
<1> DEFINE m == IF Len(b.str) + Len(s) + 1 >= b.size THEN Len(s) + b.size + 1 ELSE b.size
           p == pushBuffer(b, s, t)
<1>1. /\ b.str \in Seq(Nat) /\ b.size \in Nat /\ Len(b.str) \in Nat /\ Len(s) \in Nat
      /\ b.over = FALSE /\ b.size > 0 /\ (b.str = <<>> => Len(b.str) = 0)
  BY DEF Buffers, Fits
<1>2. Join(b.str, s) \in Seq(Nat) /\ Len(Join(b.str, s)) = Len(b.str) + Len(s)
  BY <1>1, JoinIs, Zenon
<1>3. m \in Nat /\ m > 0 /\ Len(b.str) + Len(s) + 1 < m
  <2>1. Len(b.str) < b.size
    BY <1>1 DEF Fits
  <2> QED
    BY <1>1, <2>1
<1>4. p = [str  |-> Join(b.str, s), tail |-> IF Len(s) = 1 /\ b.str # <<>> THEN <<>> ELSE t,
           size |-> m, over |-> b.over \/ Len(b.str) + Len(s) + 1 >= m]
  BY DEF pushBuffer, Pushed, Join
<1> HIDE DEF m, p
<1>5. (b.over \/ Len(b.str) + Len(s) + 1 >= m) = FALSE
  BY <1>1, <1>3
<1>6. p = [str  |-> Join(b.str, s), tail |-> IF Len(s) = 1 /\ b.str # <<>> THEN <<>> ELSE t,
           size |-> m, over |-> FALSE]
  BY <1>4, <1>5
<1>7. (IF Len(s) = 1 /\ b.str # <<>> THEN <<>> ELSE t) \in Tails
  BY NoTail
<1>8. p \in Buffers
  BY <1>2, <1>3, <1>6, <1>7 DEF Buffers
<1>9. p.str = Join(b.str, s) /\ p.size = m /\ p.over = FALSE
  BY <1>6
<1>10. Len(p.str) + 1 < p.size
  BY <1>1, <1>2, <1>3, <1>9
<1> QED
  BY <1>3, <1>8, <1>9, <1>10 DEF Fits, p

\* The first k of s, or all that there are.
Upto(s, k) == SubSeq(s, 1, Least(k, Len(s)))

LEMMA MoreFits ==
  ASSUME NEW s \in Seq(Nat), NEW t \in Tails, NEW v \in Seq(Nat), NEW k \in Nat \ {0},
         NEW x, Fits(x), x.str = Join(v, Upto(s, k - 1))
  PROVE  Fits(More(x, s, k, t)) /\ More(x, s, k, t).str = Join(v, Upto(s, k))
<1>1. Len(s) \in Nat
  OBVIOUS
<1>2. CASE k <= Len(s)
  <2>1. k \in 1..Len(s) /\ Least(k, Len(s)) = k /\ Least(k - 1, Len(s)) = k - 1
    BY <1>1, <1>2 DEF Least
  <2>2. s[k] \in Nat /\ <<s[k]>> \in Seq(Nat)
    BY <2>1
  <2>3. SubSeq(s, 1, k) = SubSeq(s, 1, k - 1) \o <<s[k]>>
    <3>1. 1 \in 1..Len(s) /\ k \in 1..Len(s)
      BY <2>1
    <3> QED
      BY <3>1, SubSeqRecursiveSecond
  <2>4. SubSeq(s, 1, k - 1) \in Seq(Nat)
    <3>1. \A n \in 1..(k - 1) : s[n] \in Nat
      BY <1>1, <1>2
    <3> QED
      BY <3>1, SubSeqProperties
  <2>5. More(x, s, k, t) = pushBuffer(x, <<s[k]>>, t)
    BY <1>2 DEF More
  <2>6. Fits(More(x, s, k, t)) /\ More(x, s, k, t).str = Join(x.str, <<s[k]>>)
    BY <2>2, <2>5, PushFits
  <2>7. Join(Join(v, SubSeq(s, 1, k - 1)), <<s[k]>>) = Join(v, SubSeq(s, 1, k - 1) \o <<s[k]>>)
    <3> DEFINE y == SubSeq(s, 1, k - 1)
               z == <<s[k]>>
    <3>1. y \in Seq(Nat) /\ z \in Seq(Nat)
      BY <2>2, <2>4
    <3> HIDE DEF y, z
    <3>2. (v \o y) \o z = v \o (y \o z)
      BY <3>1, ConcatAssociative
    <3> QED
      BY <3>2 DEF Join, y, z
  <2> QED
    BY <2>1, <2>3, <2>6, <2>7 DEF Upto
<1>3. CASE k > Len(s)
  <2>1. Least(k, Len(s)) = Len(s) /\ Least(k - 1, Len(s)) = Len(s)
    BY <1>1, <1>3 DEF Least
  <2>2. More(x, s, k, t) = x
    BY <1>1, <1>3 DEF More
  <2> QED
    BY <2>1, <2>2 DEF Upto
<1> QED
  BY <1>1, <1>2, <1>3

LEMMA EachFits ==
  ASSUME NEW b, Fits(b), NEW s \in Seq(Nat), Len(s) <= 8, NEW t \in Tails
  PROVE  Fits(PushEach(b, s, t)) /\ PushEach(b, s, t).str = Join(b.str, s)
<1> DEFINE v  == b.str
           x1 == More(b, s, 1, t)
           x2 == More(x1, s, 2, t)
           x3 == More(x2, s, 3, t)
           x4 == More(x3, s, 4, t)
           x5 == More(x4, s, 5, t)
           x6 == More(x5, s, 6, t)
           x7 == More(x6, s, 7, t)
           x8 == More(x7, s, 8, t)
<1>1. PushEach(b, s, t) = x8
  BY DEF PushEach
<1>2. v \in Seq(Nat) /\ Len(s) \in Nat
  BY DEF Fits, Buffers
<1>3. b.str = Join(v, Upto(s, 0))
  <2>1. Least(0, Len(s)) = 0
    BY <1>2 DEF Least
  <2>2. Upto(s, 0) = <<>>
    BY <2>1, SubSeqEmpty DEF Upto
  <2> QED
    BY <1>2, <2>2, JoinNone
<1>4. Upto(s, 8) = s
  <2>1. Least(8, Len(s)) = Len(s)
    BY <1>2 DEF Least
  <2> QED
    BY <2>1, SubSeqFull DEF Upto
<1> HIDE DEF v, x1, x2, x3, x4, x5, x6, x7, x8
<1>11. Fits(x1) /\ x1.str = Join(v, Upto(s, 1))
  BY <1>2, <1>3, MoreFits DEF x1
<1>12. Fits(x2) /\ x2.str = Join(v, Upto(s, 2))
  BY <1>2, <1>11, MoreFits DEF x2
<1>13. Fits(x3) /\ x3.str = Join(v, Upto(s, 3))
  BY <1>2, <1>12, MoreFits DEF x3
<1>14. Fits(x4) /\ x4.str = Join(v, Upto(s, 4))
  BY <1>2, <1>13, MoreFits DEF x4
<1>15. Fits(x5) /\ x5.str = Join(v, Upto(s, 5))
  BY <1>2, <1>14, MoreFits DEF x5
<1>16. Fits(x6) /\ x6.str = Join(v, Upto(s, 6))
  BY <1>2, <1>15, MoreFits DEF x6
<1>17. Fits(x7) /\ x7.str = Join(v, Upto(s, 7))
  BY <1>2, <1>16, MoreFits DEF x7
<1>18. Fits(x8) /\ x8.str = Join(v, Upto(s, 8))
  BY <1>2, <1>17, MoreFits DEF x8
<1> QED
  BY <1>1, <1>4, <1>18 DEF v

LEMMA MadeFits ==
  ASSUME NEW n \in Nat
  PROVE  /\ initBuffer(n) \in Buffers /\ initBuffer(n).str = <<>>
         /\ (n # 0 => Fits(initBuffer(n)))
<1>1. initBuffer(n) \in Buffers
  BY NoTail DEF initBuffer, Buffers
<1> QED
  <2>1. /\ initBuffer(n).str = <<>> /\ initBuffer(n).size = n
        /\ initBuffer(n).over = (n = 0)
    BY DEF initBuffer
  <2>2. ASSUME n # 0 PROVE Fits(initBuffer(n))
    <3>1. n > 0 /\ (n = 0) = FALSE
      BY <2>2
    <3> QED
      BY <1>1, <2>1, <3>1, Zenon DEF Fits
  <2> QED
    BY <1>1, <2>1, <2>2
LEMMA QuadTypes ==
  ASSUME NEW b1 \in Nat, NEW b2 \in Nat, NEW b3 \in Nat
  PROVE  Quad(b1, b2, b3) \in Seq(Nat) /\ Len(Quad(b1, b2, b3)) <= 4
<1> DEFINE p == <<(b1 \div 4) % 64, (b1 % 4) * 16 + ((b2 % 256) \div 16)>>
           y == IF b2 # 0 THEN <<(b2 % 16) * 4 + ((b3 % 256) \div 64)>> ELSE <<>>
           z == IF b3 # 0 THEN <<b3 % 64>> ELSE <<>>
<1>1. p \in Seq(Nat) /\ Len(p) = 2
  OBVIOUS
<1>2. y \in Seq(Nat) /\ Len(y) <= 1 /\ Len(y) \in Nat
  OBVIOUS
<1>3. z \in Seq(Nat) /\ Len(z) <= 1 /\ Len(z) \in Nat
  OBVIOUS
<1>4. Quad(b1, b2, b3) = Join(Join(p, y), z)
  BY DEF Quad, Join
<1> HIDE DEF p, y, z
<1>5. Join(p, y) \in Seq(Nat) /\ Len(Join(p, y)) = Len(p) + Len(y)
  BY <1>1, <1>2, JoinIs
<1>6. Join(Join(p, y), z) \in Seq(Nat) /\ Len(Join(Join(p, y), z)) = Len(Join(p, y)) + Len(z)
  BY <1>3, <1>5, JoinIs
<1> QED
  BY <1>1, <1>2, <1>3, <1>4, <1>5, <1>6

LEMMA Powers ==
  ASSUME NEW j \in 1..7
  PROVE  2^(7 - j) \in Nat /\ 2^(j + 1) \in Nat \ {0}
<1>1. CASE j = 1
  <2>1. 2^(7 - 1) \in Nat /\ 2^(1 + 1) \in Nat \ {0}
    OBVIOUS
  <2> QED
    BY <1>1, <2>1
<1>2. CASE j = 2
  <2>1. 2^(7 - 2) \in Nat /\ 2^(2 + 1) \in Nat \ {0}
    OBVIOUS
  <2> QED
    BY <1>2, <2>1
<1>3. CASE j = 3
  <2>1. 2^(7 - 3) \in Nat /\ 2^(3 + 1) \in Nat \ {0}
    OBVIOUS
  <2> QED
    BY <1>3, <2>1
<1>4. CASE j = 4
  <2>1. 2^(7 - 4) \in Nat /\ 2^(4 + 1) \in Nat \ {0}
    OBVIOUS
  <2> QED
    BY <1>4, <2>1
<1>5. CASE j = 5
  <2>1. 2^(7 - 5) \in Nat /\ 2^(5 + 1) \in Nat \ {0}
    OBVIOUS
  <2> QED
    BY <1>5, <2>1
<1>6. CASE j = 6
  <2>1. 2^(7 - 6) \in Nat /\ 2^(6 + 1) \in Nat \ {0}
    OBVIOUS
  <2> QED
    BY <1>6, <2>1
<1>7. CASE j = 7
  <2>1. 2^(7 - 7) \in Nat /\ 2^(7 + 1) \in Nat \ {0}
    OBVIOUS
  <2> QED
    BY <1>7, <2>1
<1> QED
  BY <1>1, <1>2, <1>3, <1>4, <1>5, <1>6, <1>7

LEMMA UnpackedTypes ==
  ASSUME NEW a \in Seq(Nat), NEW k \in Nat, NEW g \in Byte
  PROVE  Unpacked(a, k, g) \in Seq(Nat) /\ Len(Unpacked(a, k, g)) = 8
<1>1. ASSUME NEW m \in 1..8
      PROVE  (IF m = 1 THEN (Elem(a, k, g) \div 2) % 128
              ELSE LET j == m - 1 IN
                     ((Elem(a, k + j - 1, g) * 2^(7 - j)) % 128)
                       + ((Elem(a, k + j, g) % 256) \div 2^(j + 1))) \in Nat
  <2>1. CASE m = 1
    <3>1. Elem(a, k, g) \in Nat
      BY ElemTypes
    <3> QED
      BY <2>1, <3>1
  <2>2. CASE m # 1
    <3>1. PICK j \in 1..7 : j = m - 1
      BY <2>2
    <3>2. PICK k1 \in Nat : k1 = k + j - 1
      OBVIOUS
    <3>3. PICK k2 \in Nat : k2 = k + j
      OBVIOUS
    <3>4. PICK x \in Nat : x = Elem(a, k1, g)
      BY ElemTypes
    <3>5. PICK y \in Nat : y = Elem(a, k2, g)
      BY ElemTypes
    <3>6. ((x * 2^(7 - j)) % 128) + ((y % 256) \div 2^(j + 1)) \in Nat
      <4>1. PICK e \in Nat : e = 2^(7 - j)
        BY Powers
      <4>2. PICK f \in Nat \ {0} : f = 2^(j + 1)
        BY Powers
      <4>3. PICK xe \in Nat : xe = x * e
        OBVIOUS
      <4>4. xe % 128 \in Nat /\ (y % 256) \div f \in Nat
        OBVIOUS
      <4> QED
        BY <4>1, <4>2, <4>3, <4>4
    <3> QED
      BY <2>2, <3>1, <3>2, <3>3, <3>4, <3>5, <3>6
  <2> QED
    BY <2>1, <2>2
<1> QED
  BY <1>1 DEF Unpacked

LEMMA DigitTypes ==
  ASSUME NEW s \in Seq(Nat), NEW k \in Nat
  PROVE  Digit(s, k) \in Nat
<1>1. CASE k < Len(s)
  <2>1. s[k + 1] \in Nat
    BY <1>1
  <2> QED
    BY <1>1, <2>1 DEF Digit
<1> QED
  BY <1>1 DEF Digit

LEMMA ReadTypes ==
  ASSUME NEW s \in Seq(Nat)
  PROVE  /\ b64_to_array(s).elem \in Seq(Nat) /\ b64_to_array(s).size = Len(s)
         /\ Len(b64_to_array(s).elem) <= Len(s) /\ b64_to_array(s) \in [elem : Seq(Nat), size : Nat]
<1>1. PICK n \in Nat : n = Len(s)
  OBVIOUS
<1>2. Triplets(n) \in Nat /\ Triplets(n) <= n
  BY DEF Triplets
<1>3. ASSUME NEW m \in 1..Triplets(n)
      PROVE  Triplet(s, 4 * ((m - 1) \div 3))[1 + ((m - 1) % 3)] \in Nat
  <2>1. PICK k \in Nat : k = 4 * ((m - 1) \div 3)
    BY <1>2
  <2>2. PICK p \in 0..2 : p = (m - 1) % 3
    BY <1>2
  <2>3. PICK d0 \in Nat : d0 = Digit(s, k)
    BY DigitTypes
  <2>4. PICK d1 \in Nat : d1 = Digit(s, k + 1)
    BY DigitTypes
  <2>5. PICK d2 \in Nat : d2 = Digit(s, k + 2)
    BY DigitTypes
  <2>6. PICK d3 \in Nat : d3 = Digit(s, k + 3)
    BY DigitTypes
  <2>7. Triplet(s, k) = <<d0 * 4 + (d1 \div 16), (d1 % 16) * 16 + (d2 \div 4), (d2 % 4) * 64 + d3>>
    BY <2>3, <2>4, <2>5, <2>6 DEF Triplet
  <2>8. /\ d0 * 4 + (d1 \div 16) \in Nat /\ (d1 % 16) * 16 + (d2 \div 4) \in Nat
        /\ (d2 % 4) * 64 + d3 \in Nat
    OBVIOUS
  <2>9. p = 0 \/ p = 1 \/ p = 2
    OBVIOUS
  <2>10. Triplet(s, k)[1 + p] \in Nat
    BY <2>7, <2>8, <2>9
  <2> QED
    BY <2>1, <2>2, <2>10
<1>4. b64_to_array(s).elem \in Seq(Nat) /\ Len(b64_to_array(s).elem) = Triplets(n)
  BY <1>1, <1>2, <1>3 DEF b64_to_array, Array
<1>5. b64_to_array(s).size = n /\ b64_to_array(s) = [elem |-> b64_to_array(s).elem, size |-> n]
  BY <1>1 DEF b64_to_array, Array
<1> QED
  BY <1>1, <1>2, <1>4, <1>5
-----------------------------------------------------------------------------
(* What holds in every state of the two loops.                             *)

Words == [elem : Seq(Nat), size : Nat]

Types ==
  /\ i \in Nat /\ arr \in Words /\ line \in Buffers /\ buf \in Buffers
  /\ pc \in {"idle", "crypt", "form", "expand", "done"}

\* array_to_form: the words so far are in the line, and in sda->buf at the end.
Forming ==
  /\ pc \in {"form", "done"}
  /\ input \in Arrays /\ arr.elem = input /\ i % 3 = 0
  /\ pc = "done" => i >= Len(input)
  /\ Len(input) <= 48 /\ NoZeroInside(input) =>
       IF i < Len(input) THEN Written(line.str, input, i) /\ buf.str = <<>>
                         ELSE Written(buf.str, input, Len(input))

\* expand7to8: eight characters of the text for each seven bytes so far.
Expanding ==
  /\ pc \in {"expand", "done"}
  /\ input \in Texts /\ i % 7 = 0 /\ Len(buf.str) = 8 * (i \div 7)
  /\ \E g \in Garbage : arr.elem = compress8to7(input, g).elem
  /\ pc = "done" => i >= Len(arr.elem)
  /\ \A c \in 1..Len(buf.str) : c <= Len(input) => buf.str[c] = input[c]

\* The line of an empty array is not pushed to.
Room ==
  /\ Fits(buf) /\ Len(arr.elem) <= arr.size
  /\ Fits(line) \/ (line.str = <<>> /\ arr.elem = <<>> /\ pc \in {"form", "done"})

Inv ==
  /\ Types /\ Room
  /\ job = "form" => Forming
  /\ job = "expand" => Expanding

LEMMA ArraysTypes ==
  ASSUME NEW a \in Arrays
  PROVE  a \in Seq(Word) /\ a \in Seq(Nat)
<1>1. a \in Seq(Word)
  BY InputsAssumption
<1>2. \A k \in 1..Len(a) : a[k] \in Word
  BY <1>1
<1>3. \A k \in 1..Len(a) : a[k] \in Nat
  BY <1>2, WordsAreNumbers
<1> QED
  BY <1>1, <1>3

LEMMA TextsTypes == ASSUME NEW t \in Texts PROVE t \in Seq(Char)
  BY InputsAssumption

LEMMA GarbageTypes == ASSUME NEW g \in Garbage PROVE g \in Byte
  BY InputsAssumption

LEMMA PackedTypes ==
  ASSUME NEW t \in Texts, NEW g \in Garbage
  PROVE  compress8to7(t, g) \in Words /\ Len(compress8to7(t, g).elem) <= compress8to7(t, g).size
<1>1. t \in Seq(Char) /\ g \in Byte
  BY TextsTypes, GarbageTypes
<1>2. /\ compress8to7(t, g).elem \in Seq(Nat)
      /\ Len(compress8to7(t, g).elem) = Packs(Len(t))
      /\ compress8to7(t, g).size = 2 * Len(t)
  BY <1>1, CompressTypes
<1>3. PICK n \in Nat : n = Len(t)
  BY <1>1
<1>4. Packs(n) <= 2 * n
  BY PacksTypes
<1>5. compress8to7(t, g) = [elem |-> compress8to7(t, g).elem, size |-> compress8to7(t, g).size]
  BY DEF compress8to7, Array
<1> QED
  BY <1>2, <1>3, <1>4, <1>5 DEF Words

LEMMA Begun ==
  ASSUME NEW j, NEW in, NEW a \in Words, Len(a.elem) <= a.size,
         NEW to \in {"crypt", "form", "expand"}, Begin(j, in, a, to)
  PROVE  Types' /\ Room'
<1>1. PICK n \in Nat : n = Len(a.elem)
  BY DEF Words
<1>2. PICK m \in Nat : m = (IF to = "form" THEN n ELSE 1)
  OBVIOUS
<1>3. /\ pc' = to /\ i' = 0 /\ arr' = a /\ line' = initBuffer(m) /\ buf' = initBuffer(256)
  BY <1>1, <1>2 DEF Begin
<1>4. /\ initBuffer(m) \in Buffers /\ initBuffer(m).str = <<>> /\ (m # 0 => Fits(initBuffer(m)))
      /\ initBuffer(256) \in Buffers /\ Fits(initBuffer(256))
  BY MadeFits
<1>5. m = 0 => to = "form" /\ a.elem = <<>>
  BY <1>1, <1>2 DEF Words
<1>6. Types'
  BY <1>3, <1>4 DEF Types
<1>7. Fits(buf)' /\ (Len(arr.elem) <= arr.size)'
  BY <1>3, <1>4
<1>8. CASE m = 0
  BY <1>3, <1>4, <1>5, <1>6, <1>7, <1>8 DEF Room
<1>9. CASE m # 0
  <2>1. Fits(line)'
    BY <1>3, <1>4, <1>9
  <2> QED
    BY <1>6, <1>7, <2>1 DEF Room
<1> QED
  BY <1>8, <1>9

LEMMA InvInit == Init => Inv
<1> SUFFICES ASSUME Init PROVE Inv
  OBVIOUS
<1>1. /\ initBuffer(1) \in Buffers /\ Fits(initBuffer(1))
      /\ initBuffer(256) \in Buffers /\ Fits(initBuffer(256))
  BY MadeFits
<1>2. freeArray \in Words /\ Len(freeArray.elem) <= freeArray.size
  BY DEF freeArray, Array, Words
<1> QED
  BY <1>1, <1>2 DEF Init, Inv, Types, Room

LEMMA InvEncrypt == Inv /\ encrypt => Inv'
<1> SUFFICES ASSUME encrypt PROVE Inv'
  OBVIOUS
<1>1. PICK t \in Texts, g \in Garbage : Begin("encrypt", t, compress8to7(t, g), "crypt")
  BY DEF encrypt
<1>2. Types' /\ Room'
  BY <1>1, PackedTypes, Begun
<1>3. job' = "encrypt"
  BY <1>1 DEF Begin
<1> QED
  BY <1>2, <1>3 DEF Inv

LEMMA InvDecrypt == Inv /\ decrypt => Inv'
<1> SUFFICES ASSUME decrypt PROVE Inv'
  OBVIOUS
<1>1. PICK a \in Arrays :
        LET s == [k \in 1..Len(a) |-> a[k] % 64]
        IN  Begin("decrypt", s, b64_to_array(s), "crypt")
  BY DEF decrypt
<1> DEFINE s == [k \in 1..Len(a) |-> a[k] % 64]
<1>2. s \in Seq(Nat)
  <2>1. a \in Seq(Nat)
    BY ArraysTypes
  <2>2. \A k \in 1..Len(a) : a[k] % 64 \in Nat
    BY <2>1
  <2> QED
    BY <2>1, <2>2
<1>3. Begin("decrypt", s, b64_to_array(s), "crypt")
  BY <1>1
<1> HIDE DEF s
<1>4. b64_to_array(s) \in Words /\ Len(b64_to_array(s).elem) <= b64_to_array(s).size
  BY <1>2, ReadTypes DEF Words
<1>5. Types' /\ Room'
  BY <1>3, <1>4, Begun
<1>6. job' = "decrypt"
  BY <1>3 DEF Begin
<1> QED
  BY <1>5, <1>6 DEF Inv

LEMMA InvCallForm == Inv /\ CallForm => Inv'
<1> SUFFICES ASSUME CallForm PROVE Inv'
  OBVIOUS
<1>1. PICK a \in Arrays : Begin("form", a, Array(a, Len(a)), "form")
  BY DEF CallForm
<1>2. a \in Seq(Word) /\ a \in Seq(Nat)
  BY ArraysTypes
<1>3. Array(a, Len(a)) \in Words /\ Array(a, Len(a)).elem = a /\ Array(a, Len(a)).size = Len(a)
  BY <1>2 DEF Array, Words
<1>4. Types' /\ Room'
  <2>1. Len(Array(a, Len(a)).elem) <= Array(a, Len(a)).size
    BY <1>2, <1>3
  <2> QED
    BY <1>1, <1>3, <2>1, Begun
<1>5. /\ job' = "form" /\ pc' = "form" /\ input' = a /\ arr'.elem = a /\ i' = 0
      /\ line'.str = <<>> /\ buf'.str = <<>>
  BY <1>1, <1>3 DEF Begin, initBuffer
<1>6. Written(<<>>, a, 0)
  BY DEF Written, Chars
<1>7. IF 0 < Len(a) THEN Written(<<>>, a, 0) ELSE Written(<<>>, a, Len(a))
  BY <1>2, <1>6
<1>8. Forming'
  BY <1>5, <1>7 DEF Forming
<1> QED
  BY <1>4, <1>5, <1>8 DEF Inv

LEMMA InvCallExpand == Inv /\ CallExpand => Inv'
<1> SUFFICES ASSUME CallExpand PROVE Inv'
  OBVIOUS
<1>1. PICK t \in Texts, g \in Garbage : Begin("expand", t, compress8to7(t, g), "expand")
  BY DEF CallExpand
<1>2. Types' /\ Room'
  BY <1>1, PackedTypes, Begun
<1>3. /\ job' = "expand" /\ pc' = "expand" /\ input' = t /\ arr' = compress8to7(t, g) /\ i' = 0
      /\ buf'.str = <<>>
  BY <1>1 DEF Begin, initBuffer
<1>4. Expanding'
  BY <1>3 DEF Expanding
<1> QED
  BY <1>2, <1>3, <1>4 DEF Inv

LEMMA InvCrypt == Inv /\ crypt => Inv'
<1> SUFFICES ASSUME Inv, crypt PROVE Inv'
  OBVIOUS
<1>1. job # "form" /\ job # "expand"
  BY DEF Inv, Forming, Expanding, crypt
<1>2. arr' \in Words /\ (Len(arr.elem) <= arr.size)' /\ arr'.elem = <<>>
  BY DEF Inv, Types, Words, crypt, Array
<1>3. initBuffer(0) \in Buffers /\ initBuffer(0).str = <<>>
  BY MadeFits
<1>4. Fits(line) /\ Fits(buf)
  BY DEF Inv, Room, crypt
<1>5. Types'
  BY <1>2, <1>3 DEF Inv, Types, crypt
<1>6. Room'
  <2>1. Fits(buf)'
    BY <1>4 DEF crypt
  <2>2. CASE job = "encrypt"
    <3>1. line'.str = <<>> /\ pc' = "form"
      BY <1>3, <2>2 DEF crypt
    <3> QED
      BY <1>2, <2>1, <3>1 DEF Room
  <2>3. CASE job # "encrypt"
    <3>1. Fits(line)'
      BY <1>4, <2>3 DEF crypt
    <3> QED
      BY <1>2, <2>1, <3>1 DEF Room
  <2> QED
    BY <2>2, <2>3
<1> QED
  BY <1>1, <1>5, <1>6 DEF Inv, crypt

\* A turn of array_to_form.
LEMMA WordTypes ==
  ASSUME NEW a \in Seq(Nat), NEW k \in Nat
  PROVE  At3(a, k) \in Nat
<1>1. CASE k < Len(a)
  <2>1. a[k + 1] \in Nat
    BY <1>1
  <2> QED
    BY <1>1, <2>1 DEF At3
<1> QED
  BY <1>1 DEF At3

LEMMA InvForm == Inv /\ array_to_form => Inv'
<1> SUFFICES ASSUME Inv, array_to_form PROVE Inv'
  OBVIOUS
<1>1. PICK n \in Nat : n = Len(arr.elem)
  BY DEF Inv, Types, Words
<1>2. i \in Nat /\ i < n /\ pc = "form" /\ pc' = pc /\ arr' = arr /\ job' = job /\ input' = input /\ i' = i + 3
  BY <1>1 DEF Inv, Types, array_to_form
<1> DEFINE q == Quad(At3(arr.elem, i), At3(arr.elem, i + 1), At3(arr.elem, i + 2))
           L(t) == PushEach(line, q, t)
<1>3. PICK g \in Garbage :
        /\ buf' = (IF i % 48 = 45 \/ i >= n - 3 THEN pushBuffer(buf, L(Tail1(g)).str, Tail1(g)) ELSE buf)
        /\ line' = (IF i % 48 = 45 /\ i < n - 3
                    THEN pushBuffer([L(Tail1(g)) EXCEPT !.str = <<>>], <<Break>>, Tail1(g))
                    ELSE L(Tail1(g)))
  BY <1>1 DEF array_to_form, At3
<1> DEFINE t == Tail1(g)
           l == PushEach(line, q, t)
<1>4. q \in Seq(Nat) /\ Len(q) <= 8 /\ t \in Tails
  <2>1. arr.elem \in Seq(Nat)
    BY DEF Inv, Types, Words
  <2>2. i + 1 \in Nat /\ i + 2 \in Nat
    BY <1>2
  <2>3. q \in Seq(Nat) /\ Len(q) <= 4
    BY <1>2, <2>1, <2>2, WordTypes, QuadTypes
  <2>4. Len(q) <= 8
    BY <2>3
  <2> QED
    BY <2>3, <2>4, GarbageTypes, TailTypes
<1>14. /\ buf' = (IF i % 48 = 45 \/ i >= n - 3 THEN pushBuffer(buf, l.str, t) ELSE buf)
       /\ line' = (IF i % 48 = 45 /\ i < n - 3
                   THEN pushBuffer([l EXCEPT !.str = <<>>], <<Break>>, t) ELSE l)
  BY <1>3
<1> HIDE DEF q, t, L
<1>5. line \in Buffers /\ buf \in Buffers /\ Fits(line) /\ Fits(buf)
  BY <1>1, <1>2 DEF Inv, Types, Room
<1>6. l \in Buffers /\ Fits(l) /\ l.str = Join(line.str, q)
  <2>1. Fits(l) /\ l.str = Join(line.str, q)
    BY <1>4, <1>5, EachFits
  <2> QED
    BY <2>1 DEF Fits
<1> HIDE DEF l
<1>7. l.str \in Seq(Nat)
  BY <1>6 DEF Buffers
<1>8. /\ Fits(pushBuffer(buf, l.str, t))
      /\ pushBuffer(buf, l.str, t).str = Join(buf.str, l.str)
  BY <1>4, <1>5, <1>7, PushFits
<1>9. Fits(pushBuffer([l EXCEPT !.str = <<>>], <<Break>>, t))
  <2>1. [l EXCEPT !.str = <<>>] \in Buffers /\ <<Break>> \in Seq(Nat)
    <3>1. <<>> \in Seq(Nat)
      OBVIOUS
    <3>2. [l EXCEPT !.str = <<>>] \in Buffers
      BY <1>6, <3>1 DEF Buffers
    <3>3. Break \in Nat
      BY DEF Break
    <3>4. <<Break>> \in Seq(Nat)
      BY <3>3
    <3> QED
      BY <3>2, <3>4
  <2>2. Fits([l EXCEPT !.str = <<>>])
    BY <1>6, <2>1 DEF Buffers, Fits
  <2> QED
    BY <1>4, <2>1, <2>2, PushFits
<1>10. Fits(buf') /\ Fits(line') /\ buf' \in Buffers /\ line' \in Buffers
  <2>1. Fits(buf') /\ Fits(line')
    BY <1>5, <1>6, <1>8, <1>9, <1>14
  <2> QED
    BY <2>1 DEF Fits
<1>11. Types' /\ Room'
  BY <1>2, <1>10 DEF Inv, Types, Room
<1>12. ASSUME job = "form" PROVE Forming'
  <2>1. /\ input \in Arrays /\ arr.elem = input /\ i % 3 = 0 /\ n = Len(input)
        /\ n <= 48 /\ NoZeroInside(input) => Written(line.str, input, i) /\ buf.str = <<>>
    BY <1>1, <1>2, <1>12 DEF Inv, Forming
  <2>2. ASSUME n <= 48, NoZeroInside(input)
        PROVE  IF i + 3 < n THEN Written(line'.str, input, i + 3) /\ buf'.str = <<>>
                            ELSE Written(buf'.str, input, n)
    <3>1. input \in Seq(Word)
      BY <2>1, ArraysTypes
    <3>2. Written(line.str, input, i) /\ buf.str = <<>>
      BY <2>1, <2>2
    <3>3. Written(Join(line.str, q), input, Least(i + 3, n))
      BY <1>2, <2>1, <2>2, <3>1, <3>2, LineGrows DEF q, Join
    <3>4. Written(l.str, input, Least(i + 3, n))
      BY <1>6, <3>3
    <3>5. i % 48 = i
      BY <1>2, <2>2
    <3>6. CASE i + 3 < n
      <4>1. ~(i % 48 = 45 \/ i >= n - 3)
        BY <1>2, <2>2, <3>5, <3>6
      <4>2. Least(i + 3, n) = i + 3
        BY <3>6 DEF Least
      <4> QED
        BY <1>14, <3>2, <3>4, <3>6, <4>1, <4>2
    <3>7. CASE ~(i + 3 < n)
      <4>1. i >= n - 3 /\ Least(i + 3, n) = n
        BY <1>2, <3>7 DEF Least
      <4>2. buf'.str = Join(<<>>, l.str)
        BY <1>14, <1>8, <3>2, <4>1
      <4>3. Join(<<>>, l.str) = l.str
        BY <1>7, ConcatEmptySeq DEF Join
      <4> QED
        BY <3>4, <3>7, <4>1, <4>2, <4>3
    <3> QED
      BY <3>6, <3>7
  <2>3. (i + 3) % 3 = 0
    BY <1>2, <2>1
  <2> QED
    BY <1>2, <2>1, <2>2, <2>3 DEF Forming
<1>13. job # "expand"
  BY <1>2 DEF Inv, Expanding
<1> QED
  BY <1>2, <1>11, <1>12, <1>13 DEF Inv

LEMMA InvExpand == Inv /\ expand7to8 => Inv'
<1> SUFFICES ASSUME Inv, expand7to8 PROVE Inv'
  OBVIOUS
<1>1. PICK h, d \in Garbage : buf' = PushEach(buf, Unpacked(arr.elem, i, h), Tail1(d))
  BY DEF expand7to8
<1>2. /\ i \in Nat /\ pc = "expand" /\ pc' = pc /\ arr' = arr /\ job' = job /\ input' = input
      /\ line' = line /\ i' = i + 7
  BY DEF Inv, Types, expand7to8
<1> DEFINE u == Unpacked(arr.elem, i, h)
<1>3. u \in Seq(Nat) /\ Len(u) = 8
  <2>1. arr.elem \in Seq(Nat) /\ h \in Byte
    BY GarbageTypes DEF Inv, Types, Words
  <2> QED
    BY <1>2, <2>1, UnpackedTypes
<1>4. buf' = PushEach(buf, u, Tail1(d)) /\ buf \in Buffers /\ Fits(buf)
  BY <1>1 DEF Inv, Types, Room
<1> HIDE DEF u
<1>5. buf' \in Buffers /\ Fits(buf') /\ buf'.str = Join(buf.str, u)
  <2>1. Tail1(d) \in Tails /\ Len(u) <= 8
    BY <1>3, GarbageTypes, TailTypes
  <2>2. Fits(buf') /\ buf'.str = Join(buf.str, u)
    BY <1>3, <1>4, <2>1, EachFits
  <2> QED
    BY <2>2 DEF Fits
<1>6. Types' /\ Room'
  BY <1>2, <1>5 DEF Inv, Types, Room
<1>7. ASSUME job = "expand" PROVE Expanding'
  <2>1. PICK g \in Garbage : arr.elem = compress8to7(input, g).elem
    BY <1>7 DEF Inv, Expanding
  <2>2. PICK p \in Nat : i = 7 * p /\ Len(buf.str) = 8 * p
    <3>1. i % 7 = 0 /\ Len(buf.str) = 8 * (i \div 7)
      BY <1>7 DEF Inv, Expanding
    <3>2. i \div 7 \in Nat /\ i = 7 * (i \div 7)
      BY <1>2, <3>1
    <3> QED
      BY <3>1, <3>2
  <2>3. input \in Texts /\ \A c \in 1..Len(buf.str) : c <= Len(input) => buf.str[c] = input[c]
    BY <1>7 DEF Inv, Expanding
  <2>4. input \in Seq(Char) /\ g \in Byte /\ h \in Byte
    BY <2>3, TextsTypes, GarbageTypes
  <2>5. buf.str \in Seq(Nat)
    BY <1>4 DEF Buffers
  <2>6. /\ Len(Join(buf.str, u)) = 8 * p + 8
        /\ \A c \in 1..(8 * p) : Join(buf.str, u)[c] = buf.str[c]
        /\ \A c \in 1..8 : Join(buf.str, u)[8 * p + c] = u[c]
    <3>1. /\ Len(Join(buf.str, u)) = Len(buf.str) + Len(u)
          /\ \A c \in 1..Len(buf.str) : Join(buf.str, u)[c] = buf.str[c]
          /\ \A c \in 1..Len(u) : Join(buf.str, u)[Len(buf.str) + c] = u[c]
      BY <1>3, <2>5, JoinIs, Zenon
    <3> QED
      BY <1>3, <2>2, <3>1
  <2>7. ASSUME NEW c \in 1..(8 * p + 8), c <= Len(input) PROVE Join(buf.str, u)[c] = input[c]
    <3>1. CASE c <= 8 * p
      <4>1. c \in 1..(8 * p)
        BY <3>1
      <4> QED
        BY <2>2, <2>3, <2>6, <2>7, <4>1
    <3>2. CASE c > 8 * p
      <4>1. PICK j \in 0..7 : c = 8 * p + j + 1
        BY <3>2
      <4>2. 8 * p + j < Len(input)
        BY <2>4, <2>7, <4>1
      <4>3. Unpacked(compress8to7(input, g).elem, 7 * p, h)[j + 1] = input[8 * p + j + 1]
        BY <2>4, <4>2, CharacterIsUnpacked
      <4>4. u[j + 1] = input[c]
        BY <2>1, <2>2, <4>1, <4>3 DEF u
      <4>5. j + 1 \in 1..8 /\ c = 8 * p + (j + 1)
        BY <4>1
      <4> QED
        BY <2>6, <4>4, <4>5
    <3> QED
      BY <3>1, <3>2
  <2>8. (i + 7) % 7 = 0 /\ 8 * ((i + 7) \div 7) = 8 * p + 8
    BY <2>2
  <2> QED
    BY <1>2, <1>5, <2>1, <2>3, <2>6, <2>7, <2>8 DEF Expanding
<1>8. job # "form"
  BY <1>2 DEF Inv, Forming
<1> QED
  BY <1>2, <1>6, <1>7, <1>8 DEF Inv

LEMMA InvEnd == Inv /\ LoopEnd => Inv'
<1> SUFFICES ASSUME Inv, LoopEnd PROVE Inv'
  OBVIOUS
<1>1. /\ pc \in {"form", "expand"} /\ i >= Len(arr.elem) /\ pc' = "done" /\ job' = job
      /\ input' = input /\ arr' = arr /\ i' = i /\ line' = line /\ buf' = buf
  BY DEF LoopEnd
<1>2. Types'
  BY <1>1 DEF Inv, Types
<1>3. Room'
  BY <1>1 DEF Inv, Room
<1>4. job = "form" => Forming'
  BY <1>1 DEF Inv, Forming
<1>5. job = "expand" => Expanding'
  BY <1>1 DEF Inv, Expanding
<1> QED
  BY <1>1, <1>2, <1>3, <1>4, <1>5 DEF Inv

LEMMA InvFree == Inv /\ freeSDA => Inv'
<1> SUFFICES ASSUME freeSDA PROVE Inv'
  OBVIOUS
<1>1. /\ initBuffer(1) \in Buffers /\ Fits(initBuffer(1))
      /\ initBuffer(256) \in Buffers /\ Fits(initBuffer(256))
  BY MadeFits
<1>2. freeArray \in Words /\ Len(freeArray.elem) <= freeArray.size
  BY DEF freeArray, Array, Words
<1>3. /\ pc' = "idle" /\ job' = "none" /\ i' = 0 /\ arr' = freeArray
      /\ line' = initBuffer(1) /\ buf' = initBuffer(256)
  BY DEF freeSDA
<1>4. Types'
  BY <1>1, <1>2, <1>3 DEF Types
<1>5. Room'
  BY <1>1, <1>2, <1>3 DEF Room
<1> QED
  BY <1>3, <1>4, <1>5 DEF Inv

LEMMA InvStutter == Inv /\ UNCHANGED vars => Inv'
  BY DEF vars, Inv, Types, Room, Forming, Expanding

LEMMA InvNext == Inv /\ [Next]_vars => Inv'
  BY InvEncrypt, InvDecrypt, InvCallForm, InvCallExpand, InvCrypt, InvForm, InvExpand, InvEnd,
     InvFree, InvStutter DEF Next

LEMMA Invariance == Spec => []Inv
<1>1. Init => Inv
  BY InvInit
<1>2. Inv /\ [Next]_vars => Inv'
  BY InvNext
<1> QED
  BY <1>1, <1>2, PTL DEF Spec
-----------------------------------------------------------------------------
(* pushBuffer never writes outside of a buffer, and no array is filled      *)
(* beyond the size it was made with; the zero that initBuffer writes is    *)
(* outside for the line of an empty array only (sda.c:48-73, 411).         *)
THEOREM PushesAllFit == Spec => []PushesFit
<1>1. Inv => PushesFit
  BY DEF Inv, Room, Fits, PushesFit
<1> QED
  BY <1>1, Invariance, PTL

\* The same for what strlen finds of a buffer, its unset place included.
LEMMA EndIsRead ==
  ASSUME NEW s, NEW a \in Seq(Word), Written(s, a, Len(a)), NEW t \in Tails
  PROVE  ReadBack(Join(s, t), a, Len(t))
<1>1. t \in Seq(Nat) /\ Len(t) \in 0..1
  <2>1. t \in Seq(Nat) /\ Len(t) <= 1
    BY DEF Tails
  <2>2. PICK d \in Nat : d = Len(t)
    BY <2>1
  <2>3. d <= 1
    BY <2>1, <2>2
  <2>4. d \in 0..1
    BY <2>3
  <2> QED
    BY <2>1, <2>2, <2>4
<1>2. PICK e \in 0..1 : e = Len(t)
  BY <1>1
<1>3. t \in Seq(Nat) /\ Len(t) = e
  BY <1>1, <1>2
<1>4. ReadBack(Join(s, t), a, e)
  BY <1>3, WrittenIsRead, ZenonT(30)
<1> QED
  BY <1>2, <1>4

(* b64_to_array reads back what array_to_form wrote of any array of 48     *)
(* words or fewer, none of which is zero where a zero would be left out,   *)
(* with one byte more where the byte behind the string, which pushBuffer   *)
(* does not set, is a character (sda.c:63-73, 380-442).                    *)
THEOREM FormsAreReadBack == Spec => []FormIsReadBack
<1>1. Inv => FormIsReadBack
  <2> SUFFICES ASSUME Inv, pc = "done", job = "form", Len(input) <= 48, NoZeroInside(input)
               PROVE  LET back == b64_to_array(Seen(buf)).elem
                      IN  /\ Len(back) = Len(input) + Len(buf.tail)
                          /\ \A k \in 1..Len(input) : back[k] = input[k] % 256
    BY DEF FormIsReadBack
  <2>1. input \in Arrays /\ i >= Len(input) /\ i \in Nat
    BY DEF Inv, Types, Forming
  <2>2. input \in Seq(Word)
    BY <2>1, ArraysTypes
  <2>3. ~(i < Len(input))
    BY <2>1, <2>2
  <2>4. Written(buf.str, input, Len(input))
    BY <2>3 DEF Inv, Forming
  <2>5. buf.tail \in Tails
    BY DEF Inv, Types, Buffers
  <2>6. ReadBack(Join(buf.str, buf.tail), input, Len(buf.tail))
    BY <2>2, <2>4, <2>5, EndIsRead, Zenon
  <2> QED
    BY <2>6 DEF Seen, Join, ReadBack
<1> QED
  BY <1>1, Invariance, PTL

(* expand7to8 gives the text back that compress8to7 packed, for texts of   *)
(* any length and whatever lies behind the array (sda.c).                  *)
THEOREM TextsAreUnpacked == Spec => []TextIsUnpacked
<1>1. Inv => TextIsUnpacked
  <2> SUFFICES ASSUME Inv, pc = "done", job = "expand"
               PROVE  /\ Len(buf.str) >= Len(input)
                      /\ SubSeq(buf.str, 1, Len(input)) = input
    BY DEF TextIsUnpacked
  <2>1. PICK g \in Garbage : arr.elem = compress8to7(input, g).elem
    BY DEF Inv, Expanding
  <2>2. /\ input \in Texts /\ i \in Nat /\ i >= Len(arr.elem) /\ i % 7 = 0
        /\ Len(buf.str) = 8 * (i \div 7) /\ buf.str \in Seq(Nat)
        /\ \A c \in 1..Len(buf.str) : c <= Len(input) => buf.str[c] = input[c]
    BY DEF Inv, Types, Buffers, Expanding
  <2>3. PICK p \in Nat : i = 7 * p /\ Len(buf.str) = 8 * p
    <3>1. i \div 7 \in Nat /\ i = 7 * (i \div 7)
      BY <2>2
    <3> QED
      BY <2>2, <3>1
  <2>4. input \in Seq(Char) /\ g \in Byte
    BY <2>2, TextsTypes, GarbageTypes
  <2>5. PICK n \in Nat : n = Len(input)
    BY <2>4
  <2>6. Len(arr.elem) = Packs(n)
    BY <2>1, <2>4, <2>5, CompressTypes
  <2>7. 8 * p >= n
    <3> SUFFICES ASSUME 8 * p + 0 < n PROVE FALSE
      OBVIOUS
    <3>1. 7 * p + 0 < Packs(n) /\ Packs(n) \in Nat
      BY PacksReach, PacksTypes
    <3> QED
      BY <2>2, <2>3, <2>6, <3>1
  <2>8. \A c \in 1..n : buf.str[c] = input[c]
    BY <2>2, <2>3, <2>5, <2>7
  <2> QED
    BY <2>2, <2>3, <2>4, <2>5, <2>7, <2>8
<1> QED
  BY <1>1, Invariance, PTL
=============================================================================
