------------------------------ MODULE Archive -------------------------------
(***************************************************************************)
(* libraries/postrest/sda.c, the "Self Decrypting Archive": a program of   *)
(* its own, not linked by a servlet.  It packs 7-bit text into bytes, puts *)
(* a key stream over them and prints them in base 64, and back.            *)
(*                                                                         *)
(* encrypt and decrypt are run as they are.  Since crypt gives on an array *)
(* whose length it never sets, the two functions behind it are also run on *)
(* arrays of their own.                                                    *)
(***************************************************************************)
EXTENDS Integers, Sequences

CONSTANTS Passphrases, \* of a passphrase, its length
          Texts,     \* texts of 7-bit characters
          Arrays,    \* arrays of words, for array_to_form
          Garbage    \* bytes that memory yields where nothing was written

Char == 1..127
Byte == 0..255
Word == 0..65535     \* an int of the code, less wide: only low bytes are used

ASSUME InputsAssumption ==
  /\ Passphrases \subseteq Nat
  /\ Texts \subseteq Seq(Char) /\ Arrays \subseteq Seq(Word) /\ Garbage \subseteq Byte

VARIABLES job, input, pc,
          key,          \* what encrypt and decrypt put their stream together from
          arr,          \* the array in hand: its elements in use, its size
          i,            \* index of the loop
          line, buf     \* array_to_form's own buffer, and sda->buf

vars == <<job, input, pc, key, arr, i, line, buf>>

NoKey == [state |-> "none", polynom |-> 0, over |-> FALSE]

-----------------------------------------------------------------------------
(* Buffers and arrays.  A buffer's tail is the character that strlen finds *)
(* behind its string, if there is one; over says that a write fell outside *)
(* of the memory that it had.                                              *)

initBuffer(n) == [str |-> <<>>, tail |-> <<>>, size |-> n, over |-> n = 0]

\* The zero goes behind the byte that follows the string.  That byte is the
\* zero of the push before if this one was of one character, and otherwise t.
Pushed(b, s, t, size) ==
  [str  |-> b.str \o s,
   tail |-> IF Len(s) = 1 /\ b.str # <<>> THEN <<>> ELSE t,
   size |-> size,
   over |-> b.over \/ Len(b.str) + Len(s) + 1 >= size]

\* Mutant: no byte for the end of the string.
pushBufferTight(b, s, t) ==
  Pushed(b, s, t, IF Len(b.str) + Len(s) > b.size THEN Len(s) + b.size ELSE b.size)

pushBuffer(b, s, t) ==
  Pushed(b, s, t, IF Len(b.str) + Len(s) + 1 >= b.size THEN Len(s) + b.size + 1 ELSE b.size)

\* The characters of s, eight or fewer, one at a time.
More(b, s, k, t) == IF k <= Len(s) THEN pushBuffer(b, <<s[k]>>, t) ELSE b

PushEach(b, s, t) ==
  LET two(x, k)  == More(More(x, s, k, t), s, k + 1, t)
      four(x, k) == two(two(x, k), k + 2)
  IN  four(four(b, 1), 5)

\* As a character, its number in the table or that of none; a zero is no more.
Tail1(g) == IF g = 0 THEN <<>> ELSE <<g % 65>>

Array(elem, n) == [elem |-> elem, size |-> n]
freeArray      == Array(<<>>, 0)

-----------------------------------------------------------------------------
(* Seven bytes for eight characters.                                       *)

Least(m, n) == IF m < n THEN m ELSE n

\* str[k]: its end is a NUL, and what follows that is read too.
At(t, k, g) == IF k < Len(t) THEN t[k + 1] ELSE IF k = Len(t) THEN 0 ELSE g

Signed(c) == IF c > 127 THEN c - 256 ELSE c

\* Mutant: the bits that were given before are not shifted out.
PackedUnshifted(t, k, g) ==
  LET j == k % 8
  IN  ((At(t, k, g) * 2^j) % 256) + ((Signed(At(t, k + 1, g)) \div 2^(6 - j)) % 256)

\* What is left of character k, and the beginning of the next.
Packed(t, k, g) ==
  LET j == k % 8
  IN  ((At(t, k, g) * 2^(j + 1)) % 256) + ((Signed(At(t, k + 1, g)) \div 2^(6 - j)) % 256)

\* Bytes made: seven for each group, for the last one up to its NUL.
Packs(n) == 7 * (n \div 8) + (IF n % 8 = 0 THEN 0 ELSE Least(7, (n % 8) + 1))

compress8to7(t, g) ==
  Array([m \in 1..Packs(Len(t)) |-> Packed(t, (m - 1) + ((m - 1) \div 7), g)], 2 * Len(t))

Elem(a, k, g) == IF k < Len(a) THEN a[k + 1] ELSE g

\* The eight characters of the group at element k.
Unpacked(a, k, g) ==
  [m \in 1..8 |->
     IF m = 1 THEN (Elem(a, k, g) \div 2) % 128
     ELSE LET j == m - 1 IN
            ((Elem(a, k + j - 1, g) * 2^(7 - j)) % 128)
              + ((Elem(a, k + j, g) % 256) \div 2^(j + 1))]

-----------------------------------------------------------------------------
(* Base 64.  A character is its number in the table, or a line break.      *)

Break == 64          \* decode gives 64 for a character not in the table

\* Mutant: what is not there is written as a zero.
QuadWhole(b1, b2, b3) ==
  <<(b1 \div 4) % 64, (b1 % 4) * 16 + ((b2 % 256) \div 16),
    (b2 % 16) * 4 + ((b3 % 256) \div 64), b3 % 64>>

\* The characters for three words: a zero in the second or third leaves its
\* character out.
Quad(b1, b2, b3) ==
  <<(b1 \div 4) % 64, (b1 % 4) * 16 + ((b2 % 256) \div 16)>>
    \o (IF b2 # 0 THEN <<(b2 % 16) * 4 + ((b3 % 256) \div 64)>> ELSE <<>>)
    \o (IF b3 # 0 THEN <<b3 % 64>> ELSE <<>>)

\* What a character stands for, or 0 past the end.
Digit(s, k) == IF k < Len(s) THEN s[k + 1] % 64 ELSE 0

\* The bytes of the four characters at k.
Triplet(s, k) ==
  <<Digit(s, k) * 4 + (Digit(s, k + 1) \div 16),
    (Digit(s, k + 1) % 16) * 16 + (Digit(s, k + 2) \div 4),
    (Digit(s, k + 2) % 4) * 64 + Digit(s, k + 3)>>

\* Bytes made: three for each four characters, for the last ones the first
\* and one for each of the third and fourth.
Triplets(n) == 3 * (n \div 4) + (IF n % 4 = 0 THEN 0 ELSE IF n % 4 = 3 THEN 2 ELSE 1)

b64_to_array(s) ==
  Array([m \in 1..Triplets(Len(s)) |-> Triplet(s, 4 * ((m - 1) \div 3))[1 + ((m - 1) % 3)]],
        Len(s))

-----------------------------------------------------------------------------
(* Keys.                                                                   *)

\* The words are filled in, but none is counted as used.
str2binl(passphrase) == Array(<<>>, 2 * passphrase)

\* The padding is written to a word or two whether or not the array has them.
\* MD5's own first state comes back when there is no word to go through;
\* otherwise it goes through sixteen, the ones behind the array too.
core_md5(ina, len) ==
  [state |-> IF ina.elem = <<>> THEN "first state" ELSE "of what lies there",
   over  |-> \E n \in {len \div 32, ((len + 64) \div 512) * 16 + 14} : n >= ina.size]

\* Room for as many words as a has, but none is copied: what the memory held.
xorArray(a, b) == Garbage

initSDA(passphrase) ==
  LET bin == str2binl(passphrase)
      pn  == core_md5(bin, 8 * passphrase)
      a   == core_md5(Array([n \in 1..4 |-> pn.state], 4), 128)
      b   == core_md5(bin, 4 * passphrase)
  IN  {[state |-> pn.state, polynom |-> g, over |-> pn.over \/ a.over \/ b.over] :
         g \in xorArray(a, b)}
-----------------------------------------------------------------------------
Init ==
  /\ job = "none" /\ input = <<>> /\ pc = "idle" /\ key = NoKey /\ i = 0
  /\ arr = freeArray /\ line = initBuffer(1) /\ buf = initBuffer(256)

\* initSDA makes sda->buf too.
Begin(j, in, a, to) ==
  /\ pc = "idle"
  /\ job' = j /\ input' = in /\ arr' = a /\ pc' = to /\ i' = 0
  /\ line' = initBuffer(IF to = "form" THEN Len(a.elem) ELSE 1)
  /\ buf' = initBuffer(256)

encrypt ==
  /\ \E t \in Texts, g \in Garbage : Begin("encrypt", t, compress8to7(t, g), "crypt")
  /\ \E w \in Passphrases : key' \in initSDA(w)

\* Any characters of the table.
decrypt ==
  /\ \E a \in Arrays :
       LET s == [k \in 1..Len(a) |-> a[k] % 64]
       IN  Begin("decrypt", s, b64_to_array(s), "crypt")
  /\ \E w \in Passphrases : key' \in initSDA(w)

CallForm ==
  /\ \E a \in Arrays : Begin("form", a, Array(a, Len(a)), "form")
  /\ UNCHANGED key

CallExpand ==
  /\ \E t \in Texts, g \in Garbage : Begin("expand", t, compress8to7(t, g), "expand")
  /\ UNCHANGED key

\* A word of the key stream is put over every element, but none is counted.
crypt ==
  /\ pc = "crypt"
  /\ arr' = Array(<<>>, Len(arr.elem))
  /\ pc' = IF job = "encrypt" THEN "form" ELSE "expand"
  /\ line' = IF job = "encrypt" THEN initBuffer(0) ELSE line   \* no word is counted
  /\ UNCHANGED <<job, input, key, i, buf>>

\* One turn of array_to_form: after 48 words, and at the end, the line goes
\* to sda->buf; the next one begins with a line break.
array_to_form ==
  /\ pc = "form" /\ i < Len(arr.elem)
  /\ \E g \in Garbage :
       LET n == Len(arr.elem)
           t == Tail1(g)
           W(k) == IF k < n THEN arr.elem[k + 1] ELSE 0
           l == PushEach(line, Quad(W(i), W(i + 1), W(i + 2)), t)
       IN  /\ buf' = IF i % 48 = 45 \/ i >= n - 3 THEN pushBuffer(buf, l.str, t) ELSE buf
           /\ line' = IF i % 48 = 45 /\ i < n - 3
                      THEN pushBuffer([l EXCEPT !.str = <<>>], <<Break>>, t) ELSE l
  /\ i' = i + 3
  /\ UNCHANGED <<job, input, pc, key, arr>>

\* One turn of expand7to8.
expand7to8 ==
  /\ pc = "expand" /\ i < Len(arr.elem)
  /\ \E g, h \in Garbage : buf' = PushEach(buf, Unpacked(arr.elem, i, g), Tail1(h))
  /\ i' = i + 7
  /\ UNCHANGED <<job, input, pc, key, arr, line>>

LoopEnd ==
  /\ pc \in {"form", "expand"} /\ i >= Len(arr.elem)
  /\ pc' = "done"
  /\ UNCHANGED <<job, input, key, arr, i, line, buf>>

\* The caller frees what it was given.
freeSDA ==
  /\ pc = "done"
  /\ pc' = "idle" /\ job' = "none" /\ input' = <<>> /\ key' = NoKey /\ i' = 0
  /\ arr' = freeArray /\ line' = initBuffer(1) /\ buf' = initBuffer(256)

Next ==
  \/ encrypt \/ decrypt \/ CallForm \/ CallExpand
  \/ crypt \/ array_to_form \/ expand7to8 \/ LoopEnd \/ freeSDA

Spec == Init /\ [][Next]_vars
-----------------------------------------------------------------------------
(* pushBuffer never writes outside of a buffer, though its zero goes one    *)
(* byte further than the end of the string: it leaves room for two bytes   *)
(* behind what it wrote, and every buffer it is called on had one at the   *)
(* least.  array_to_form makes one of none if its array is empty, which it *)
(* is on every encrypt, and initBuffer's zero falls outside, but nothing   *)
(* is pushed to it.  And no array is filled beyond its size, so that       *)
(* insertArray never has to double a size of zero.  core_md5's padding is  *)
(* not covered: it does fall outside (sda.c:48-73, 150, 411, 468).         *)
PushesFit ==
  /\ ~buf.over /\ Len(arr.elem) <= arr.size
  /\ line.over => arr.elem = <<>> /\ line.str = <<>>

\* What strlen makes of a buffer.
Seen(b) == b.str \o b.tail
NoZeroInside(a) == \A k \in 1..Len(a) : k % 3 = 1 \/ a[k] # 0

(* b64_to_array reads back what array_to_form wrote of an array of 48 words *)
(* or fewer, none of which is zero where a zero would be left out, and one *)
(* byte more at the end if the byte that pushBuffer left unset behind the  *)
(* string holds a character (sda.c:63-73, 380-442).                        *)
FormIsReadBack ==
  pc = "done" /\ job = "form" /\ Len(input) <= 48 /\ NoZeroInside(input) =>
    LET back == b64_to_array(Seen(buf)).elem
    IN  /\ Len(back) = Len(input) + Len(buf.tail)
        /\ \A k \in 1..Len(input) : back[k] = input[k] % 256

(* Text that was packed is unpacked unchanged, whatever was read past its  *)
(* end (sda.c:300-340).                                                    *)
TextIsUnpacked ==
  pc = "done" /\ job = "expand" =>
    Len(buf.str) >= Len(input) /\ SubSeq(buf.str, 1, Len(input)) = input

=============================================================================
