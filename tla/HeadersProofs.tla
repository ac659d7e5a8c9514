--------------------------- MODULE HeadersProofs ----------------------------
(***************************************************************************)
(* Proofs about Headers: for any requests, with any number of headers and  *)
(* of attributes.                                                          *)
(***************************************************************************)
EXTENDS Headers, FiniteSetTheorems, TLAPS

Lower == {"authorization", "host", "x-port", "x-forwarded-for"}
Names == (Sent \ {"X-Forwarded-For"}) \cup Lower

Spot  == [piece : Nat, from : Nat, to : Nat]

(* Types.                                                                  *)
Types ==
  /\ r \in Requests
  /\ pc \in {"scan", "lookup", "hawk", "done", "fault"} \cup Keys
  /\ i \in Nat \ {0} /\ i <= Lines + 1
  /\ headers \in Seq([name : Names, line : Nat \ {0}])
  /\ value \in [Wanted(r.to) -> Nat]
  /\ p \in Nat /\ taken \in [Keys -> Spot]

(* What each stage has behind it.                                          *)
Stages ==
  /\ pc # "done" => status = 0
  /\ pc = "scan" => Len(headers) < Maxh
  /\ pc = "lookup" => i > Lines \/ Len(headers) >= Maxh
  /\ pc = "hawk" \/ pc \in Keys => r.to = "get_all" /\ value["authorization"] # 0
  /\ pc \in Keys => r.scheme = "Hawk"

(* The headers are the lines up to i that have a colon, in their order,    *)
(* and the number of them before a line is its place in the list.          *)
Kept(n) == r.lines[n].long /\ r.lines[n].name # NoColon
KeptBefore(n) == {m \in 1..(n - 1) : Kept(m)}

Copied ==
  /\ \A j \in 1..Len(headers) :
       LET n == headers[j].line IN
         /\ n < i /\ Kept(n)
         /\ headers[j].name = stringToLowercase(r.lines[n].name)
         /\ Cardinality(KeptBefore(n)) = j - 1
  /\ \A j, k \in 1..Len(headers) : j < k => headers[j].line < headers[k].line
  /\ \A n \in 1..(i - 1) : Kept(n) => \E j \in 1..Len(headers) : headers[j].line = n
  /\ Cardinality(KeptBefore(i)) = Len(headers)

(* In a value laid out as w says, the artifacts of the first n - 1 keys are *)
(* those of their attributes, and the search goes on behind the last.      *)
Ways == [1..5 -> 0..Len(r.pieces)]

Place(w, n) ==
  IF w[n] = 0 THEN Nothing
  ELSE [piece |-> w[n], from |-> 3, to |-> Len(r.pieces[w[n]]) - 1]

Along(w, n) ==
  /\ p = Before(w, n) + 1
  /\ \A m \in 1..5 : taken[KeyOrder[m]] = IF m < n THEN Place(w, m) ELSE Nothing

Ordered ==
  /\ pc \in {"scan", "lookup", "hawk"} => p = 1 /\ \A k \in Keys : taken[k] = Nothing
  /\ \A n \in 1..5 : pc = KeyOrder[n] => \A w \in Ways : LaidOut(w) => Along(w, n)
  /\ pc = "done" /\ status = 200 /\ r.scheme = "Hawk" =>
       \A w \in Ways : LaidOut(w) => Along(w, 6)

-----------------------------------------------------------------------------
(* A request, a line, and what names become.                               *)

LEMMA RequestTypes ==
  ASSUME Types
  PROVE  /\ r \in Request /\ Lines \in Nat /\ Len(r.pieces) \in Nat
         /\ DOMAIN r.pieces = 1..Len(r.pieces)
         /\ \A n \in 1..Lines : r.lines[n] \in Line
         /\ \A j \in 1..Len(r.pieces) :
              /\ Len(r.pieces[j]) \in Nat /\ DOMAIN r.pieces[j] = 1..Len(r.pieces[j])
<1>1. r \in Request
  BY RequestsAssumption DEF Types
<1>2. r.lines \in Seq(Line) /\ r.pieces \in Seq(Piece)
  BY <1>1 DEF Request
<1>3. \A j \in 1..Len(r.pieces) : r.pieces[j] \in Seq(Keys \cup {Quote, "x"})
  BY <1>2 DEF Piece
<1> QED
  BY <1>1, <1>2, <1>3 DEF Lines

LEMMA HeaderTypes ==
  ASSUME Types
  PROVE  /\ Len(headers) \in Nat
         /\ \A j \in 1..Len(headers) :
              /\ headers[j] \in [name : Names, line : Nat \ {0}]
              /\ headers[j].name \in Names /\ headers[j].line \in Nat \ {0}
<1> DEFINE H == [name : Names, line : Nat \ {0}]
<1>1. headers \in Seq(H)
  BY DEF Types
<1>2. \A h \in H : h.name \in Names /\ h.line \in Nat \ {0}
  OBVIOUS
<1> HIDE DEF H
<1>3. Len(headers) \in Nat /\ \A j \in 1..Len(headers) : headers[j] \in H
  BY <1>1
<1> QED
  BY <1>2, <1>3 DEF H

LEMMA LowerNames ==
  ASSUME NEW name \in Sent \cup {NoColon}
  PROVE  /\ name # NoColon => stringToLowercase(name) \in Names
         /\ name \notin {"", NoColon} => stringToLowercase(name) # ""
         /\ stringToLowercase("") = ""
         /\ stringToLowercase(name) \in Lower => name # NoColon
  BY NoColonAssumption DEF stringToLowercase, Names, Sent, Lower

LEMMA MaxhIs == r.to = "get_all" => Maxh = 24
  BY DEF Maxh

\* The keys in their order.
LEMMA Order ==
  /\ NextOf("id") = "ts" /\ NextOf("ts") = "nonce" /\ NextOf("nonce") = "ext"
  /\ NextOf("ext") = "mac" /\ NextOf("mac") = "done"
  /\ Keys = {KeyOrder[n] : n \in 1..5}
  /\ \A n \in 1..4 : NextOf(KeyOrder[n]) = KeyOrder[n + 1]
  /\ KeyOrder[1] = "id" /\ KeyOrder[5] = "mac"
  /\ \A m, n \in 1..5 : KeyOrder[m] = KeyOrder[n] => m = n
<1>1. /\ KeyOrder[1] = "id" /\ KeyOrder[2] = "ts" /\ KeyOrder[3] = "nonce"
      /\ KeyOrder[4] = "ext" /\ KeyOrder[5] = "mac"
  BY DEF KeyOrder
<1>2. \A n \in 1..5 : n = 1 \/ n = 2 \/ n = 3 \/ n = 4 \/ n = 5
  OBVIOUS
<1>3. /\ (CHOOSE j \in 1..5 : KeyOrder[j] = "id") = 1
      /\ (CHOOSE j \in 1..5 : KeyOrder[j] = "ts") = 2
      /\ (CHOOSE j \in 1..5 : KeyOrder[j] = "nonce") = 3
      /\ (CHOOSE j \in 1..5 : KeyOrder[j] = "ext") = 4
      /\ (CHOOSE j \in 1..5 : KeyOrder[j] = "mac") = 5
  BY <1>1, <1>2
<1>4. Keys = {KeyOrder[n] : n \in 1..5}
  BY <1>1, <1>2 DEF Keys
<1>5. /\ NextOf("id") = "ts" /\ NextOf("ts") = "nonce" /\ NextOf("nonce") = "ext"
      /\ NextOf("ext") = "mac" /\ NextOf("mac") = "done"
  BY <1>1, <1>3 DEF NextOf
<1>6. \A n \in 1..4 : NextOf(KeyOrder[n]) = KeyOrder[n + 1]
  <2>1. \A n \in 1..4 : n = 1 \/ n = 2 \/ n = 3 \/ n = 4
    OBVIOUS
  <2> QED
    BY <1>1, <1>5, <2>1
<1>7. \A m, n \in 1..5 : KeyOrder[m] = KeyOrder[n] => m = n
  BY <1>1, <1>2
<1> QED
  BY <1>1, <1>4, <1>5, <1>6, <1>7

-----------------------------------------------------------------------------
(* get_headers.                                                            *)

\* One line more.
LEMMA BeforeNext ==
  ASSUME NEW n \in Nat \ {0}
  PROVE  /\ IsFiniteSet(KeptBefore(n)) /\ Cardinality(KeptBefore(n)) \in Nat
         /\ Kept(n) => Cardinality(KeptBefore(n + 1)) = Cardinality(KeptBefore(n)) + 1
         /\ ~Kept(n) => KeptBefore(n + 1) = KeptBefore(n)
<1>1. IsFiniteSet(1..(n - 1))
  BY FS_Interval
<1>2. KeptBefore(n) \subseteq 1..(n - 1)
  BY DEF KeptBefore
<1>3. IsFiniteSet(KeptBefore(n)) /\ Cardinality(KeptBefore(n)) \in Nat
  BY <1>1, <1>2, FS_Subset, FS_CardinalityType
<1>4. n \notin KeptBefore(n)
  BY DEF KeptBefore
<1>5. KeptBefore(n + 1) = IF Kept(n) THEN KeptBefore(n) \cup {n} ELSE KeptBefore(n)
  <2>1. \A m : m \in 1..(n + 1 - 1) <=> m \in 1..(n - 1) \/ m = n
    OBVIOUS
  <2> QED
    BY <2>1 DEF KeptBefore
<1> QED
  BY <1>3, <1>4, <1>5, FS_AddElement

LEMMA MoreBefore ==
  ASSUME NEW n \in Nat \ {0}, NEW m \in Nat \ {0}, m <= n
  PROVE  /\ KeptBefore(m) \subseteq KeptBefore(n)
         /\ Cardinality(KeptBefore(m)) <= Cardinality(KeptBefore(n))
<1>1. KeptBefore(m) \subseteq KeptBefore(n)
  BY DEF KeptBefore
<1> QED
  BY <1>1, BeforeNext, FS_Subset

\* A line without a colon that is read to one behind it, and no NUL between.
LEMMA FaultIsLine ==
  ASSUME Types, Stages, Copied, BadLength
  PROVE  \E n \in 1..Lines :
           /\ r.lines[n].long /\ ~r.lines[n].ended /\ r.lines[n].name = NoColon
           /\ r.rest \/ \E m \in (n + 1)..Lines : r.lines[m].name # NoColon
           /\ Cardinality(KeptBefore(n)) < Maxh
<1>1. i \in 1..Lines /\ r.lines[i].name = NoColon /\ Colon(i) /\ r.lines[i].long /\ Lines \in Nat
  BY RequestTypes DEF BadLength, Types, LookedAt
<1>2. Cardinality(KeptBefore(i)) < Maxh
  BY DEF BadLength, Stages, Copied
<1>3. ~r.lines[i].ended /\ (r.rest \/ \E m \in (i + 1)..Lines : r.lines[m].name # NoColon)
  <2>1. CASE r.rest /\ \A j \in i..Lines : ~r.lines[j].ended
    BY <1>1, <2>1
  <2>2. ASSUME NEW j \in i..Lines, r.lines[j].name # NoColon,
               \A k \in i..(j - 1) : ~r.lines[k].ended
        PROVE  ~r.lines[i].ended /\ j \in (i + 1)..Lines
    BY <1>1, <2>2
  <2> QED
    BY <1>1, <2>1, <2>2 DEF Colon
<1> QED
  BY <1>1, <1>2, <1>3

Inv == Types /\ Stages /\ Copied /\ Ordered

\* Before the keys are searched for, nothing is taken.
LEMMA NothingTaken ==
  ASSUME Ordered, pc \in {"scan", "lookup", "hawk"}, UNCHANGED <<p, taken>>, pc' \notin Keys,
         pc' = "done" => status' # 200 \/ r'.scheme # "Hawk"
  PROVE  Ordered'
<1>1. p' = 1 /\ \A k \in Keys : taken'[k] = Nothing
  BY DEF Ordered
<1>2. \A n \in 1..5 : pc' # KeyOrder[n]
  BY Order
<1> QED
  BY <1>1, <1>2 DEF Ordered

LEMMA InitInv == Init => Inv
<1> SUFFICES ASSUME Init PROVE Inv
  OBVIOUS
<1>1. r \in Request
  BY RequestsAssumption DEF Init
<1>2. r.lines \in Seq(Line) /\ Wanted(r.to) \in {Wanted("login"), Wanted("get_all")}
  BY <1>1 DEF Request
<1>3. Types
  BY <1>2 DEF Init, Types, Lines, Nothing, Spot
<1>4. KeptBefore(1) = {} /\ Cardinality(KeptBefore(1)) = 0
  BY FS_EmptySet DEF KeptBefore
<1>5. Copied
  BY <1>4 DEF Init, Copied
<1>6. Stages
  BY <1>1 DEF Init, Stages, Keys, Maxh
<1>7. Ordered
  <2>1. pc = "scan" /\ \A n \in 1..5 : KeyOrder[n] # "scan"
    BY Order DEF Init, Keys
  <2> QED
    BY <2>1 DEF Init, Ordered
<1> QED
  BY <1>3, <1>5, <1>6, <1>7 DEF Inv

\* A line that is not kept.
LEMMA SkipInv == Inv /\ SkipLine => Inv'
<1> SUFFICES ASSUME Inv, SkipLine PROVE Inv'
  OBVIOUS
<1>1. /\ i \in 1..Lines /\ i' = i + 1 /\ pc' = "scan" /\ Lines \in Nat /\ r' = r
      /\ UNCHANGED <<headers, value, p, taken, status>>
  BY RequestTypes DEF Inv, Types, SkipLine
<1>2. ~Kept(i)
  BY RequestTypes, <1>1 DEF SkipLine, Kept, Colon, Inv, LookedAt
<1>3. Types'
  BY <1>1 DEF Inv, Types, Lines
<1>4. Copied'
  <2>1. \A n : KeptBefore(n)' = KeptBefore(n) /\ Kept(n)' = Kept(n)
    BY <1>1 DEF KeptBefore, Kept
  <2>2. KeptBefore(i + 1) = KeptBefore(i)
    BY <1>1, <1>2, BeforeNext
  <2>3. \A n \in 1..i : Kept(n) => n \in 1..(i - 1)
    BY <1>1, <1>2
  <2>4. \A j \in 1..Len(headers) : headers[j].line \in Nat
    BY HeaderTypes DEF Inv
  <2> QED
    BY <1>1, <2>1, <2>2, <2>3, <2>4 DEF Inv, Copied
<1>5. Stages' /\ Ordered'
  BY <1>1, NothingTaken DEF Inv, Stages, Keys, Maxh, SkipLine
<1> QED
  BY <1>3, <1>4, <1>5 DEF Inv

\* A line that is.
LEMMA KeepInv == Inv /\ KeepHeader => Inv'
<1> SUFFICES ASSUME Inv, KeepHeader PROVE Inv'
  OBVIOUS
<1> DEFINE h == [name |-> stringToLowercase(r.lines[i].name), line |-> i]
           H == [name : Names, line : Nat \ {0}]
<1>1. /\ i \in 1..Lines /\ i' = i + 1 /\ Lines \in Nat /\ r' = r
      /\ r.lines[i].name \in Sent /\ Kept(i)
      /\ UNCHANGED <<value, p, taken, status>>
  BY RequestTypes DEF Inv, Types, KeepHeader, Kept, Line, LookedAt
<1>2. h \in H /\ headers \in Seq(H) /\ headers' = Append(headers, h)
  BY <1>1, LowerNames DEF Inv, Types, KeepHeader
<1> HIDE DEF h, H
<1>3. /\ headers' \in Seq(H) /\ Len(headers') = Len(headers) + 1 /\ Len(headers) \in Nat
      /\ \A j \in 1..Len(headers) : headers'[j] = headers[j] /\ headers[j] \in H
      /\ headers'[Len(headers) + 1] = h
  BY <1>2
<1>4. pc' \in {"scan", "lookup"} /\ (pc' = "lookup" => Len(headers') >= Maxh)
  BY DEF KeepHeader
<1>5. Types'
  BY <1>1, <1>3, <1>4 DEF Inv, Types, Lines, H
<1>6. Copied'
  <2>1. \A n : KeptBefore(n)' = KeptBefore(n) /\ Kept(n)' = Kept(n)
    BY <1>1 DEF KeptBefore, Kept
  <2>2. Cardinality(KeptBefore(i + 1)) = Len(headers) + 1 /\ Cardinality(KeptBefore(i)) = Len(headers)
    BY <1>1, BeforeNext DEF Inv, Copied
  <2>3. \A j \in 1..(Len(headers) + 1) : j \in 1..Len(headers) \/ j = Len(headers) + 1
    BY <1>3
  <2>4. h.line = i /\ h.name = stringToLowercase(r.lines[i].name)
    BY DEF h
  <2>5. \A j \in 1..Len(headers') :
          LET n == headers'[j].line IN
            /\ n < i' /\ Kept(n)
            /\ headers'[j].name = stringToLowercase(r.lines[n].name)
            /\ Cardinality(KeptBefore(n)) = j - 1
    <3>1. ASSUME NEW j \in 1..Len(headers)
          PROVE  LET n == headers[j].line IN
                   /\ n < i' /\ Kept(n)
                   /\ headers[j].name = stringToLowercase(r.lines[n].name)
                   /\ Cardinality(KeptBefore(n)) = j - 1
      BY <1>1, HeaderTypes DEF Inv, Copied
    <3>2. i < i' /\ Cardinality(KeptBefore(i)) = (Len(headers) + 1) - 1
      BY <1>1, <1>3, <2>2
    <3> QED
      BY <1>1, <1>3, <2>3, <2>4, <3>1, <3>2
  <2>6. \A j, k \in 1..Len(headers') : j < k => headers'[j].line < headers'[k].line
    <3>1. \A j \in 1..Len(headers) : headers[j].line < i
      BY DEF Inv, Copied
    <3>2. \A j, k \in 1..Len(headers) : j < k => headers[j].line < headers[k].line
      BY DEF Inv, Copied
    <3> QED
      BY <1>3, <2>3, <2>4, <3>1, <3>2
  <2>7. \A n \in 1..(i' - 1) : Kept(n) => \E j \in 1..Len(headers') : headers'[j].line = n
    <3> SUFFICES ASSUME NEW n \in 1..i, Kept(n)
                 PROVE  \E j \in 1..Len(headers') : headers'[j].line = n
      BY <1>1
    <3>1. CASE n = i
      BY <1>3, <2>4, <3>1
    <3>2. CASE n # i
      <4>1. PICK j \in 1..Len(headers) : headers[j].line = n
        BY <1>1, <3>2 DEF Inv, Copied
      <4> QED
        BY <1>3, <4>1
    <3> QED
      BY <3>1, <3>2
  <2> QED
    BY <1>1, <1>3, <2>1, <2>2, <2>5, <2>6, <2>7 DEF Copied
<1>7. Stages' /\ Ordered'
  BY <1>1, <1>4, NothingTaken DEF Inv, Stages, Keys, Maxh, KeepHeader
<1> QED
  BY <1>5, <1>6, <1>7 DEF Inv

-----------------------------------------------------------------------------
(* The lookups.                                                            *)

Titled(n, name) == r.lines[n].long /\ stringToLowercase(r.lines[n].name) = name
Seen(n) == Cardinality(KeptBefore(n)) < 8 /\ \A m \in KeptBefore(n) : r.lines[m].name # ""
Hits(name) == {j \in 1..Len(headers) :
                 /\ j <= Window /\ headers[j].name = name
                 /\ \A k \in 1..(j - 1) : headers[k].name \notin {"", name}}

LEMMA ValueTypes ==
  ASSUME Types, NEW name
  PROVE  ValueOf(name) \in Nat
<1>1. \A j \in 1..Len(headers) : headers[j].name \in Names /\ headers[j].line \in Nat
  BY HeaderTypes
<1>3. CASE Hits(name) = {}
  BY <1>3 DEF ValueOf, Hits
<1>4. CASE Hits(name) # {}
  <2>1. (CHOOSE j \in Hits(name) : TRUE) \in Hits(name)
    BY <1>4
  <2>2. ValueOf(name) = headers[CHOOSE j \in Hits(name) : TRUE].line
    BY <1>4 DEF ValueOf, Hits
  <2> QED
    BY <1>1, <1>4, <2>1, <2>2 DEF Hits
<1> QED
  BY <1>3, <1>4

\* The first line of a name gives the value, if it is seen.
LEMMA FirstIsFound ==
  ASSUME Inv, pc = "lookup", r.to = "get_all", NEW name \in Wanted("get_all"),
         NEW n \in 1..Lines, Titled(n, name), \A m \in 1..(n - 1) : ~Titled(m, name)
  PROVE  ValueOf(name) = IF Seen(n) THEN n ELSE 0
<1>1. /\ Lines \in Nat /\ i \in Nat \ {0} /\ Len(headers) \in Nat
      /\ \A m \in 1..Lines : r.lines[m].name \in Sent \cup {NoColon}
      /\ \A j \in 1..Len(headers) : headers[j].line \in Nat \ {0}
  BY RequestTypes, HeaderTypes DEF Inv, Types, Line
<1>2. n \in Nat /\ n >= 1 /\ n <= Lines /\ Kept(n) /\ name # ""
  <2>1. n \in Nat /\ n >= 1 /\ n <= Lines
    BY <1>1
  <2>2. name \in Lower /\ name # ""
    BY DEF Wanted, Lower
  <2>3. r.lines[n].name # NoColon
    BY <1>1, <2>2, LowerNames DEF Titled
  <2> QED
    BY <2>1, <2>2, <2>3 DEF Titled, Kept
<1>3. \A j \in 1..Len(headers) :
        /\ headers[j].line \in 1..Lines /\ headers[j].line < i /\ Kept(headers[j].line)
        /\ headers[j].name = stringToLowercase(r.lines[headers[j].line].name)
        /\ Cardinality(KeptBefore(headers[j].line)) = j - 1
  BY <1>1 DEF Inv, Types, Copied
<1>4. \A j \in 1..Len(headers) : headers[j].name = name => n <= headers[j].line
  <2> SUFFICES ASSUME NEW j \in 1..Len(headers), headers[j].name = name
               PROVE  n <= headers[j].line
    OBVIOUS
  <2>1. headers[j].line \in Nat \ {0} /\ n \in Nat
    BY <1>1, <1>2
  <2>2. Titled(headers[j].line, name)
    BY <1>3 DEF Kept, Titled
  <2>3. headers[j].line \notin 1..(n - 1)
    BY <2>2
  <2> QED
    BY <2>1, <2>3
<1>5. \A j \in 1..Len(headers) :
        headers[j].line < n => headers[j].line \in KeptBefore(n)
  <2> SUFFICES ASSUME NEW j \in 1..Len(headers), headers[j].line < n
               PROVE  headers[j].line \in KeptBefore(n)
    OBVIOUS
  <2>1. headers[j].line \in Nat \ {0} /\ n \in Nat
    BY <1>1, <1>2
  <2>2. Kept(headers[j].line)
    BY <1>3
  <2>3. headers[j].line \in 1..(n - 1)
    BY <2>1
  <2> QED
    BY <2>2, <2>3 DEF KeptBefore
<1>6. ValueOf(name) = IF Hits(name) = {} THEN 0 ELSE headers[CHOOSE j \in Hits(name) : TRUE].line
  BY DEF ValueOf, Hits
<1>7. i \in Nat /\ n \in Nat /\ n >= 1 /\ Len(headers) \in Nat
  BY <1>1, <1>2
<1>8. \A j \in 1..Len(headers) : headers[j].line \in Nat
  BY <1>1
<1>9. CASE n < i
  <2>1. PICK j \in 1..Len(headers) : headers[j].line = n
    <3>1. n \in 1..(i - 1)
      BY <1>9, <1>7
    <3> QED
      BY <1>2, <3>1 DEF Inv, Copied
  <2>2. Cardinality(KeptBefore(n)) = j - 1 /\ headers[j].name = name
    BY <1>3, <2>1 DEF Titled
  <2>3. \A k \in 1..Len(headers) : k < j <=> headers[k].line < n
    <3> SUFFICES ASSUME NEW k \in 1..Len(headers) PROVE k < j <=> headers[k].line < n
      OBVIOUS
    <3>1. k \in Nat /\ j \in Nat /\ headers[k].line \in Nat /\ n \in Nat
      BY <1>7, <1>8
    <3>2. (k < j => headers[k].line < headers[j].line) /\ (j < k => headers[j].line < headers[k].line)
      BY DEF Inv, Copied
    <3> QED
      BY <2>1, <3>1, <3>2
  <2>4. \A k \in Hits(name) : k = j
    <3> SUFFICES ASSUME NEW k \in Hits(name), k # j PROVE FALSE
      OBVIOUS
    <3>1. /\ k \in 1..Len(headers) /\ headers[k].name = name /\ k \in Nat /\ j \in Nat
          /\ \A l \in 1..(k - 1) : headers[l].name # name
      <4>1. /\ k \in 1..Len(headers) /\ headers[k].name = name
            /\ \A l \in 1..(k - 1) : headers[l].name # name
        BY DEF Hits
      <4> QED
        BY <1>7, <4>1
    <3>2. ~(k < j)
      <4>1. n <= headers[k].line /\ n \in Nat /\ headers[k].line \in Nat
        BY <1>1, <1>2, <1>4, <3>1
      <4> QED
        BY <2>3, <3>1, <4>1
    <3>3. j \notin 1..(k - 1)
      BY <2>2, <3>1
    <3> QED
      BY <1>1, <3>1, <3>2, <3>3
  <2>5. CASE Seen(n)
    <3>1. \A k \in 1..(j - 1) : headers[k].name \notin {"", name}
      <4> SUFFICES ASSUME NEW k \in 1..(j - 1) PROVE headers[k].name \notin {"", name}
        OBVIOUS
      <4>1. k \in 1..Len(headers) /\ headers[k].line < n
        BY <1>1, <2>3
      <4>2. r.lines[headers[k].line].name # "" /\ r.lines[headers[k].line].name # NoColon
        BY <1>3, <1>5, <2>5, <4>1 DEF Kept, Seen
      <4>3. headers[k].name # ""
        BY <1>1, <1>3, <4>1, <4>2, LowerNames
      <4>4. headers[k].name # name
        BY <1>1, <1>4, <4>1
      <4> QED
        BY <4>3, <4>4
    <3>2. j \in Hits(name)
      <4>1. j <= Window
        <5>1. Cardinality(KeptBefore(n)) < 8
          BY <2>5 DEF Seen
        <5> QED
          BY <1>7, <2>2, <5>1 DEF Window
      <4> QED
        BY <2>2, <3>1, <4>1 DEF Hits
    <3>3. Hits(name) = {j}
      BY <2>4, <3>2
    <3> QED
      BY <1>6, <2>1, <2>5, <3>3
  <2>6. CASE ~Seen(n)
    <3>1. j \notin Hits(name)
      <4> SUFFICES ASSUME j \in Hits(name) PROVE FALSE
        OBVIOUS
      <4>1. PICK m \in KeptBefore(n) : r.lines[m].name = ""
        <5>1. Cardinality(KeptBefore(n)) < 8
          <6>1. j <= 8
            BY DEF Hits, Window
          <6> QED
            BY <1>7, <2>2, <6>1
        <5> QED
          BY <2>6, <5>1 DEF Seen
      <4>2. m \in 1..(n - 1) /\ Kept(m)
        BY <4>1 DEF KeptBefore
      <4>3. PICK k \in 1..Len(headers) : headers[k].line = m
        BY <1>1, <1>9, <4>2 DEF Inv, Copied
      <4>4. headers[k].name = ""
        BY <1>3, <4>1, <4>3, LowerNames
      <4>5. k \in 1..(j - 1)
        BY <1>1, <2>3, <4>2, <4>3
      <4> QED
        BY <4>4, <4>5 DEF Hits
    <3>2. Hits(name) = {}
      BY <2>4, <3>1
    <3> QED
      BY <1>6, <2>6, <3>2
  <2> QED
    BY <2>5, <2>6
<1>10. CASE n >= i
  <2>1. Len(headers) >= 24
    BY <1>1, <1>10, MaxhIs DEF Inv, Stages
  <2>2. Cardinality(KeptBefore(n)) >= 24 /\ Cardinality(KeptBefore(n)) \in Nat
    <3>1. Cardinality(KeptBefore(i)) <= Cardinality(KeptBefore(n))
      BY <1>1, <1>10, MoreBefore
    <3> QED
      BY <1>1, <2>1, <3>1, BeforeNext DEF Inv, Copied
  <2>3. Hits(name) = {}
    <3> SUFFICES ASSUME NEW k \in Hits(name) PROVE FALSE
      OBVIOUS
    <3>1. k \in 1..Len(headers) /\ headers[k].name = name
      BY DEF Hits
    <3>2. n <= headers[k].line /\ headers[k].line < i /\ headers[k].line \in Nat
      BY <1>1, <1>3, <1>4, <3>1
    <3> QED
      BY <1>10, <1>7, <3>2
  <2> QED
    <3>1. ~Seen(n)
      <4>1. Seen(n) => Cardinality(KeptBefore(n)) < 8
        BY DEF Seen
      <4> QED
        BY <2>2, <4>1
    <3> QED
      BY <1>6, <2>3, <3>1
<1> QED
  BY <1>1, <1>9, <1>10

LEMMA CopiedStays ==
  ASSUME Copied, UNCHANGED <<r, i, headers>>
  PROVE  Copied'
  BY DEF Copied, Kept, KeptBefore

HeadRead ==
  pc \notin {"scan", "lookup", "fault"} /\ r.to = "get_all" =>
    \A name \in Wanted("get_all") : \A n \in 1..Lines :
      Titled(n, name) /\ (\A m \in 1..(n - 1) : ~Titled(m, name)) =>
        value[name] = IF Seen(n) THEN n ELSE 0

LEMMA LinesStay ==
  ASSUME r' = r
  PROVE  /\ Lines' = Lines
         /\ \A n, name : Titled(n, name)' = Titled(n, name)
         /\ \A n : Seen(n)' = Seen(n)
<1>1. \A n : KeptBefore(n)' = KeptBefore(n)
  BY DEF KeptBefore, Kept
<1> QED
  BY <1>1 DEF Lines, Titled, Seen

LEMMA LookupInv == Inv /\ Lookup => Inv' /\ HeadRead'
<1> SUFFICES ASSUME Inv, Lookup PROVE Inv' /\ HeadRead'
  OBVIOUS
<1>1. /\ pc = "lookup" /\ pc' \in {"hawk", "done"} /\ r' = r
      /\ UNCHANGED <<i, headers, p, taken>>
      /\ status' = 0 \/ (status' = 400 /\ pc' = "done")
      /\ pc' = "hawk" => r.to = "get_all" /\ value'["authorization"] # 0
  BY DEF Lookup, Inv, Stages
<1>2. value' = [n \in Wanted(r.to) |-> ValueOf(n)]
  BY DEF Lookup
<1>3. Types'
  <2>1. value' \in [Wanted(r.to) -> Nat]
    BY <1>2, ValueTypes DEF Inv
  <2> QED
    BY <1>1, <2>1 DEF Inv, Types, Lines
<1>4. Copied'
  BY <1>1, CopiedStays DEF Inv
<1>5. Stages'
  BY <1>1 DEF Inv, Stages, Keys
<1>6. Ordered'
  BY <1>1, NothingTaken DEF Inv, Keys
<1>7. HeadRead'
  <2>1. ASSUME r.to = "get_all", NEW name \in Wanted("get_all"), NEW n \in 1..Lines,
               Titled(n, name), \A m \in 1..(n - 1) : ~Titled(m, name)
        PROVE  value'[name] = IF Seen(n) THEN n ELSE 0
    BY <1>1, <1>2, <2>1, FirstIsFound
  <2> QED
    BY <1>1, <2>1, LinesStay DEF HeadRead
<1> QED
  BY <1>3, <1>4, <1>5, <1>6, <1>7 DEF Inv

\* What follows leaves the headers and their values alone.
LEMMA HeadStays ==
  ASSUME HeadRead, pc \in {"hawk"} \cup Keys, UNCHANGED <<r, value>>
  PROVE  HeadRead'
<1>1. pc \notin {"scan", "lookup", "fault"}
  BY DEF Keys
<1> QED
  BY <1>1, LinesStay DEF HeadRead

-----------------------------------------------------------------------------
(* The artifacts.                                                          *)

\* Laying out is about the request alone.
LEMMA PiecesStay ==
  ASSUME r' = r
  PROVE  /\ Ways' = Ways /\ \A w : LaidOut(w)' = LaidOut(w)
         /\ \A w, n : Place(w, n)' = Place(w, n)
         /\ UNCHANGED <<p, taken>> => \A w, n : Along(w, n)' = Along(w, n)
<1>1. Ways' = Ways /\ \A w, n : Place(w, n)' = Place(w, n)
  BY DEF Ways, Place
<1>2. \A w : LaidOut(w)' = LaidOut(w)
  BY DEF LaidOut, IsAttribute, Occurs
<1> QED
  BY <1>1, <1>2 DEF Along, Place

LEMMA ArtifactsInv == Inv /\ HeadRead /\ hawk_parse_artifacts => Inv' /\ HeadRead'
<1> SUFFICES ASSUME Inv, HeadRead, hawk_parse_artifacts PROVE Inv' /\ HeadRead'
  OBVIOUS
<1>1. /\ pc = "hawk" /\ UNCHANGED <<r, i, headers, value, p, taken>> /\ status = 0
      /\ \/ r.scheme = "Other" /\ pc' = "done"
         \/ r.scheme = "bare Hawk" /\ pc' = "done"
         \/ r.scheme = "bare Hawk" /\ pc' = "fault" /\ status' = status
         \/ r.scheme = "Hawk" /\ pc' = "id" /\ status' = status
  BY DEF hawk_parse_artifacts, Inv, Stages
<1>2. Types'
  BY <1>1 DEF Inv, Types, Keys, Lines
<1>3. Stages'
  BY <1>1 DEF Inv, Stages, Keys
<1>4. Ordered'
  <2>1. CASE pc' # "id"
    BY <1>1, <2>1, NothingTaken DEF Inv, Keys
  <2>2. CASE pc' = "id"
    <3>1. p' = 1 /\ \A k \in Keys : taken'[k] = Nothing
      BY <1>1 DEF Inv, Ordered
    <3>2. \A n \in 1..5 : KeyOrder[n] = "id" => n = 1
      BY Order
    <3>3. \A w : Before(w, 1) = 0
      BY DEF Before
    <3>4. \A w \in Ways : Along(w, 1)'
      BY <3>1, <3>3, Order DEF Along, Before
    <3> QED
      BY <1>1, <2>2, <3>1, <3>2, <3>4, PiecesStay DEF Ordered
  <2> QED
    BY <2>1, <2>2
<1> QED
  BY <1>1, <1>2, <1>3, <1>4, HeadStays, CopiedStays DEF Inv

\* What is found there has a first.
LEMMA Smallest ==
  ASSUME NEW S \in SUBSET Nat, S # {}
  PROVE  \E m \in S : \A n \in S : m <= n
<1>1. PICK m \in S : \A n \in S : ~(<<n, m>> \in OpToRel(<, Nat))
  BY NatLessThanWellFounded, WFMin
<1>2. \A n \in S : ~(n < m)
  BY <1>1 DEF OpToRel
<1> QED
  BY <1>2

\* The last attribute in front of the n-th is there.
LEMMA BeforeIs ==
  ASSUME Types, NEW w \in Ways, NEW n \in 1..6
  PROVE  /\ Before(w, n) \in {0} \cup {w[m] : m \in 1..(n - 1)}
         /\ \A m \in 1..(n - 1) : w[m] <= Before(w, n)
         /\ Before(w, n) \in 0..Len(r.pieces)
<1> DEFINE N == Len(r.pieces)
           B == {0} \cup {w[m] : m \in 1..(n - 1)}
           U == {N - b : b \in B}
<1>1. N \in Nat
  BY RequestTypes
<1>2. \A b \in B : b \in 0..N
  BY <1>1 DEF Ways
<1> HIDE DEF N
<1>3. U \subseteq Nat /\ U # {}
  BY <1>1, <1>2
<1>4. PICK u \in U : \A v \in U : u <= v
  BY <1>3, Smallest
<1>5. PICK b \in B : u = N - b
  BY <1>4
<1>6. \A c \in B : c <= b
  <2> SUFFICES ASSUME NEW c \in B PROVE c <= b
    OBVIOUS
  <2>1. N - c \in U
    OBVIOUS
  <2>2. N - b <= N - c
    BY <1>4, <1>5, <2>1
  <2> HIDE DEF B
  <2> QED
    BY <1>1, <1>2, <2>2
<1>7. \E x \in B : \A m \in 1..(n - 1) : w[m] <= x
  BY <1>6
<1>8. Before(w, n) \in B /\ \A m \in 1..(n - 1) : w[m] <= Before(w, n)
  BY <1>7 DEF Before
<1> QED
  BY <1>2, <1>8 DEF N

LEMMA BeforeStep ==
  ASSUME Types, NEW w \in Ways, LaidOut(w), NEW n \in 1..5
  PROVE  Before(w, n + 1) = IF w[n] = 0 THEN Before(w, n) ELSE w[n]
<1> DEFINE b == Before(w, n)
           c == Before(w, n + 1)
<1>1. /\ b \in {0} \cup {w[m] : m \in 1..(n - 1)}
      /\ \A m \in 1..(n - 1) : w[m] <= b
      /\ b \in Nat
  <2>1. n \in 1..6
    OBVIOUS
  <2>2. b \in {0} \cup {w[m] : m \in 1..(n - 1)} /\ \A m \in 1..(n - 1) : w[m] <= b
    BY <2>1, BeforeIs
  <2>3. b \in 0..Len(r.pieces)
    BY <2>1, BeforeIs
  <2>4. b \in Nat
    BY <2>3, RequestTypes
  <2> QED
    BY <2>2, <2>4
<1>2. /\ c \in {0} \cup {w[m] : m \in 1..n}
      /\ \A m \in 1..n : w[m] <= c
      /\ c \in Nat
  <2>1. n + 1 \in 1..6 /\ (n + 1) - 1 = n
    OBVIOUS
  <2>2. c \in {0} \cup {w[m] : m \in 1..(n)} /\ \A m \in 1..(n) : w[m] <= c
    BY <2>1, BeforeIs
  <2>3. c \in 0..Len(r.pieces)
    BY <2>1, BeforeIs
  <2>4. c \in Nat
    BY <2>3, RequestTypes
  <2> QED
    BY <2>2, <2>4
<1>3. w[n] # 0 => w[n] > b
  BY DEF LaidOut
<1>4. \A m \in 1..n : w[m] \in Nat
  BY RequestTypes DEF Ways
<1>5. \A m \in 1..n : m = n \/ m \in 1..(n - 1)
  OBVIOUS
<1>6. \A m \in 1..(n - 1) : m \in 1..n
  OBVIOUS
<1> HIDE DEF b, c
<1>7. CASE w[n] = 0
  <2>1. c <= b
    BY <1>1, <1>2, <1>4, <1>5, <1>7
  <2>2. b <= c
    BY <1>1, <1>2, <1>6
  <2> QED
    BY <1>1, <1>2, <1>7, <2>1, <2>2 DEF b, c
<1>8. CASE w[n] # 0
  <2>1. w[n] <= c
    BY <1>2
  <2>2. c <= w[n]
    BY <1>1, <1>2, <1>3, <1>4, <1>5, <1>8
  <2> QED
    BY <1>2, <1>4, <1>8, <2>1, <2>2 DEF b, c
<1> QED
  BY <1>7, <1>8

LEMMA LeastIs ==
  ASSUME NEW S \in SUBSET Nat, S # {}
  PROVE  Least(S) \in S /\ \A m \in S : Least(S) <= m
  BY Smallest DEF Least

LEMMA LeastOf ==
  ASSUME NEW S \in SUBSET Nat, NEW n \in S, \A m \in S : n <= m
  PROVE  Least(S) = n
<1>1. Least(S) \in S /\ \A m \in S : Least(S) <= m
  BY LeastIs
<1>2. Least(S) <= n /\ n <= Least(S) /\ Least(S) \in Nat /\ n \in Nat
  BY <1>1
<1> QED
  BY <1>2

\* Where an artifact is found.
LEMMA ArtifactTypes ==
  ASSUME Types, NEW k \in Keys, NEW j \in 1..Len(r.pieces), Occurs(k, j)
  PROVE  /\ ArtifactIn(k, j) \in Spot
         /\ IsAttribute(k, j) =>
              ArtifactIn(k, j) = [piece |-> j, from |-> 3, to |-> Len(r.pieces[j]) - 1]
<1> DEFINE piece == r.pieces[j]
           S == {n \in DOMAIN piece : piece[n] = k}
           at == Least(S)
<1>1. Len(piece) \in Nat /\ DOMAIN piece = 1..Len(piece)
  BY RequestTypes
<1>2. S # {} /\ S \in SUBSET Nat
  BY <1>1 DEF Occurs
<1>3. at \in 1..Len(piece)
  BY <1>1, <1>2, LeastIs
<1>4. ArtifactIn(k, j) = IF at < Len(piece) /\ piece[at + 1] = Quote
                         THEN [piece |-> j, from |-> at + 2, to |-> Len(piece) - 1]
                         ELSE [piece |-> j, from |-> at + 1, to |-> Len(piece)]
  BY DEF ArtifactIn
<1>5. ArtifactIn(k, j) \in Spot
  <2> HIDE DEF at, piece
  <2>1. j \in Nat /\ at \in Nat /\ at >= 1 /\ at <= Len(piece)
    BY <1>1, <1>3, RequestTypes
  <2>2. CASE at < Len(piece) /\ piece[at + 1] = Quote
    <3>1. Len(piece) - 1 \in Nat /\ at + 2 \in Nat
      BY <1>1, <2>1
    <3> QED
      BY <1>4, <2>1, <2>2, <3>1 DEF Spot
  <2>3. CASE ~(at < Len(piece) /\ piece[at + 1] = Quote)
    <3>1. at + 1 \in Nat
      BY <2>1
    <3> QED
      BY <1>1, <1>4, <2>1, <2>3, <3>1 DEF Spot
  <2> QED
    BY <2>2, <2>3
<1>6. ASSUME IsAttribute(k, j)
      PROVE  ArtifactIn(k, j) = [piece |-> j, from |-> 3, to |-> Len(piece) - 1]
  <2>1. Len(piece) >= 3 /\ piece[1] = k /\ piece[2] = Quote
    BY <1>6 DEF IsAttribute
  <2>2. 1 \in S /\ \A m \in S : 1 <= m
    BY <1>1, <2>1
  <2>3. at = 1
    BY <1>2, <2>2, LeastOf
  <2> HIDE DEF at, piece
  <2> QED
    BY <1>1, <1>4, <2>1, <2>3
<1> QED
  BY <1>5, <1>6

\* One search, of any value.
LEMMA TokenTypes ==
  ASSUME Types, NEW k \in Keys, hawk_parse_token(k)
  PROVE  p' \in Nat /\ taken' \in [Keys -> Spot]
<1> DEFINE hits == {j \in DOMAIN r.pieces : j >= p /\ Occurs(k, j)}
<1>1. p \in Nat /\ taken \in [Keys -> Spot]
  BY DEF Types
<1>2. CASE hits = {}
  BY <1>1, <1>2 DEF hawk_parse_token
<1>3. CASE hits # {}
  <2>1. hits \in SUBSET Nat /\ hits \subseteq 1..Len(r.pieces)
    BY RequestTypes
  <2>2. Least(hits) \in hits
    BY <1>3, <2>1, LeastIs
  <2>3. ArtifactIn(k, Least(hits)) \in Spot
    BY <2>1, <2>2, ArtifactTypes
  <2>4. taken' = [taken EXCEPT ![k] = ArtifactIn(k, Least(hits))] /\ p' = Least(hits) + 1
    BY <1>3 DEF hawk_parse_token
  <2> QED
    BY <1>1, <2>1, <2>2, <2>3, <2>4
<1> QED
  BY <1>2, <1>3

\* One search, of a value that is laid out.
LEMMA TokenAlong ==
  ASSUME Types, NEW n \in 1..5, NEW w \in Ways, LaidOut(w), Along(w, n),
         hawk_parse_token(KeyOrder[n])
  PROVE  Along(w, n + 1)'
<1> DEFINE k == KeyOrder[n]
           b == Before(w, n)
           hits == {j \in DOMAIN r.pieces : j >= p /\ Occurs(k, j)}
<1>1. /\ k \in Keys /\ r' = r /\ taken \in [Keys -> Spot]
      /\ p = b + 1 /\ b \in Nat /\ w[n] \in 0..Len(r.pieces) /\ Len(r.pieces) \in Nat
      /\ DOMAIN r.pieces = 1..Len(r.pieces)
  <2>1. k \in Keys /\ n \in 1..6
    BY Order
  <2>2. b \in 0..Len(r.pieces) /\ Len(r.pieces) \in Nat /\ DOMAIN r.pieces = 1..Len(r.pieces)
    BY <2>1, BeforeIs, RequestTypes
  <2>3. r' = r
    BY DEF hawk_parse_token
  <2> QED
    BY <2>1, <2>2, <2>3 DEF Types, Along, Ways
<1>2. \A m \in 1..5 : taken[KeyOrder[m]] = IF m < n THEN Place(w, m) ELSE Nothing
  BY DEF Along
<1>3. \A m : Place(w, m)' = Place(w, m)
  BY <1>1, PiecesStay
<1>4. Before(w, n + 1) = IF w[n] = 0 THEN b ELSE w[n]
  BY BeforeStep
<1>5. \A m \in 1..5 : m < n + 1 <=> m < n \/ m = n
  OBVIOUS
<1>6. CASE w[n] = 0
  <2>1. \A j \in DOMAIN r.pieces : j > b => ~Occurs(k, j)
    BY <1>6 DEF LaidOut
  <2>2. hits = {}
    BY <1>1, <2>1
  <2>3. taken' = taken /\ p' = p
    BY <2>2 DEF hawk_parse_token
  <2>4. Place(w, n) = Nothing
    BY <1>6 DEF Place
  <2>5. \A m \in 1..5 : taken'[KeyOrder[m]] = IF m < n + 1 THEN Place(w, m) ELSE Nothing
    BY <1>2, <1>5, <2>3, <2>4
  <2> QED
    BY <1>1, <1>3, <1>4, <1>6, <2>3, <2>5 DEF Along
<1>7. CASE w[n] # 0
  <2>1. /\ IsAttribute(k, w[n]) /\ w[n] > b
        /\ \A j \in (b + 1)..(w[n] - 1) : ~Occurs(k, j)
    BY <1>7 DEF LaidOut
  <2>2. w[n] \in 1..Len(r.pieces)
    BY <1>1, <1>7
  <2>3. Occurs(k, w[n])
    BY <2>1, <2>2, RequestTypes DEF IsAttribute, Occurs
  <2> HIDE DEF b, k
  <2>4. w[n] \in hits /\ hits \in SUBSET Nat
    BY <1>1, <2>1, <2>2, <2>3
  <2>5. \A j \in hits : w[n] <= j
    BY <1>1, <2>1, <2>2
  <2>6. Least(hits) = w[n]
    BY <2>4, <2>5, LeastOf
  <2>7. ArtifactIn(k, w[n]) = [piece |-> w[n], from |-> 3, to |-> Len(r.pieces[w[n]]) - 1]
    BY <1>1, <2>1, <2>2, <2>3, ArtifactTypes
  <2>8. taken' = [taken EXCEPT ![k] = ArtifactIn(k, w[n])] /\ p' = w[n] + 1
    BY <2>4, <2>6 DEF hawk_parse_token, k
  <2>9. taken'[k] = Place(w, n)
    BY <1>1, <1>7, <2>7, <2>8 DEF Place
  <2>10. \A m \in 1..5 : m # n => taken'[KeyOrder[m]] = taken[KeyOrder[m]]
    BY <1>1, <2>8, Order DEF k
  <2>11. \A m \in 1..5 : taken'[KeyOrder[m]] = IF m < n + 1 THEN Place(w, m) ELSE Nothing
    BY <1>2, <1>5, <2>9, <2>10 DEF k
  <2> QED
    BY <1>1, <1>3, <1>4, <1>7, <2>8, <2>11 DEF Along
<1> QED
  BY <1>6, <1>7

LEMMA TokenInv ==
  ASSUME Inv, HeadRead, NEW k \in Keys, hawk_parse_token(k)
  PROVE  Inv' /\ HeadRead'
<1>1. /\ pc = k /\ pc' = NextOf(k) /\ UNCHANGED <<r, i, headers, value>>
      /\ status = 0 /\ status' = IF k = "mac" THEN 200 ELSE 0
      /\ r.to = "get_all" /\ value["authorization"] # 0 /\ r.scheme = "Hawk"
  BY DEF hawk_parse_token, Inv, Stages, Keys
<1>2. (k = "mac" /\ pc' = "done") \/ (k # "mac" /\ pc' \in Keys)
  BY <1>1, Order DEF Keys
<1>3. PICK n \in 1..5 : k = KeyOrder[n]
  BY Order
<1>4. n = 5 \/ (n \in 1..4 /\ pc' = KeyOrder[n + 1])
  BY <1>1, <1>3, Order
<1>5. \A w \in Ways : LaidOut(w) => Along(w, n + 1)'
  BY <1>1, <1>3, TokenAlong DEF Inv, Ordered
<1>6. Types'
  BY <1>1, <1>2, TokenTypes DEF Inv, Types, Lines
<1>7. Stages'
  BY <1>1, <1>2 DEF Stages, Keys
<1>8. Ordered'
  <2>1. \A w \in Ways' : LaidOut(w)' => Along(w, n + 1)'
    BY <1>1, <1>5, PiecesStay
  <2>2. pc' \notin {"scan", "lookup", "hawk"}
    BY <1>2 DEF Keys
  <2>3. CASE n = 5
    <3>1. pc' = "done" /\ n + 1 = 6 /\ \A m \in 1..5 : KeyOrder[m] # "done"
      BY <1>1, <1>3, <2>3, Order DEF Keys
    <3> QED
      BY <2>1, <3>1 DEF Ordered
  <2>4. CASE n \in 1..4
    <3>1. pc' = KeyOrder[n + 1] /\ pc' # "done"
      BY <1>3, <1>4, <2>4, Order DEF Keys
    <3>2. \A m \in 1..5 : pc' = KeyOrder[m] => m = n + 1
      <4>1. n + 1 \in 1..5
        BY <2>4
      <4> QED
        BY <3>1, <4>1, Order
    <3> QED
      BY <2>1, <2>2, <3>1, <3>2 DEF Ordered
  <2> QED
    BY <2>3, <2>4
<1> QED
  BY <1>1, <1>6, <1>7, <1>8, HeadStays, CopiedStays DEF Inv

-----------------------------------------------------------------------------
(* A line without a colon, with one behind it.                             *)
LEMMA FaultInv ==
  ASSUME Inv, BadLength
  PROVE  Inv' /\ HeadRead' /\ FaultsAreTwo'
<1>1. pc = "scan" /\ pc' = "fault" /\ UNCHANGED <<r, i, headers, value, p, taken, status>>
  BY DEF BadLength
<1>2. Types' /\ Copied'
  BY <1>1, CopiedStays DEF Inv, Types, Lines
<1>3. Stages' /\ Ordered' /\ HeadRead'
  BY <1>1, NothingTaken DEF Inv, Stages, Keys, HeadRead
<1>4. FaultsAreTwo'
  <2>1. r' = r /\ Lines' = Lines /\ Maxh' = Maxh
    BY <1>1 DEF Lines, Maxh
  <2> QED
    BY <1>1, <2>1, FaultIsLine DEF Inv, FaultsAreTwo, KeptBefore, Kept
<1> QED
  BY <1>2, <1>3, <1>4 DEF Inv

All == Inv /\ HeadRead /\ FaultsAreTwo

LEMMA StepAll == All /\ [Next]_vars => All'
<1> SUFFICES ASSUME All, [Next]_vars PROVE All'
  OBVIOUS
<1> USE DEF All
<1>1. CASE SkipLine
  <2>1. pc' = "scan"
    BY <1>1 DEF SkipLine
  <2> QED
    BY <1>1, <2>1, SkipInv DEF HeadRead, FaultsAreTwo
<1>2. CASE BadLength
  BY <1>2, FaultInv
<1>3. CASE KeepHeader
  <2>1. pc' \in {"scan", "lookup"}
    BY <1>3 DEF KeepHeader
  <2> QED
    BY <1>3, <2>1, KeepInv DEF HeadRead, FaultsAreTwo
<1>4. CASE ScanEnd
  <2>1. pc = "scan" /\ pc' = "lookup" /\ i > Lines /\ UNCHANGED <<r, i, headers, value, p, taken, status>>
    BY <1>4 DEF ScanEnd
  <2>2. Types' /\ Copied'
    BY <2>1, CopiedStays DEF Inv, Types, Lines
  <2>3. Stages' /\ Ordered'
    BY <2>1, NothingTaken DEF Inv, Stages, Keys, Lines
  <2> QED
    BY <2>1, <2>2, <2>3 DEF Inv, HeadRead, FaultsAreTwo
<1>5. CASE Lookup
  <2>1. pc' # "fault"
    BY <1>5 DEF Lookup
  <2> QED
    BY <1>5, <2>1, LookupInv DEF FaultsAreTwo
<1>6. CASE hawk_parse_artifacts
  <2>1. pc' = "fault" => r'.scheme = "bare Hawk" /\ value'["authorization"] # 0
    BY <1>6 DEF hawk_parse_artifacts, Inv, Stages
  <2> QED
    BY <1>6, <2>1, ArtifactsInv DEF FaultsAreTwo
<1>7. ASSUME NEW k \in Keys, hawk_parse_token(k) PROVE All'
  <2>1. pc' # "fault"
    BY <1>7, Order DEF hawk_parse_token, Keys
  <2> QED
    BY <1>7, <2>1, TokenInv DEF FaultsAreTwo
<1>8. CASE UNCHANGED vars
  <2>1. Types' /\ Copied'
    BY <1>8, CopiedStays DEF vars, Inv, Types, Lines
  <2>2. Stages'
    BY <1>8 DEF vars, Inv, Stages, Maxh, Lines
  <2>4. Ordered'
    <3>1. /\ Ways' = Ways /\ \A w : LaidOut(w)' = LaidOut(w)
          /\ \A w, n : Along(w, n)' = Along(w, n)
      BY <1>8, PiecesStay DEF vars
    <3> QED
      BY <1>8, <3>1 DEF vars, Inv, Ordered
  <2>3. HeadRead' /\ FaultsAreTwo'
    BY <1>8, LinesStay DEF vars, HeadRead, FaultsAreTwo, Lines, Maxh
  <2> QED
    BY <2>1, <2>2, <2>3, <2>4 DEF Inv
<1> QED
  BY <1>1, <1>2, <1>3, <1>4, <1>5, <1>6, <1>7, <1>8 DEF Next, Answered

(* The inductive invariant holds in every state (utils.c:280-338,           *)
(* hawk.c:83-141, session.c:147-158).                                      *)
THEOREM Invariance == Spec => []All
<1>1. Init => All
  <2>1. Init => pc = "scan"
    BY DEF Init
  <2> QED
    BY <2>1, InitInv DEF All, HeadRead, FaultsAreTwo
<1> QED
  BY <1>1, StepAll, PTL DEF Spec

(* However many headers there are, reading them goes wrong in two cases    *)
(* only: a line without a colon, head or entity, that one follows, and the *)
(* bare word Hawk (utils.c:286-312, hawk.c:125).                           *)
THEOREM FaultsAreOnlyTwo == Spec => []FaultsAreTwo
  BY Invariance, PTL DEF All

(* A name looked up gets the first header of that name that the client     *)
(* sent, and exactly if fewer than eight come before it, none of them      *)
(* without a name (utils.c:297, 323-338).                                  *)
THEOREM HeadersAreRead == Spec => []HeadIsRead
<1>1. HeadRead => HeadIsRead
  BY DEF HeadRead, HeadIsRead, Titled, Seen, KeptBefore, Kept
<1> QED
  BY <1>1, Invariance, PTL DEF All

(* However the keys' texts may turn up in values, the artifacts are those  *)
(* of the attributes if the value is laid out in the order of the example  *)
(* and no search meets its text on the way (hawk.c:83-141).                *)
THEOREM ArtifactsAreFound == Spec => []ArtifactsAreTheirs
<1>1. All => ArtifactsAreTheirs
  <2> SUFFICES ASSUME All, pc = "done", status = 200, r.scheme = "Hawk", NEW w \in Ways,
                      LaidOut(w), NEW n \in 1..5
               PROVE  taken[KeyOrder[n]] = Place(w, n)
    BY DEF ArtifactsAreTheirs, Ways, Place
  <2>1. Along(w, 6)
    BY DEF All, Inv, Ordered
  <2> QED
    BY <2>1 DEF Along
<1> QED
  BY <1>1, Invariance, PTL
=============================================================================
