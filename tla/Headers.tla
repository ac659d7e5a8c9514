------------------------------ MODULE Headers -------------------------------
(***************************************************************************)
(* How a request's header lines are read (get_headers and get_header_value *)
(* of libraries/postrest/utils.c), by session_login for the client's       *)
(* address and by get_all of csp/oauth.c and csp/hawk.c for the            *)
(* Authorization header, which is then taken apart.  (The two servlets     *)
(* hold the same functions; a definition is mapped to one of them.)        *)
(*                                                                         *)
(* A request is its lines that end in CRLF, and what is left after them.   *)
(* The blank line after the headers is not an end to get_headers: it is    *)
(* read as the beginning of the line that follows, the entity's first.     *)
(***************************************************************************)
EXTENDS Integers, Sequences, FiniteSets

CONSTANTS Requests,    \* the requests clients send
          NoColon      \* in place of the name, a line without a colon

(* A line has the name before its colon; ended says that a NUL follows     *)
(* (the server ends the path of the request line in place), long that it   *)
(* has two characters or more.  A line of the head without a colon is the  *)
(* request line, or a stray one: a header that goes on, say.               *)
Sent == {"Authorization", "Host", "X-Port", "X-Forwarded-For", "Other", "", "\r\nOther"}
Line == [name : Sent \cup {NoColon}, ended : BOOLEAN, long : BOOLEAN]

(* The value of Authorization, as far as it is kept: its scheme, and the    *)
(* pieces between the commas of the rest, without the blanks in front.  In  *)
(* a piece the text `key=` is one symbol wherever it stands, a quote is    *)
(* another, and "x" is any other character.                                *)
Schemes == {"Hawk", "bare Hawk", "Other"}
Keys    == {"id", "ts", "nonce", "ext", "mac"}
Quote   == "\""
Piece   == Seq(Keys \cup {Quote, "x"})
Request == [to : {"login", "get_all"}, lines : Seq(Line), rest : BOOLEAN,
            scheme : Schemes, pieces : Seq(Piece)]

ASSUME RequestsAssumption == Requests \subseteq Request

ASSUME NoColonAssumption ==
  NoColon \notin Sent \cup {"authorization", "host", "x-port", "x-forwarded-for"}

VARIABLES
  r,         \* the request
  pc,
  i,         \* get_headers: the line it is at
  headers,   \* get_headers: name and line of each header kept
  value,     \* per name looked up, the line that gave its value, or 0
  p,         \* hawk_parse_token: the piece it searches from; null behind the last
  taken,     \* per key, where the artifact taken for it is, Nothing for null
  status

vars == <<r, pc, i, headers, value, p, taken, status>>

Wanted(to) == IF to = "login" THEN {"X-Forwarded-For"} ELSE {"x-port", "host", "authorization"}
Window == 8                                            \* sizeof a pointer
Maxh   == IF r.to = "login" THEN 16 ELSE 24
KeyOrder == <<"id", "ts", "nonce", "ext", "mac">>
Nothing  == [piece |-> 0, from |-> 0, to |-> 0]

Init ==
  /\ r \in Requests
  /\ pc = "scan" /\ i = 1 /\ headers = <<>>
  /\ value = [n \in Wanted(r.to) |-> 0]
  /\ p = 1 /\ taken = [k \in Keys |-> Nothing] /\ status = 0

-----------------------------------------------------------------------------
(* get_headers.                                                            *)

Lines == Len(r.lines)

\* Mutant: hlen >= 0.
LookedAtAll(n) == TRUE

\* hlen > 0
LookedAt(n) == r.lines[n].long

\* strchr finds a colon from line n on, in the line or behind it.
Colon(n) ==
  \/ r.rest /\ \A j \in n..Lines : ~r.lines[j].ended
  \/ \E j \in n..Lines :
       r.lines[j].name # NoColon /\ \A k \in n..(j - 1) : ~r.lines[k].ended

stringToLowercase(name) ==
  CASE name = "Authorization" -> "authorization" [] name = "Host" -> "host"
    [] name = "X-Port" -> "x-port" [] name = "X-Forwarded-For" -> "x-forwarded-for"
    [] OTHER -> name

SkipLine ==
  /\ pc = "scan" /\ i <= Lines
  /\ ~LookedAt(i) \/ ~Colon(i)
  /\ i' = i + 1
  /\ UNCHANGED <<r, pc, headers, value, p, taken, status>>

\* The colon is behind the line: the value's length is negative.
BadLength ==
  /\ pc = "scan" /\ i <= Lines
  /\ LookedAt(i) /\ r.lines[i].name = NoColon /\ Colon(i)
  /\ pc' = "fault"
  /\ UNCHANGED <<r, i, headers, value, p, taken, status>>

KeepHeader ==
  /\ pc = "scan" /\ i <= Lines
  /\ LookedAt(i) /\ r.lines[i].name # NoColon
  /\ headers' = Append(headers, [name |-> stringToLowercase(r.lines[i].name), line |-> i])
  /\ i' = i + 1
  /\ pc' = IF Len(headers') >= Maxh THEN "lookup" ELSE "scan"
  /\ UNCHANGED <<r, value, p, taken, status>>

ScanEnd ==
  /\ pc = "scan" /\ i > Lines
  /\ pc' = "lookup"
  /\ UNCHANGED <<r, i, headers, value, p, taken, status>>

-----------------------------------------------------------------------------
(* get_header_value, for each name wanted.                                 *)

\* Mutant: the last header of the name is taken.
ValueOfLast(name) ==
  LET hits == {j \in 1..Len(headers) : headers[j].name = name}
  IN  IF hits = {} THEN 0 ELSE headers[CHOOSE j \in hits : \A k \in hits : k <= j].line

\* The first of the name, before a header without a name and in the window.
ValueOf(name) ==
  LET hits == {j \in 1..Len(headers) :
                 /\ j <= Window /\ headers[j].name = name
                 /\ \A k \in 1..(j - 1) : headers[k].name \notin {"", name}}
  IN  IF hits = {} THEN 0 ELSE headers[CHOOSE j \in hits : TRUE].line

\* The login takes the peer's address if no header gives another; get_all
\* answers 400 if there is no Authorization header.
Lookup ==
  /\ pc = "lookup"
  /\ value' = [n \in Wanted(r.to) |-> ValueOf(n)]
  /\ pc' = IF r.to = "get_all" /\ value'["authorization"] # 0 THEN "hawk" ELSE "done"
  /\ status' = IF r.to = "get_all" /\ pc' = "done" THEN 400 ELSE status
  /\ UNCHANGED <<r, i, headers, p, taken>>

-----------------------------------------------------------------------------
(* hawk_parse_artifacts, and hawk_parse_token for each key.                *)

\* Another scheme is refused; for a bare one nothing is set, and the values
\* that are then logged are whatever the stack held.
hawk_parse_artifacts ==
  /\ pc = "hawk"
  /\ \/ r.scheme = "Other"     /\ pc' = "done"  /\ status' = 400
     \/ r.scheme = "bare Hawk" /\ pc' = "done"  /\ status' = 200
     \/ r.scheme = "bare Hawk" /\ pc' = "fault" /\ status' = status
     \/ r.scheme = "Hawk"      /\ pc' = "id"    /\ status' = status
  /\ UNCHANGED <<r, i, headers, value, p, taken>>

NextOf(k) ==
  LET n == CHOOSE j \in 1..5 : KeyOrder[j] = k
  IN  IF n < 5 THEN KeyOrder[n + 1] ELSE "done"

Occurs(k, j) == \E n \in DOMAIN r.pieces[j] : r.pieces[j][n] = k
Least(S)     == CHOOSE n \in S : \A m \in S : n <= m

\* What stands in piece j behind its first `k=`: a quote right behind it is
\* skipped, and then the piece's last character, a quote or not, is cut off.
\* If nothing but that quote is behind it, the cut is in front of the artifact,
\* which goes on beyond the comma.
ArtifactIn(k, j) ==
  LET piece == r.pieces[j]
      at == Least({n \in DOMAIN piece : piece[n] = k})
  IN  IF at < Len(piece) /\ piece[at + 1] = Quote
      THEN [piece |-> j, from |-> at + 2, to |-> Len(piece) - 1]
      ELSE [piece |-> j, from |-> at + 1, to |-> Len(piece)]

\* Mutant: every search starts from the beginning.
TokenFromStart(k) ==
  /\ pc = k
  /\ LET hits == {j \in DOMAIN r.pieces : Occurs(k, j)} IN
       IF hits = {} THEN UNCHANGED taken
       ELSE taken' = [taken EXCEPT ![k] = ArtifactIn(k, Least(hits))]
  /\ pc' = NextOf(k)
  /\ status' = IF k = "mac" THEN 200 ELSE status
  /\ UNCHANGED <<r, i, headers, value, p>>

\* `k=` is searched for as a text, in whatever it stands, and the artifact ends
\* at the next comma, in whatever that stands.
hawk_parse_token(k) ==
  /\ pc = k
  /\ LET hits == {j \in DOMAIN r.pieces : j >= p /\ Occurs(k, j)} IN
       IF hits = {} THEN UNCHANGED <<taken, p>>
       ELSE /\ taken' = [taken EXCEPT ![k] = ArtifactIn(k, Least(hits))]
            /\ p' = Least(hits) + 1
  /\ pc' = NextOf(k)
  /\ status' = IF k = "mac" THEN 200 ELSE status
  /\ UNCHANGED <<r, i, headers, value>>

Answered == pc \in {"done", "fault"} /\ UNCHANGED vars

Next ==
  \/ SkipLine \/ BadLength \/ KeepHeader \/ ScanEnd \/ Lookup \/ hawk_parse_artifacts
  \/ \E k \in Keys : hawk_parse_token(k)
  \/ Answered

Spec == Init /\ [][Next]_vars
-----------------------------------------------------------------------------
(* Reading the headers goes wrong in two cases only.  A line of two or more *)
(* characters has no colon, be it in the head or in the entity, no NUL     *)
(* ends it, a colon follows somewhere behind it, and the headers before it *)
(* were not as many as are asked for; or the Authorization header is the   *)
(* word Hawk (utils.c:286-312, hawk.c:125).                                *)
FaultsAreTwo ==
  pc = "fault" =>
    \/ r.scheme = "bare Hawk" /\ value["authorization"] # 0
    \/ \E n \in 1..Lines :
         /\ r.lines[n].long /\ ~r.lines[n].ended /\ r.lines[n].name = NoColon
         /\ r.rest \/ \E m \in (n + 1)..Lines : r.lines[m].name # NoColon
         /\ Cardinality({m \in 1..(n - 1) : r.lines[m].long /\ r.lines[m].name # NoColon}) < Maxh

(* A name's value comes from the first header of that name that the client *)
(* sent, in whatever case.  It is found when no more than seven headers    *)
(* and none without a name come before it, and then no line of the entity  *)
(* takes its place; the entity is looked at when it is not (utils.c:297,   *)
(* 323-338).                                                               *)
HeadIsRead ==
  pc \notin {"scan", "lookup", "fault"} /\ r.to = "get_all" =>
    \A name \in Wanted("get_all") :
      LET Named(n) == r.lines[n].long /\ stringToLowercase(r.lines[n].name) = name
          Before(n) == {m \in 1..(n - 1) : r.lines[m].long /\ r.lines[m].name # NoColon}
          seen(n) == Cardinality(Before(n)) < 8 /\ \A m \in Before(n) : r.lines[m].name # ""
      IN  \A n \in 1..Lines :
            Named(n) /\ (\A m \in 1..(n - 1) : ~Named(m)) =>
              value[name] = IF seen(n) THEN n ELSE 0

\* Piece j is the attribute k="...", closed.
IsAttribute(k, j) ==
  LET piece == r.pieces[j]
  IN  /\ Len(piece) >= 3 /\ piece[1] = k
      /\ piece[2] = Quote /\ piece[Len(piece)] = Quote

\* The last of the attributes in front of the n-th, or 0.
Before(w, n) == CHOOSE j \in {0} \cup {w[m] : m \in 1..(n - 1)} : \A m \in 1..(n - 1) : w[m] <= j

\* The n-th key's attribute is piece w[n], behind those of the keys before, or
\* there is none (0), and the key's text is nowhere on the way to it.
LaidOut(w) ==
  \A n \in 1..5 :
    LET k == KeyOrder[n]
        Free(j) == ~Occurs(k, j)
    IN  IF w[n] = 0 THEN \A j \in DOMAIN r.pieces : j > Before(w, n) => Free(j)
        ELSE /\ IsAttribute(k, w[n]) /\ w[n] > Before(w, n)
             /\ \A j \in (Before(w, n) + 1)..(w[n] - 1) : Free(j)

(* If the attributes come in the order of hawk.c:121, with others between   *)
(* them or some missing, quoted and without a comma, then each artifact is *)
(* the value of its attribute, and null for a missing one, although it is  *)
(* the text `ts=` that is searched for and values may hold it: it must     *)
(* only not stand between the attribute before and its own, nor anywhere   *)
(* behind that one if its own is missing (hawk.c:83-141).                  *)
ArtifactsAreTheirs ==
  pc = "done" /\ status = 200 /\ r.scheme = "Hawk" =>
    \A w \in [1..5 -> 0..Len(r.pieces)] : LaidOut(w) =>
      \A n \in 1..5 :
        taken[KeyOrder[n]] =
          IF w[n] = 0 THEN Nothing
          ELSE [piece |-> w[n], from |-> 3, to |-> Len(r.pieces[w[n]]) - 1]
=============================================================================
