----------------------------- MODULE MCHeaders ------------------------------
(* Requests for Headers: the request line, a number of headers nobody asks *)
(* for, a few that somebody does, and an entity.                           *)
EXTENDS Headers, SequencesExt

MCLine(name) == [name |-> name, ended |-> FALSE, long |-> TRUE]

RequestLine(ended) == [name |-> NoColon, ended |-> ended, long |-> TRUE]

Many(k) == [n \in 1..k |-> MCLine("Other")]

\* Up to two headers in a row, of any names, in the case clients send, or none.
Heads == UNION {[1..k -> {MCLine(n) : n \in (Sent \ {"\r\nOther"}) \cup {NoColon}}] : k \in 0..2}

\* No line, lines with or without a colon, one that looks like a header, and
\* one of a single character.
Entities ==
  {<<>>, <<MCLine("\r\nOther"), MCLine("Authorization")>>,
   <<MCLine(NoColon), MCLine("Other")>>,
   <<MCLine("\r\nOther"), [MCLine(NoColon) EXCEPT !.long = FALSE]>>}

\* Attributes in order and out of it, twice, missing, with another before them;
\* values with the text of a key or, which ends the piece, with a comma; and
\* a value that is not quoted, or opens a quote only.
Attr(k)    == <<k, Quote, "x", Quote>>
Hold(k, h) == <<k, Quote, "x", h, Quote>>
InOrder == [n \in 1..5 |-> Attr(KeyOrder[n])]

Pieces ==
  {InOrder, Reverse(InOrder), <<>>, <<Attr("mac")>>, <<<<"x", "x">>>> \o InOrder,
   <<Attr("id"), Attr("mac"), Attr("ts"), Attr("mac")>>, <<Attr("ts")>> \o InOrder}
  \cup {RemoveAt(InOrder, n) : n \in 1..5}
  \cup {[InOrder EXCEPT ![n] = a] : n \in 1..5,
          a \in UNION {{Hold(k, h), <<k, h>>, <<k, Quote>>, <<k, Quote, "x">>} : k, h \in Keys}}
  \cup {SubSeq(InOrder, 1, n) \o <<<<"x", h, Quote>>>> \o SubSeq(InOrder, n + 1, 5) :
          n \in 1..5, h \in Keys}

HeaderRequests ==
  {[to |-> to, lines |-> <<RequestLine(nul)>> \o Many(k) \o h \o e, rest |-> rest,
    scheme |-> "Other", pieces |-> <<>>] :
     to \in {"login", "get_all"}, k \in {0, 1, 6, 7, 8, 15, 23}, h \in Heads, e \in Entities,
     rest, nul \in BOOLEAN}

HawkRequests ==
  {[to |-> "get_all", lines |-> <<RequestLine(TRUE), MCLine("Authorization")>>,
    rest |-> FALSE, scheme |-> s, pieces |-> q] : s \in Schemes, q \in Pieces}

MCRequests == HeaderRequests \cup HawkRequests
=============================================================================
