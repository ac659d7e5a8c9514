------------------------------ MODULE MCServer ------------------------------
(* Requests for Server: the root, another file, the login and the stream.  *)
EXTENDS Server

MCRequest(first, char, to, upgrade) ==
  [first |-> first, char |-> char, to |-> to, upgrade |-> upgrade]

MCRequests ==
  {MCRequest("root", "none", "file", FALSE), MCRequest("other", "none", "file", FALSE)}
    \cup {MCRequest("other", ch, "login", FALSE) : ch \in {"underscore", "question"}}
    \cup {MCRequest("other", "underscore", "ws", u) : u \in BOOLEAN}
=============================================================================
