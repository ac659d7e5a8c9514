------------------------------- MODULE Server -------------------------------
(***************************************************************************)
(* The process around the servlets: its start (init.c, and init of         *)
(* handlers/main.c), the states of a request in which the server calls the *)
(* handler, the script behind a request, and the end.                      *)
(*                                                                         *)
(* Of the scripts there are the login, for what it needs of the start, and *)
(* the WebSocket stream of libraries/ws.c.  (That file is the body of a    *)
(* servlet's main, without its head; the server runs it again and again.)  *)
(* Both scripts of the start are optional to the server.                   *)
(***************************************************************************)
EXTENDS Integers, Sequences, FiniteSets

CONSTANTS Clients,
          Requests,   \* what clients send
          Null

(* first: whether it begins with "GET / "; char: the character before      *)
(* its query, if it has one; upgrade: it has the header Upgrade and a key  *)
(* with 23 bytes from its start to the end of the request.                 *)
Request == [first : {"root", "other"}, char : {"none", "underscore", "question"},
            to : {"file", "login", "ws"}, upgrade : BOOLEAN]

ASSUME RequestsAssumption ==
  /\ Requests \subseteq Request /\ Requests # {} /\ Null \notin {"live", "freed"}
  /\ \A r \in Requests : (r.char = "none") = (r.to = "file")
  /\ \A r \in Requests : r.first = "root" => r.char = "none"

Output == {"301", "file", "undefined", "authorization", "101", "test", "close"}

VARIABLES
  scripts,    \* which of "init" and "handler" there are
  phase,      \* "off", "listening", "aborted", "down"; between: what is to run
  queryChar,  \* G-WAN's QUERY_CHAR
  record,     \* US_SERVER_DATA: Null, or a server_t, "live" or "freed"
  timer,      \* the sweep's timer is on the event loop
  stored,     \* a session is in the table
  stage, request, got,   \* per client: state, request, and how much of it was read
  mime,       \* per client: REPLY_MIME_TYPE was made ".json"
  pdata,      \* per client: US_REQUEST_DATA of ws.c
  code,       \* per client: what the script returned
  out         \* per client: what was put into the reply of this request

start == <<scripts, phase, queryChar, record, timer>>
conn  == <<stage, request, got, mime, pdata, code, out>>
vars  == <<start, stored, conn>>

Wakes   == 20
Amounts == <<"none", "five", "six", "whole">>   \* bytes read: fewer than six, ...

Init ==
  /\ scripts \in SUBSET {"init", "handler"}
  /\ phase = "off" /\ queryChar = "question" /\ record = Null /\ timer = FALSE /\ stored = FALSE
  /\ stage = [c \in Clients |-> "closed"]
  /\ request \in [Clients -> {CHOOSE r \in Requests : TRUE}]
  /\ got = [c \in Clients |-> 1] /\ mime = [c \in Clients |-> FALSE]
  /\ pdata = [c \in Clients |-> 0] /\ code = [c \in Clients |-> 0]
  /\ out = [c \in Clients |-> <<>>]

-----------------------------------------------------------------------------
(* Start and stop.                                                         *)

\* Mutant: the record is not attached.
MainForgets ==
  /\ phase = "off" /\ phase' = "init"
  /\ IF "init" \in scripts THEN queryChar' = "underscore" ELSE UNCHANGED queryChar
  /\ UNCHANGED <<scripts, record, timer, stored, conn>>

\* init.c, if there is one.
main ==
  /\ phase = "off" /\ phase' = "init"
  /\ IF "init" \in scripts THEN queryChar' = "underscore" /\ record' = "live"
                           ELSE UNCHANGED <<queryChar, record>>
  /\ UNCHANGED <<scripts, timer, stored, conn>>

\* The handler's init, if there is a handler.
init ==
  /\ phase = "init"
  /\ phase' = IF "handler" \in scripts /\ record = Null THEN "aborted" ELSE "listening"
  /\ timer' = ("handler" \in scripts /\ record # Null)
  /\ UNCHANGED <<scripts, queryChar, record, stored, conn>>

\* The server stops when no client is connected; timer and table still point
\* to the record.
clean ==
  /\ phase = "listening" /\ \A c \in Clients : stage[c] = "closed"
  /\ phase' = "down"
  /\ record' = IF "handler" \in scripts /\ record = "live" THEN "freed" ELSE record
  /\ UNCHANGED <<scripts, queryChar, timer, stored, conn>>

Stopped == phase \in {"aborted", "down"} /\ UNCHANGED vars

-----------------------------------------------------------------------------
(* A request, from HDL_AFTER_ACCEPT to HDL_BEFORE_CLOSE.                   *)

Handled == "handler" \in scripts

\* Nothing of a request is left.
Cleared(c) ==
  /\ got' = [got EXCEPT ![c] = 1] /\ mime' = [mime EXCEPT ![c] = FALSE]
  /\ pdata' = [pdata EXCEPT ![c] = 0] /\ code' = [code EXCEPT ![c] = 0]
  /\ out' = [out EXCEPT ![c] = <<>>]

\* A request on a new connection, or the next one on a connection.
Accept(c) ==
  /\ phase = "listening" /\ stage[c] \in {"closed", "answered"}
  /\ stage' = [stage EXCEPT ![c] = "reading"]
  /\ \E r \in Requests : request' = [request EXCEPT ![c] = r]
  /\ Cleared(c) /\ UNCHANGED <<start, stored>>

\* Mutant: one byte fewer is compared.
IsRootLoose(c, n) ==
  Amounts[n] \in {"five", "six", "whole"}

\* strncmp(szRequest, "GET / ", 6) == 0
IsRoot(c, n) ==
  Amounts[n] \in {"six", "whole"} /\ request[c].first = "root"

\* HDL_AFTER_READ, each time some of the request was read.
AfterRead(c) ==
  /\ stage[c] = "reading"
  /\ \E n \in (got[c] + 1)..4 :
       /\ got' = [got EXCEPT ![c] = n]
       /\ IF Handled /\ IsRoot(c, n)
          THEN /\ out' = [out EXCEPT ![c] = Append(@, "301")]
               /\ stage' = [stage EXCEPT ![c] = "write"]
               /\ code' = [code EXCEPT ![c] = 2]
          ELSE /\ stage' = [stage EXCEPT ![c] = IF Amounts[n] = "whole" THEN "parse" ELSE "reading"]
               /\ UNCHANGED <<code, out>>
  /\ UNCHANGED <<start, stored, request, mime, pdata>>

IsQuery(c) == request[c].char = queryChar

\* HDL_AFTER_PARSE
AfterParse(c) ==
  /\ stage[c] = "parse"
  /\ mime' = [mime EXCEPT ![c] = Handled /\ IsQuery(c)]
  /\ stage' = [stage EXCEPT ![c] = "script"]
  /\ UNCHANGED <<start, stored, request, got, pdata, code, out>>

Reply(c, what, rc) ==
  /\ out' = [out EXCEPT ![c] = Append(@, what)]
  /\ code' = [code EXCEPT ![c] = rc]
  /\ stage' = [stage EXCEPT ![c] = "write"]

\* No query for the server: a file, or none.
File(c) ==
  /\ stage[c] = "script" /\ ~IsQuery(c)
  /\ Reply(c, "file", 200)
  /\ UNCHANGED <<start, stored, request, got, mime, pdata>>

\* session_login needs the record for its table and its configuration.
session_login(c) ==
  /\ stage[c] = "script" /\ IsQuery(c) /\ request[c].to = "login"
  /\ IF record = Null
     THEN Reply(c, "undefined", 500) /\ UNCHANGED stored
     ELSE Reply(c, "authorization", 230) /\ stored' = TRUE
  /\ UNCHANGED <<start, request, got, mime, pdata>>

Streaming == 1000 + 1    \* RC_STREAMING + RC_NOHEADERS

Upgrade(c) ==
  /\ stage[c] = "script" /\ IsQuery(c) /\ request[c].to = "ws" /\ pdata[c] = 0
  /\ IF request[c].upgrade
     THEN Reply(c, "101", Streaming) /\ pdata' = [pdata EXCEPT ![c] = 1]
     ELSE Reply(c, "test", 403) /\ UNCHANGED pdata
  /\ UNCHANGED <<start, stored, request, got, mime>>

\* Mutant: the close frame is never sent.
WakeForever(c) ==
  /\ stage[c] = "script" /\ pdata[c] # 0
  /\ code' = [code EXCEPT ![c] = Streaming]
  /\ stage' = [stage EXCEPT ![c] = "write"]
  /\ UNCHANGED <<start, stored, request, got, mime, pdata, out>>

\* The stream's script is run again.
Wake(c) ==
  /\ stage[c] = "script" /\ pdata[c] # 0
  /\ IF pdata[c] + 1 >= Wakes
     THEN Reply(c, "close", 1) /\ pdata' = [pdata EXCEPT ![c] = 0]
     ELSE /\ pdata' = [pdata EXCEPT ![c] = @ + 1]
          /\ code' = [code EXCEPT ![c] = Streaming]
          /\ stage' = [stage EXCEPT ![c] = "write"]
          /\ UNCHANGED out
  /\ UNCHANGED <<start, stored, request, got, mime>>

\* HDL_BEFORE_WRITE and HDL_AFTER_WRITE.  A streaming script is called again
\* when its reply was sent.
Write(c) ==
  /\ stage[c] = "write"
  /\ stage' = [stage EXCEPT ![c] = IF code[c] >= 1000 THEN "script" ELSE "answered"]
  /\ UNCHANGED <<start, stored, request, got, mime, pdata, code, out>>

\* HDL_BEFORE_CLOSE: the client goes away, at any time.
BeforeClose(c) ==
  /\ stage[c] # "closed"
  /\ stage' = [stage EXCEPT ![c] = "closed"]
  /\ Cleared(c) /\ UNCHANGED <<start, stored, request>>

Run(c) ==
  \/ AfterParse(c) \/ File(c) \/ session_login(c) \/ Upgrade(c) \/ Wake(c) \/ Write(c)

Next ==
  \/ main \/ init \/ clean \/ Stopped
  \/ \E c \in Clients : Accept(c) \/ AfterRead(c) \/ Run(c) \/ BeforeClose(c)

Spec == Init /\ [][Next]_vars

\* The server goes on with the requests it has read.
FairSpec == Spec /\ \A c \in Clients : WF_vars(Run(c))
-----------------------------------------------------------------------------
TypeOK ==
  /\ scripts \subseteq {"init", "handler"}
  /\ phase \in {"off", "init", "listening", "aborted", "down"}
  /\ queryChar \in {"underscore", "question"} /\ record \in {Null, "live", "freed"}
  /\ timer \in BOOLEAN /\ stored \in BOOLEAN
  /\ stage \in [Clients -> {"closed", "reading", "parse", "script", "write", "answered"}]
  /\ request \in [Clients -> Requests] /\ got \in [Clients -> 1..4]
  /\ mime \in [Clients -> BOOLEAN] /\ pdata \in [Clients -> 0..(Wakes - 1)]
  /\ code \in [Clients -> {0, 1, 2, 200, 230, 403, 500, Streaming}]
  /\ out \in [Clients -> Seq(Output)]

\* Requests for a servlet when init.c has run, and those for "/".
ForServlet(c) == request[c].char = "underscore"
ForRoot(c)    == request[c].first = "root"
Moved         == <<"301">>
Plain(reply)  == \A k \in DOMAIN reply : reply[k] # "301"

(* A request whose query begins with '_' never meets a missing record:     *)
(* init.c sets the character and the record together, and without init.c   *)
(* such a request is none for a servlet.  The 500 of session.c:66 is for a *)
(* server without both scripts, as the handler aborts one without the      *)
(* first (init.c:47-57, main.c:36-51).                                     *)
ApiHasRecord ==
  \A c \in Clients :
    /\ ForServlet(c) => code[c] # 500
    /\ code[c] = 500 => scripts = {}

(* Whatever pieces a request comes in, one for "/" is redirected, once,    *)
(* and reaches no script; no other one is redirected (main.c:117-133).     *)
RedirectIsForRoot ==
  \A c \in Clients :
    /\ Plain(out[c]) \/ (ForRoot(c) /\ out[c] = Moved)
    /\ Handled /\ ForRoot(c) => stage[c] \notin {"parse", "script"}

(* Every stream ends, by the close frame or by the client: it does not     *)
(* wait for anything the client sends (ws.c:62-75).                        *)
StreamsEnd == \A c \in Clients : pdata[c] # 0 ~> pdata[c] = 0
=============================================================================
