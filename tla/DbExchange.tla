----------------------------- MODULE DbExchange -----------------------------
(***************************************************************************)
(* One PostgreSQL connection of the adapter and the requests that use it:  *)
(* db_send writes the query, db_response reads the reply and builds the    *)
(* JSON body (libraries/postrest/db.c).  A worker is a server thread that  *)
(* executes a request; libpq and the backend are modelled from how db.c    *)
(* uses them, each libpq call being one atomic step.                       *)
(*                                                                         *)
(* The backend's answers are kept as one history, `stream`, with three     *)
(* cursors: parsed <= read <= emitted.  Messages up to `emitted` have      *)
(* left the backend, up to `read` are in libpq's input buffer, up to       *)
(* `parsed` have been turned into results.                                 *)
(***************************************************************************)
EXTENDS Integers, Sequences, FiniteSets

CONSTANTS Workers,      \* server threads that may serve this session
          Replies,      \* the answers the backend may give to a query
          MaxRequests,  \* bound: requests begun in a behaviour
          MaxOut        \* bound: pieces a query is written in

(* What the backend sends: a row, a row without columns ("empty"), the end *)
(* of the rows, the end of a command without rows, an error, the start of  *)
(* a COPY, ReadyForQuery, and "part" for bytes that complete no result     *)
(* (row descriptions, notices).                                            *)
ResultKind == {"row", "empty", "done", "command", "error", "copy"}
Kind == ResultKind \cup {"part", "ready"}

\* The protocol ends every answer with one ReadyForQuery, and so does an error.
WellEnded(s) ==
  /\ s \in Seq(Kind)
  /\ Len(s) > 0
  /\ \A i \in 1..Len(s) : (s[i] = "ready") <=> (i = Len(s))
  /\ \A i \in 1..Len(s) : s[i] = "error" => i + 1 = Len(s)

ASSUME RepliesAssumption == \A s \in Replies : WellEnded(s)
ASSUME BoundsAssumption == MaxRequests \in Nat /\ MaxOut \in Nat

WriteBudget == 4        \* `count` of db_send
AsyncValues == {"idle", "busy", "ready", "copy"}
Codes == {0, 200, 400, 429, 500}

VARIABLES
  async,    \* libpq: "idle", "busy" (answer pending), "ready" (result parsed), "copy"
  sock,     \* libpq: the client end of the connection is open
  out,      \* libpq: pieces of the query still unsent
  cur,      \* libpq: the request whose query was accepted last
  parsed, read,
  stream, emitted, alive,    \* the backend
  nreq,     \* requests begun so far
  pc, req, count, res, single, rep, rc  \* per worker: request in hand and its locals

libpq   == <<async, sock, out, cur, parsed, read>>
backend == <<stream, emitted, alive>>
local   == <<pc, req, count, res, single, rep, rc>>
vars    == <<libpq, backend, nreq, local>>

Tok(t, q) == [t |-> t, q |-> q]
Punct(t)  == Tok(t, 0)
Tokens    == [t : {"open", "row", "comma", "blank", "close", "none", "error"},
              q : 0..MaxRequests]
PcValues  == {"idle", "send", "flush", "await", "get", "check", "after"}

Init ==
  /\ async = "idle" /\ sock = TRUE /\ out = 0 /\ cur = 0
  /\ parsed = 0 /\ read = 0
  /\ stream = <<>> /\ emitted = 0 /\ alive = TRUE
  /\ nreq = 0
  /\ pc = [w \in Workers |-> "idle"]
  /\ req = [w \in Workers |-> 0]
  /\ count = [w \in Workers |-> 0]
  /\ res = [w \in Workers |-> [q |-> 0, m |-> "done"]]
  /\ single = [w \in Workers |-> FALSE]
  /\ rep = [w \in Workers |-> <<>>]
  /\ rc = [w \in Workers |-> 0]

-----------------------------------------------------------------------------
(* The backend.                                                            *)

\* The next message leaves the backend.
BackendEmit ==
  /\ alive /\ emitted < Len(stream)
  /\ emitted' = emitted + 1
  /\ UNCHANGED <<libpq, stream, alive, nreq, local>>

\* The backend goes away: nothing more is emitted, the socket reads EOF.
BackendLost ==
  /\ alive /\ alive' = FALSE
  /\ UNCHANGED <<libpq, stream, emitted, nreq, local>>

\* Query q has arrived whole: the backend settles on an answer.
Deliver(q) ==
  \/ /\ alive
     /\ \E s \in Replies :
          stream' = stream \o [i \in 1..Len(s) |-> [q |-> q, m |-> s[i]]]
  \/ ~alive /\ UNCHANGED stream

-----------------------------------------------------------------------------
(* libpq.                                                                  *)

\* parseInput: consume messages until one ends the wait for a result, which
\* leaves libpq in state a.
ParseInput(a) ==
  \/ async # "busy" /\ a = async /\ parsed' = parsed
  \/ /\ async = "busy"
     /\ \E p \in (parsed + 1)..read :
          /\ stream[p].m # "part"
          /\ \A i \in (parsed + 1)..(p - 1) : stream[i].m = "part"
          /\ a = CASE stream[p].m = "ready" -> "idle"
                   [] stream[p].m = "copy"  -> "copy"
                   [] OTHER -> "ready"
          /\ parsed' = p
  \/ /\ async = "busy" /\ a = "busy"
     /\ \A i \in (parsed + 1)..read : stream[i].m = "part"
     /\ parsed' = read

\* PQflush: some or all of what is unsent leaves.
Push ==
  \E n \in 0..out :
    /\ out' = n
    /\ IF n = 0 /\ out > 0 THEN Deliver(cur) ELSE UNCHANGED stream

\* EV_READ would fire: there is input, or an end of file to discover.
Readable == sock /\ (read < emitted \/ ~alive)

\* PQconsumeInput: flush, then read all there is; at EOF the socket is closed.
ConsumeInput ==
  /\ Readable
  /\ Push
  /\ read' = emitted
  /\ sock' = (read < emitted)

\* A blocking wait inside PQgetResult fails instead of making progress.
Broken == ~sock \/ (~alive /\ (out > 0 \/ read = emitted))

-----------------------------------------------------------------------------
(* exec_endpoint: an endpoint calls db_send and returns its value.         *)

\* The request is answered with status c and body r.
Answer(w, c, r) ==
  /\ pc' = [pc EXCEPT ![w] = "idle"]
  /\ rc' = [rc EXCEPT ![w] = c]
  /\ rep' = [rep EXCEPT ![w] = r]

\* db_error appends its message to whatever the body already holds.
Fail(w, c) == Answer(w, c, Append(rep[w], Punct("error")))

Goto(w, l) == pc' = [pc EXCEPT ![w] = l] /\ UNCHANGED <<rc, rep>>
Spend(w)   == count' = [count EXCEPT ![w] = @ - 1]

\* Mutant: the body of the previous request is kept.
BeginKeepsBody(w) ==
  /\ pc[w] = "idle" /\ nreq < MaxRequests
  /\ nreq' = nreq + 1
  /\ req' = [req EXCEPT ![w] = nreq + 1]
  /\ count' = [count EXCEPT ![w] = WriteBudget]
  /\ rc' = [rc EXCEPT ![w] = 0]
  /\ single' = [single EXCEPT ![w] = FALSE]
  /\ pc' = [pc EXCEPT ![w] = "send"]
  /\ UNCHANGED <<libpq, backend, res, rep>>

Begin(w) ==
  /\ pc[w] = "idle" /\ nreq < MaxRequests
  /\ nreq' = nreq + 1
  /\ req' = [req EXCEPT ![w] = nreq + 1]
  /\ count' = [count EXCEPT ![w] = WriteBudget]
  /\ rep' = [rep EXCEPT ![w] = <<>>]
  /\ rc' = [rc EXCEPT ![w] = 0]
  /\ single' = [single EXCEPT ![w] = FALSE]
  /\ pc' = [pc EXCEPT ![w] = "send"]
  /\ UNCHANGED <<libpq, backend, res>>

-----------------------------------------------------------------------------
(* db_send.                                                                *)

\* Mutants: the loop does not stop at zero; it reads what has arrived.
SendBusyUnbounded(w) ==
  /\ pc[w] = "send"
  /\ ParseInput("busy") /\ async' = "busy"
  /\ Spend(w)
  /\ Goto(w, "send")
  /\ UNCHANGED <<sock, out, cur, read, backend, nreq, req, single, res>>

SendBusyReads(w) ==
  /\ pc[w] = "send" /\ count[w] > 0
  /\ ParseInput("busy") /\ async' = "busy"
  /\ Spend(w)
  /\ sock /\ Goto(w, "send")
  /\ read' = emitted
  /\ UNCHANGED <<sock, out, cur, backend, nreq, req, single, res>>

\* Busy: wait for the socket to be writable, which reads nothing.
SendBusy(w) ==
  /\ pc[w] = "send" /\ count[w] > 0
  /\ ParseInput("busy") /\ async' = "busy"
  /\ Spend(w)
  /\ \/ sock /\ Goto(w, "send")
     \/ Fail(w, 500)
  /\ UNCHANGED <<sock, out, cur, read, backend, nreq, req, single, res>>

\* Mutant: the return value of PQsendQuery is not looked at.
SendRefusedGoesOn(w) ==
  /\ pc[w] = "send"
  /\ \E a \in AsyncValues \ {"idle"} : ParseInput(a) /\ async' = a
  /\ async' = "busy" => count[w] = 0
  /\ Goto(w, "await")
  /\ UNCHANGED <<sock, out, cur, read, backend, nreq, req, single, count, res>>

\* PQsendQuery refuses: an answer is outstanding or the connection is gone.
SendRefused(w) ==
  /\ pc[w] = "send"
  /\ \E a \in AsyncValues : ParseInput(a) /\ async' = a
  /\ async' = "busy" => count[w] = 0
  /\ \/ /\ async' # "idle" \/ ~sock
        /\ UNCHANGED sock
     \/ async' = "idle" /\ sock /\ ~alive /\ sock' = FALSE
  /\ Fail(w, 500)
  /\ UNCHANGED <<out, cur, read, backend, nreq, req, single, count, res>>

\* Mutant: a result that was not fetched does not stop the next query.
SendQueryEarly(w) ==
  /\ pc[w] = "send" /\ sock
  /\ \E a \in {"idle", "ready"} : ParseInput(a)
  /\ async' = "busy" /\ cur' = req[w] /\ out' = 0 /\ Deliver(req[w])
  /\ Goto(w, "flush")
  /\ UNCHANGED <<sock, read, emitted, alive, nreq, req, single, count, res>>

\* PQsendQuery takes the query; n pieces are left after the first PQflush.
SendQuery(w) ==
  /\ pc[w] = "send" /\ sock
  /\ ParseInput("idle") /\ async' = "busy"
  /\ cur' = req[w]
  /\ \E n \in 0..MaxOut :
       /\ out' = n
       /\ IF n = 0 THEN Deliver(req[w]) ELSE UNCHANGED stream
  /\ Goto(w, "flush")
  /\ UNCHANGED <<sock, read, emitted, alive, nreq, req, single, count, res>>

\* One turn of the flush loop: a wait for EV_WRITE and, if it fires, PQflush.
Flush(w) ==
  /\ pc[w] = "flush" /\ out > 0 /\ count[w] > 0
  /\ Spend(w)
  /\ \/ Fail(w, 500) /\ UNCHANGED <<sock, out, stream>>
     \/ sock /\ Push /\ Goto(w, "flush") /\ UNCHANGED sock
     \/ /\ sock /\ ~alive
        /\ sock' = FALSE /\ out' = 0 /\ UNCHANGED stream
        /\ Fail(w, IF count[w] = 1 THEN 429 ELSE 500)
  /\ UNCHANGED <<async, cur, parsed, read, emitted, alive, nreq, req, single, res>>

\* The loop is over: a used-up count is taken for a query not written.
Written(w) ==
  /\ pc[w] = "flush" /\ (out = 0 \/ count[w] = 0)
  /\ IF count[w] = 0 THEN Fail(w, 429) ELSE Goto(w, "await")
  /\ UNCHANGED <<libpq, backend, nreq, req, single, count, res>>

-----------------------------------------------------------------------------
(* db_response.                                                            *)

\* Mutant: db_wait is called without a timeout.
AwaitForever(w) ==
  /\ pc[w] = "await"
  /\ ConsumeInput /\ Goto(w, "get")
  /\ UNCHANGED <<async, cur, parsed, emitted, alive, nreq, req, single, count, res>>

\* Wait up to a second for the first input of the answer.
AwaitReply(w) ==
  /\ pc[w] = "await"
  /\ \/ ConsumeInput /\ Goto(w, "get")
     \/ ~Readable /\ Fail(w, 500) /\ UNCHANGED <<out, read, sock, stream>>
  /\ UNCHANGED <<async, cur, parsed, emitted, alive, nreq, req, single, count, res>>

\* PQgetResult has nothing to return: it flushes and reads, without a timeout.
GetBlocks(w) ==
  /\ pc[w] \in {"get", "after"}
  /\ ParseInput("busy") /\ ~Broken
  /\ \/ out > 0 /\ out' = 0 /\ Deliver(cur) /\ UNCHANGED read
     \/ out = 0 /\ read < emitted /\ read' = emitted /\ UNCHANGED <<out, stream>>
  /\ UNCHANGED <<async, sock, cur, emitted, alive, nreq, local>>

\* PQgetResult finds the connection gone and makes an error result of it.
GetBroken(w) ==
  /\ pc[w] \in {"get", "after"}
  /\ \/ ParseInput("busy") /\ Broken
     \/ ParseInput("copy") /\ ~sock
  /\ async' = "idle" /\ sock' = FALSE /\ out' = 0
  /\ res' = [res EXCEPT ![w] = [q |-> req[w], m |-> "error"]]
  /\ Goto(w, "check")
  /\ UNCHANGED <<cur, read, backend, nreq, req, single, count>>

\* PQgetResult returns the result that is ready, or one that says COPY, which
\* it does again at every call as long as nobody transfers the data.
GetResult(w) ==
  /\ pc[w] \in {"get", "after"}
  /\ \/ ParseInput("ready") /\ async' = "busy"
     \/ sock /\ ParseInput("copy") /\ async' = "copy"
  /\ res' = [res EXCEPT ![w] = stream[parsed']]
  /\ Goto(w, "check")
  /\ UNCHANGED <<sock, out, cur, read, backend, nreq, req, single, count>>

Items(r) == {i \in 1..Len(r) : r[i].t = "row"}
Closing(r) == Append(r, IF Items(r) # {} THEN Punct("close") ELSE Punct("none"))

\* PQgetResult returns null: the loop ends, or the error is reported alone.
GetNull(w) ==
  /\ ParseInput("idle") /\ async' = "idle"
  /\ \/ pc[w] = "get" /\ Answer(w, 200, Closing(rep[w]))
     \/ pc[w] = "after" /\ Answer(w, 400, <<Punct("error")>>)
  /\ UNCHANGED <<sock, out, cur, read, backend, nreq, req, single, count, res>>

\* check_result: while libpq is busy, wait up to a second for more input.
CheckWait(w) ==
  /\ pc[w] = "check"
  /\ ParseInput("busy")
  /\ \/ ConsumeInput /\ Goto(w, "check")
     \/ ~Readable /\ Fail(w, 500) /\ UNCHANGED <<out, read, sock, stream>>
  /\ UNCHANGED <<async, cur, emitted, alive, nreq, req, single, count, res>>

\* A row opens the array if it is the first, and is followed by a comma.  The
\* text of the row itself (db.c:193-233) is opaque: one token, tagged by query.
WithRow(r, q) ==
  (IF Items(r) = {} THEN Append(r, Punct("open")) ELSE r)
    \o <<Tok("row", q), Punct("comma")>>

\* Mutant: the comma after the last row stays.
EndKeepsComma(r, s) == r

\* The end of the rows blanks the last character once a row was seen, be it one
\* without columns; of an empty body it blanks the byte in front of the buffer.
WithEnd(r, s) == IF s /\ r # <<>> THEN [r EXCEPT ![Len(r)] = Punct("blank")] ELSE r

\* Mutant: an error is passed over like a command without rows.
ErrorIsSkipped(w) ==
  /\ pc[w] = "check"
  /\ \E a \in AsyncValues \ {"busy"} : ParseInput(a) /\ async' = a
  /\ rep' = [rep EXCEPT ![w] = IF res[w].m = "row" THEN WithRow(@, res[w].q)
                               ELSE IF res[w].m = "done" THEN WithEnd(@, single[w])
                               ELSE @]
  /\ single' = [single EXCEPT ![w] = @ \/ res[w].m \in {"row", "empty"}]
  /\ pc' = [pc EXCEPT ![w] = "get"]
  /\ UNCHANGED <<sock, out, cur, read, backend, nreq, req, count, res, rc>>

\* check_result: the result is turned into JSON, skipped, or an error.
CheckResult(w) ==
  /\ pc[w] = "check"
  /\ \E a \in AsyncValues \ {"busy"} : ParseInput(a) /\ async' = a
  /\ \/ /\ res[w].m \in {"command", "empty"}
        /\ Goto(w, "get")
     \/ /\ res[w].m = "row"
        /\ rep' = [rep EXCEPT ![w] = WithRow(@, res[w].q)]
        /\ pc' = [pc EXCEPT ![w] = "get"] /\ UNCHANGED rc
     \/ /\ res[w].m = "done"
        /\ rep' = [rep EXCEPT ![w] = WithEnd(@, single[w])]
        /\ pc' = [pc EXCEPT ![w] = "get"] /\ UNCHANGED rc
     \/ /\ res[w].m \in {"error", "copy"}
        /\ Goto(w, "after")
  /\ single' = [single EXCEPT ![w] = @ \/ res[w].m \in {"row", "empty"}]
  /\ UNCHANGED <<sock, out, cur, read, backend, nreq, req, count, res>>

-----------------------------------------------------------------------------
Step(w) ==
  \/ SendBusy(w) \/ SendRefused(w) \/ SendQuery(w) \/ Flush(w) \/ Written(w)
  \/ AwaitReply(w) \/ GetBlocks(w) \/ GetBroken(w) \/ GetResult(w) \/ GetNull(w)
  \/ CheckWait(w) \/ CheckResult(w)

\* The bound on requests is used up and every request has been answered.
Finished ==
  /\ nreq = MaxRequests /\ \A w \in Workers : pc[w] = "idle"
  /\ UNCHANGED vars

Next ==
  \/ \E w \in Workers : Begin(w) \/ Step(w)
  \/ BackendEmit \/ BackendLost
  \/ Finished

Spec == Init /\ [][Next]_vars

\* Threads keep running, and a backend that has an answer goes on sending it.
FairSpec ==
  /\ Spec
  /\ \A w \in Workers : WF_vars(Step(w))
  /\ WF_vars(BackendEmit)
-----------------------------------------------------------------------------
TypeOK ==
  /\ async \in AsyncValues /\ sock \in BOOLEAN /\ alive \in BOOLEAN
  /\ out \in 0..MaxOut /\ cur \in 0..MaxRequests /\ nreq \in 0..MaxRequests
  /\ stream \in Seq([q : 0..MaxRequests, m : Kind])
  /\ parsed \in Nat /\ read \in Nat /\ emitted \in Nat
  /\ parsed <= read /\ read <= emitted /\ emitted <= Len(stream)
  /\ pc \in [Workers -> PcValues]
  /\ req \in [Workers -> 0..MaxRequests]
  /\ count \in [Workers -> 0..WriteBudget]
  /\ res \in [Workers -> [q : 0..MaxRequests, m : ResultKind]]
  /\ single \in [Workers -> BOOLEAN]
  /\ rep \in [Workers -> Seq(Tokens)]
  /\ rc \in [Workers -> Codes]

(* libpq accepts a query only when nothing of an earlier one is left: an   *)
(* open, idle connection has no unsent query and no unparsed message, by   *)
(* whatever path, and in whatever number, its workers used it before.  It  *)
(* is what lets db_send rely on PQsendQuery alone (db.c:93-99).            *)
IdleMeansDrained == async = "idle" /\ sock => out = 0 /\ parsed = Len(stream)

(* The inductive form of IdleMeansDrained.  A query is only written while   *)
(* nothing is left to parse, so what is left to parse always belongs to a   *)
(* single answer and ends in its ReadyForQuery, the one message that makes  *)
(* libpq idle again; a result that is ready is the last message parsed.     *)
ConnectionInv ==
  /\ IdleMeansDrained
  /\ out > 0 => parsed = Len(stream)
  /\ \A i \in 1..Len(stream) :
       i > parsed => ((stream[i].m = "ready") <=> (i = Len(stream)))
  /\ async \in {"ready", "copy"} => parsed > 0 /\ stream[parsed].m \in ResultKind

Own(w) == {i \in 1..Len(stream) : stream[i].q = req[w]}

(* Threads that share a session may take rows of each other's replies, but *)
(* only forward: a row of another query in a body was sent behind the      *)
(* answer to the body's own query.  What a request left on the connection  *)
(* never reaches a later one, because db_send stops at PQsendQuery's       *)
(* refusal (db.c:93-99) and db_response only reads behind it.              *)
NoOlderRows ==
  \A w \in Workers : \A i \in Items(rep[w]) :
    rep[w][i].q # req[w] =>
      /\ Own(w) # {}
      /\ \A k \in Own(w), j \in 1..Len(stream) :
           stream[j].q = rep[w][i].q => k < j

(* One worker: a body carries rows of its own request only, and a 200      *)
(* carries all of them that have columns, whatever earlier requests left   *)
(* on the connection (db.c:144-246).                                       *)
BodyIsOwnAnswer ==
  \A w \in Workers :
    /\ \A i \in Items(rep[w]) : rep[w][i].q = req[w]
    /\ rc[w] = 200 =>
         Cardinality(Items(rep[w])) = Cardinality({i \in Own(w) : stream[i].m = "row"})

(* One worker: a query the backend refused, even after some rows, is never *)
(* answered 200; a 400 is the error alone, the rows before it thrown away, *)
(* and needs an error of its own query or a lost connection (db.c:163-175). *)
StatusMatchesAnswer ==
  \A w \in Workers :
    /\ rc[w] = 200 => \A i \in Own(w) : stream[i].m # "error"
    /\ rc[w] = 400 => /\ rep[w] = <<Punct("error")>>
                      /\ ~sock \/ \E i \in Own(w) : stream[i].m = "error"

(* An array: rows separated by single commas, the last one's comma blanked. *)
IsArray(r) ==
  \E n \in 1..Len(r) :
    /\ Len(r) = 2 * n + 2 /\ r[1].t = "open" /\ r[Len(r)].t = "close"
    /\ \A k \in 1..n :
         r[2 * k].t = "row" /\ r[2 * k + 1].t = IF k < n THEN "comma" ELSE "blank"

(* Answers with one set of rows: what follows a row, but for what is not   *)
(* a result, is a row, the end of the rows or an error, and no row follows *)
(* the end of the rows.                                                    *)
OneSetOfRows ==
  \A s \in Replies :
    /\ \A i, j \in 1..Len(s) :
         i < j /\ s[i] = "row" /\ (\A k \in (i + 1)..(j - 1) : s[k] = "part") =>
           s[j] \in {"row", "part", "done", "error"}
    /\ \A i, j, k \in 1..Len(s) :
         i < j /\ j < k /\ s[i] = "row" /\ s[j] = "done" => s[k] # "row"

(* The frame of a 200's body, when answers have at most one set of rows    *)
(* (the comment at db.c:177-178 expects no more): the array is opened      *)
(* once, rows are parted by single commas, the comma that the last row     *)
(* leaves is blanked, and nothing else is, and the array is closed         *)
(* (db.c:188-246).  What stands between the commas is not covered: a row's *)
(* own text is no JSON when a value holds a quote (db.c:213), when several *)
(* columns are named json or json stands beside others (db.c:203-231), and *)
(* a json column's value is taken for a format (db.c:229).                 *)
BodyIsFramed ==
  \A w \in Workers : rc[w] = 200 => rep[w] = <<Punct("none")>> \/ IsArray(rep[w])

(* Once requests find the connection other than idle and open, and none is *)
(* being answered, no later step makes it usable, and every answer until   *)
(* the session ends is a 500.  Nothing on db_send's failing paths reads    *)
(* what is left of the old answer (db.c:84-99), so it is also never given  *)
(* to a later request.                                                     *)
Wedged == (\A w \in Workers : pc[w] \in {"idle", "send"}) /\ ~(async = "idle" /\ sock)
StaysWedged == Wedged => Wedged' /\ \A w \in Workers : rc'[w] \in {rc[w], 0, 500}
WedgedForGood == [][StaysWedged]_vars

(* Every request that is begun is answered, when no statement is a COPY:   *)
(* waits in db_send and db_response are cut off after a second, and those  *)
(* inside PQgetResult (db.c:144, 167) end because the backend finishes     *)
(* what it answers.  db.c:166-171 says so of the loop that follows an      *)
(* error, "empties command buffer", and the SQL endpoint "allows anything" *)
(* (csp/query.c:13).                                                       *)
EveryRequestAnswered == \A w \in Workers : pc[w] # "idle" ~> pc[w] = "idle"

(* One worker: the connection implements the session of QueryService.  A   *)
(* request in hand sees the connection its predecessor left until it has   *)
(* sent its query.                                                         *)
Service == INSTANCE QueryService WITH
  serving <- \E w \in Workers : pc[w] # "idle",
  conn    <- IF Wedged THEN "stuck" ELSE "clean",
  answer  <- IF \E w \in Workers : rc[w] = 200 THEN "complete"
             ELSE IF \E w \in Workers : rc[w] = 400 THEN "rejected"
             ELSE IF \E w \in Workers : rc[w] # 0 THEN "failed" ELSE "none"
ImplementsService == Service!Spec
=============================================================================
