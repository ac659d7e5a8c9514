# A TLA+ model of the G-WAN PostgreSQL REST adapter

This directory holds TLA+ specifications of the adapter, the TLC configurations
that model-check them on small instances, and proofs that TLAPS checks for every
instance. It is written against the C source under `src/`; where a comment and
the code disagree, the code is modelled and section 4 names the disagreement.

## 1. The system

The adapter is a set of G-WAN servlets (`csp/*.c`) that translate REST requests
into SQL, send the SQL over a PostgreSQL connection that belongs to the client's
session, and return the rows as JSON. Everything that keeps state is in the
library `libraries/postrest`, in `csp/session.c`, in the two scripts of the start
and, for graphs and documents, in the database.

| component | source | state | operations | what makes it correct |
|---|---|---|---|---|
| query exchange | `db.c:25-253` | one `PGconn` per session (libpq's state, buffers), the request's JSON body and its write budget | `db_send`, `db_response`, `db_wait`, `db_error` | an answer holds the rows of its own query, all of them, in one array, or is an error |
| session table and expiry | `db.c:255-396`, `handlers/main.c`, `csp/session.c` | `server->sessions` (key, `db_t`), each session's time stamp and deadline, the timer on the event loop | `db_session`, `check_session`, `db_timer_cb`, `db_free`, login, logout | a session is dropped when it was idle for the timeout, not earlier; its connection is closed then, and not under a request that uses it in time |
| dispatcher | `utils.c:376-416`, the `endpoints[]` table of every servlet | a cursor over the table, the "method is known" flag | `exec_endpoint` | a request is served by the entry the table declares for it, and reaches the database only with a session |
| data endpoints | `csp/database.c`, `collection.c`, `index.c`, `query.c`, `document.c`, `graph.c` | what a request allocates; the tables, indexes, rows and edges their SQL works on | about 30 endpoints, each a chain of checks and a query | an endpoint leaves nothing behind; the SQL of several sessions at once keeps collections whole |
| session, OAuth and Hawk endpoints | `csp/session.c`, `oauth.c`, `hawk.c` | the session table | get, login, logout; most OAuth and Hawk ones are stubs | a header is found if the client sent it |
| validators and header parsing | `utils.c` | none | `strword`, `isString`, `strdigit`, `isUUID`, `url_decode`, `get_headers`, `get_header_value` | what is refused is malformed |
| server start and stop, connection handler | `init.c`, `handlers/main.c` | `US_SERVER_DATA`, the query character, the timer | configuration, `init`, the states of a request, `clean` | nothing runs without what the start has to set up |
| WebSocket stream | `libraries/ws.c` | `US_REQUEST_DATA`, a counter | upgrade, twenty wakes, close | every stream ends |
| self-decrypting archive | `libraries/postrest/sda.c` | growing buffers and arrays | `encrypt`, `decrypt`, packing, base 64 | buffers grow before they are written to; what was packed is unpacked |
| batch servlet | `csp/batch.c.bug` | | disabled by its name | |

How they interact. G-WAN calls a servlet's `main`, which asks `db_session` for
the client's session and gives it to `exec_endpoint`. `db_session` first runs one
non-blocking turn of libevent's loop: this is the only time the expiry timer can
fire, so one request's thread does the sweep for all sessions. `exec_endpoint`
picks the entry of the table and calls the endpoint; an endpoint that returns 0
has sent a query with `db_send`, and `exec_endpoint` reads its answer with
`db_response`. There is no lock: two threads that serve requests of one session
share its `PGconn`, its `db_t` and its place in the table. Requests of different
sessions meet in PostgreSQL, under its locks and snapshots. `init.c` makes the
record in which the handler, later, puts timer and table; either script may be
missing, and the servlets rely on both.

What is hard about it.

- An answer that is slow or never comes: every wait is cut off after a second,
  in the middle of a reply too, and what is left belongs to the next request.
- Threads that share one connection, and a sweep that runs beside them.
- Millisecond deadlines in 32 bits, which wrap every 49.7 days.
- Chains of checks that return early, each with something allocated.
- A table searched in order, with wildcards, with authorization checked at the hit.
- Statements of two clients on one collection or document, one of which merges
  into what it read before.
- A recursive query that stops by name on graphs whose names repeat or are missing.
- A header search that reads on past the blank line, looks at eight headers only, and
  takes a line's colon from wherever the next one is.
- Requests that arrive in pieces, and a handler that compares what came so far.

## 2. The modules

| module | what it is |
|---|---|
| `QueryService` | abstract: what one session promises to requests made one at a time |
| `DbExchange` | `db_send` and `db_response` on one connection, any number of threads |
| `Sessions` | the session table, login, logout, look-up and sweep |
| `Endpoints` | the dispatcher, all tables and all endpoints, on top of `QueryService` |
| `Documents` | what the SQL of collections, indexes and documents does, for sessions at once |
| `Graph` | what the SQL of graphs does: nodes, edges, adjacency, traversal |
| `Headers` | reading a request's headers and the Hawk artifacts in one of them |
| `Server` | start and stop, the handler's states of a request, the WebSocket stream |
| `Archive` | the buffers, packing and base 64 of the archive program |
| `MC...` | model-checking instances: sets of inputs and symmetries |
| `DbExchangeProofs` | proofs about `DbExchange`, for any threads and, in its second part, for one |
| `SessionsProofs` | proofs about `Sessions`, for any threads and, about the sweep, for one |
| `EndpointsProofs`, `DocumentsProofs`, `GraphProofs`, `HeadersProofs`, `ServerProofs`, `ArchiveProofs` | proofs about the module of that name |

`Endpoints` composes with the exchange through its abstraction: it INSTANCEs
`QueryService`, and `DbExchange` is shown to implement `QueryService`. The other
modules share no state with one another in the code but through these; how far
that is true is said in section 6.

A specification has its constants and their assumptions first, then state,
actions in the order of the code, `Spec`, and last the properties, each with the
lines it is about. Some modules also hold *mutants*: an operator, marked
`Mutant`, right before the definition it is a broken variant of. No
specification uses them; each shows, put in the place of its neighbour, that a
property notices that bug.

### DbExchange

libpq calls are atomic steps; the thread is preempted between any two of them.
(libpq is not safe for threads that share a connection, so the build can do worse
than the model; the model shows what goes wrong already at this granularity.)
The connection is in non-blocking mode (`csp/session.c:143`).

The backend's answers are one history, `stream`, of messages tagged with the
request they answer, under three cursors `parsed <= read <= emitted`: turned
into results, in libpq's buffer, sent by the backend. `async` is libpq's state:
`idle`, `busy` (an answer is due), `ready` (a result waits for `PQgetResult`)
and `copy`. `ParseInput` is the parsing that `PQisBusy`, `PQgetResult` and
`PQsendQuery`'s callers trigger, and `Deliver` the moment a query has arrived
whole and the backend settles on one of the constant `Replies`.

| `pc` | code | actions |
|---|---|---|
| `idle` | no request in hand | `Begin` |
| `send` | `db_send:84-101`, busy loop and `PQsendQuery` | `SendBusy`, `SendRefused`, `SendQuery` |
| `flush` | `db_send:103-121` | `Flush`, `Written` |
| `await` | `db_response:133-138`, the first wait | `AwaitReply` |
| `get` | `db_response:144` and its repetition, `PQgetResult` | `GetBlocks`, `GetBroken`, `GetResult`, `GetNull` |
| `check` | `check_result`, `db_response:146-243` | `CheckWait`, `CheckResult` |
| `after` | `PQgetResult` after an error, `db_response:167-175` | the actions of `get` |

A timeout is a choice that is open whenever nothing has arrived. The body is the
sequence of tokens the code prints (a bracket, a row tagged with its request, a
comma, the blank that overwrites one), because properties are about just that. `single`
is the code's `single_row_mode`, which stays set for the rest of an answer, so that an end of rows
without columns, or a later statement's empty one, blanks a character too (`WithEnd`). A row is
one token: what text its columns come to (`db.c:191-234`) is data that no step depends on,
and section 4 says when that text is not JSON.

### Sessions

A session's key, `db_t` and connection are one identity. `pc` follows a request:
`poll`, `turn`, `turned` and `due` (the turn of the event loop), `sweep`, `unlink`, `finish`
(the timer's callback and `check_session`), `lookup`, `refresh`, `stamp` and `extend`
(`db_session`: the look-up, the clock, the time stamp, the deadline), then `use` for an endpoint that
works on the connection, or `login` and `store` (`session_login`). The clock is `now`; a deadline
is `Expiry`, `base` plus the timeout modulo `M`, and `Expired` the code's signed difference.
`base` is the clock a request read, or the time stamp another request stored in between: the C
source does not say whether `db->timestamp` is read again. `late` and `gone` are history that
the properties refer to.

libevent lets one thread at a time into a loop, by a flag that it tests and sets under a lock
if it was told of threads. Nothing here tells it (no `evthread_use_pthreads` before `handlers/main.c:61` or
`db.c:357`), so test and set are two steps (`PollTest`; `TurnIdle`, `TurnDue`): several threads may be in the loop,
find the timer due, and sweep at once, and then a session may be finished twice (`"twice"`). What
libevent's own timer heap does under such threads is not modelled, nor what the key-value store
does: its calls are atomic steps, and `kv_do` visits what was in the table when it began.

### Endpoints

Requests one at a time, from `exec_endpoint` to the answer. A parameter or JSON
value is its class, that is, what the validators can tell apart. Every endpoint
is an operator from classes to possible outcomes: a status with the number of
bodies written and what is still allocated, or a query with what is then held.
`Checked` is the chain of checks in the order of the code. The query's fate is
`QueryService`, by `INSTANCE`: `Call` is its `Accept`, and `Response` one of
`Complete`, `Reject` and `Fail`; a `Fail` may add its message to rows already written. `kept` is what is allocated, and `Common` the part of it that
`db_session`, `db_send` and `db_response` leave behind whatever the endpoint: the copied key, the event and base of each
`db_wait`, results without `PQclear`. That this is what `db_send` and `db_response`
provide is the run `exchange` (`ImplementsService`).

Choices made: an absent argument is a null pointer; JSON arrays are not empty and
an edge's array of ends holds strings; the configuration is there (`init.c`
always makes one), so the 500 and 502 of `session_login` for a missing one are
left out; the stubs of the OAuth and Hawk servlets parse a header and store
nothing, so only their statuses are kept. In `get_node` the variable that is
checked as the direction is always null, as in the code.

### Documents

A table stands for a collection and is named by the words of its name: the collection
endpoints use `<name>_document_collection`, the document and index endpoints
`<name>_collection`, so a client who created `w` must ask for documents of
`w_document` (`Given`). A uuid identifies a row. A document is a function from a few
members to a value, the JSON null or `Missing`.

A statement is two steps. `Begin` is when it has its table lock and its snapshot
(`base`, the row's document then), `End` when it commits. Between them others may
run, as PostgreSQL's READ COMMITTED lets them: `DROP TABLE` and the request that
builds a collection wait for everybody else on the table; an UPDATE that finds its
row changed looks at the row again, but the sub-select of `update_document` has
been evaluated in the old snapshot. `alone` remembers that nobody wrote the
row meanwhile. Refusals by the database are `NoEffect`.

### Graph

Requests are transactions, one after another. A node is a document of the graph's
collection, an edge a row of its edge table, whose constraints are `Insertable`.
`create_edge` and `delete_edge` take arrays for both ends, which need not be of one
length (`Mate`); `post_query` is a client's own SQL, which inserts any edge the constraints
permit, the only way to one that starts at null, or deletes any. `Search` computes the rows of the `WITH RECURSIVE` query depth by
depth, with SQL's three-valued `name = ANY(path)`; `traverse` and `get_adjacent` are
the two queries, compared with reference definitions. A deleted uuid may be used again
here, to keep the graph small; the code draws new ones.

### Headers

A request is a sequence of lines; a line is its name's class, whether a NUL follows (G-WAN
ends the path in place, which hides the rest from `strchr`; the instances have requests with and without it) and whether
it is longer than a character. Any line may lack a colon. `KeepHeader`, `SkipLine` and `BadLength` are the turns of the loop of
`get_headers`; `ValueOf` is `get_header_value` with its limit, the size of a pointer.

Of the Authorization header the pieces between commas are kept, each a sequence of three kinds of symbols: the text `key=` of one
of the keys, a quote, and anything else. So a key's text may stand anywhere, in a value or behind another text,
and a comma inside a quoted value ends a piece. `hawk_parse_token` searches all of what is
left for the text, and takes what is behind it up to the next comma, with the quote in front and the last character cut off. `fault` stands for
a negative length or a null that is used.

### Server

`phase` goes from `off` over `init` (after `init.c`, before the handler's `init`) to
`listening`; either script may be absent. A client's `stage` follows the handler's states: `reading`
(each `HDL_AFTER_READ` sees what was read so far, `Amounts`), `parse`, `script`, `write`,
`answered`. Three scripts are there: a file, `session_login` for what it needs of the
record, and the stream, whose script the server runs again while it returns
`RC_STREAMING`. A client may go away in any stage. Assumed of G-WAN: `clean` is called
when no client is connected.

### Archive

`encrypt` and `decrypt` are run as they are: `crypt` hands on an array whose length was
never set, so what they print is empty. Because of that `array_to_form` and `expand7to8` are
also run by themselves (`CallForm`, `CallExpand`), on arrays a caller with the length set
would give them. The arithmetic of packing and base 64 is the code's, on words of 16
bits, as only low bytes are used. What is read past the end of a text is
`Garbage`. MD5 is one of its results: no property depends on the key stream.

A buffer has its string, the size allocated, `over`, set when a write falls outside of that, and `tail`:
`pushBuffer` puts its zero one place too far (`sda.c:72`), so `strlen` may find the character that lay there
before. `initBuffer` writes a zero into a buffer of any size, one of none too (`sda.c:50`), and `core_md5` its padding behind
the arrays it is given (`sda.c:150-151`); both are recorded (`over`), what such a write does to other memory is not.

## 3. Runs

| run | instance | what it shows |
|---|---|---|
| `exchange` | 1 thread, 3 requests, 7 answers, a query of up to 3 pieces | bodies are the request's own rows, all of them (`BodyIsOwnAnswer`), statuses and errors go together (`StatusMatchesAnswer`), a 200 is one array, its rows parted by single commas (`BodyIsFramed`), a connection that is not ready stays unusable (`WedgedForGood`), and the whole implements `QueryService` |
| `exchange_shared` | 2 threads, 2 requests, 2 answers | libpq takes a query only when nothing of an earlier one is left (`IdleMeansDrained`); a body may hold rows of a query answered behind its own, but of none before (`NoOlderRows`); every request is answered |
| `sessions` | 1 thread, 2 sessions, 16 instants, deadlines modulo 14, logout, IPv6 clients | no session expires early, a sweep leaves none that is stale, a request gets a fresh one, and an open connection |
| `sessions_shared` | 2 threads, 2 sessions, 4 instants, modulo 8, IPv4 clients | with both threads in the loop at once: a sweep cuts off a request of another only when that one was late (`OnlyLateSessionsAreCut`); a session in the table has an open connection (`TableIsOpen`), and no connection is lost (`NoConnectionLost`) |
| `sessions_logout` | 1 thread, 1 session | finding: a session logged out stays in the table |
| `endpoints` | all 9 servlets, every command, method and class | the dispatcher serves what the tables declare, queries need a session, an endpoint that returns 0 has sent a query, an answer is one text but for named cases, nothing of the endpoint's own is left allocated but in five refusals |
| `endpoints_uuid` | servlet graph | finding: a uuid is always refused |
| `documents` | 2 sessions, 2 collections, 2 uuids, documents of 2 members | collections are whole (`CollectionIsWhole`), the deleted stay deleted (`DeadStayDead`), an update loses another only to an overlap (`LostOnlyToOverlap`) |
| `graph` | 3 nodes, 3 names, 1 label, up to 3 edges | `traverse` lists exactly the walks a reader would expect, finds the nearest first when names are distinct, finds nothing from null |
| `headers` | up to 26 headers, stray lines among them, 4 kinds of entity, 337 values of Authorization | a header is read if it is among the first eight (`HeadIsRead`); attributes in order give their own artifacts, although values hold other keys' texts (`ArtifactsAreTheirs`); two causes of a fault (`FaultsAreTwo`) |
| `archive` | texts of up to 17 characters, arrays of up to 97 words | no push writes past a buffer (`PushesFit`); a line of base 64 (`FormIsReadBack`) and a packed text (`TextIsUnpacked`) come back |
| `server` | 2 clients, every choice of scripts, streams of 20 wakes | a servlet never meets a missing record, `/` and only `/` is redirected, streams end |

Bounds and why they are enough.

- *Exchange.* With one thread, two requests show what one can leave to the next;
  the third shows that it is still so after that. `MCReplies` has each kind of message and each
  place of an error (alone, after rows, after bytes that complete nothing), two
  commands without rows, and COPY. With two threads the two requests overlap in
  every way; the proofs cover any number.
- *Sessions.* `M = 14` with 16 instants makes a deadline wrap and the clock pass it.
  `Timeout = 2` and `Period = 1`: the timeout spans several periods of the timer
  (in the code 300 s and 1 s), and sessions can expire, be found just in time, and expire
  again. `MaxQuiet` bounds the time without requests once the
  timer is due; `ConstantsAssumption` says that it is well below half of `M`
  (24.8 days). With two threads, four instants and a timeout of one let a session expire
  while another request is between look-up, clock and deadline, and the timer fire three times. A server that sees no request for longer than that keeps sessions
  it should drop.
- *Endpoints.* No bound but the classes: requests come one after another, for ever.
- *Documents.* Two statements on one row or table are what overlap takes, and a
  third session adds only orders of the same pairs, which the proofs cover. Two members let one
  update change what the other does not name; the patches overlap in a member, set another
  and remove one. At most two documents are created by one request.
- *Graph.* Three nodes make every shape that matters to a search by name: a chain, a
  triangle, a cycle, two ways of different length, two nodes of one name, a node without one.
  `MaxPairs = 2` makes arrays of unequal length. The depth of a search is bounded by
  the number of names, plus a node without one and the row that closes a cycle (`MaxDepth`).
- *Headers.* Counts lie on both sides of the window (8) and of both limits (16, 24). Authorization values are those with one
  attribute missing, or holding another's key, or unquoted, or half quoted, or with a comma, at each place.
- *Archive.* Texts cover two groups of eight and one more, arrays a line of 48
  and its break on both sides; all contents up to 4 long over values at the edges.
- *Server.* Streams have their real length; two clients overlap in every stage.

Sessions, threads, nodes and names are interchangeable where a run says `SYMMETRY`; those runs
check invariants and action properties only.

Deadlock is checked in every run. Where nothing more may happen because a bound
is used up, the models have a step for it (`Finished`), or the system goes on
(`Arrive`); `Down`, `Stopped` and `Answered` are a process or a request at its end.

Fairness. `EveryRequestAnswered` uses `FairSpec` of `DbExchange`: a thread that can
take a step does (the scheduler), and a backend that has settled on an
answer goes on sending it, unless it is lost. Nothing makes libpq, the network or
the backend fast: all timeouts may happen, and a backend may be lost at any time.
Without fairness of the backend the property fails, as `PQgetResult` waits
without a timeout. `StreamsEnd` uses `FairSpec` of `Server`: the server goes on with a
request it has read. Nothing is assumed of clients. No other property needs fairness.

## 4. Findings

Two runs end in a violation, each of what the source says of itself.

1. `sessions_logout`: `db.c:260` announces that the session is removed, but the key is
   deleted from the wrong store. The session stays in the table with its connection finished.
2. `endpoints_uuid`: `utils.c:149-150` and `graph.c:86` speak of uuids, and
   `utils.c:163-165` refuses every one.

Also seen while modelling, and modelled as the code is:

- `db.c:150-152` leaves the read loop on a timeout, with the reply unread, although the comment at
  `db.c:142` says the whole reply is consumed. As `db_send` only waits for *writability*, nothing
  ever reads the rest, and the session can never be used again (`WedgedForGood`).
- `db.c:115` takes a used-up budget for a query not written: a 429 whose query is sent.
- Two requests of one session at once take rows of each other's reply (`NoOlderRows` is what is left of their separation).
- A 200's body need not be JSON: values are printed without escapes (`db.c:213`); a json column's value is used
  as a format (`db.c:229`) and, beside other columns, put between them without a brace (`db.c:203-231`); rows without columns
  write no array, and their end blanks the character before the body's end, or before its beginning (`db.c:238-240`). A 500's may hold rows and a message (`db.c:150-152`).
- Two threads may sweep at once, as libevent is not told of threads, and finish a session twice (`conn = "twice"`).
- A request that finds its session exactly at the deadline may be preempted between `db.c:378` and `383` and lose it.
- `db.c:167` loops for ever after a COPY statement; the liveness run leaves COPY out.
- `graph.c:49-53` checks a variable that it never sets: a direction is always refused.
- An edge with a null end is accepted by the checks and dereferenced (`fault` in `Endpoints`).
- The servlets `document` and `database` leave JSON trees or buffers allocated on some refusals
  (`KeptOnlyByRefusals` names all), a login from an address that is not IPv4 leaves
  its connection open, and `session_get` writes a second body.
- Concurrent updates of one document lose members (`LostOnlyToOverlap` says when).
- `index.c:116` prints the index's name from a pointer's bytes, `index.c:67` from the field: `delete_index` drops an index of
  another name than `create_index` made, if any (`IndexName`).
- An edge made without a label has the label `""`, and `delete_edge` without one compares with `%` by `=` (`graph.c:587`, `607`), so it does not reach it.
- `X-Forwarded-For` is never found, since names are kept in lower case and asked for as written (`session.c:149`): the login
  always takes the peer's address, although `session.c:160` speaks of the header's. A header behind eight others is not found either.
- A header line without a colon, with a header behind it, is taken to have that one's, and its value's length is negative (`utils.c:291-303`).
- A Hawk key is found inside another attribute's value (`hawk.c:92`), and a comma in a value ends it (`hawk.c:105`).
- Every request leaves memory behind: `db_wait`'s event base and event (`db.c:42-49`), results at `db.c:152` and `161`, the key at `db.c:373`.
- `sda.c:50` writes into a buffer of size 0 in each `encrypt` (`sda.c:411`); `sda.c:150-151` write behind arrays of 4 elements, and
  of a short passphrase; `sda.c:72` leaves a byte unset between the string and its zero.
- `encrypt` and `decrypt` of the archive print nothing, as the length of what `crypt` returns is never set.

## 5. Proofs

Everything here holds for all values of the constants under the assumptions their modules
name; TLC evaluates those assumptions in the runs of the module.

**DbExchangeProofs**: `TypeCorrect`, `IdleIsDrained`, `ConnectionIsConsistent`, `SessionIsWedgedForGood`, `NoRowsAreOlder`, for any set of threads, any set of
answers, any number of requests and of pieces. Beyond types, `TypeOK` says that the cursors stay in order and
that the write budget never goes below 0, which the test `count <= 0` relies on.
`IdleMeansDrained` is not inductive: to know that an idle connection
has nothing left to parse, one must know that the ReadyForQuery that made it idle was
the last message of the stream. `ConnectionInv` adds that of what is still
to be parsed exactly the last message is a ReadyForQuery; that a query which is partly
unsent has no answer yet; and that a ready result is the message parsed last.
It is kept because a query is accepted only in state `idle` on an open
connection, so that a new answer is appended to a stream parsed to its end, and
the rest of a stream always belongs to one answer. There is a lemma for each
operator of libpq (`ParseFacts`, `DeliverFacts`, `PushFacts`), one for what each kind of step
does to the connection and to a thread's own variables, and one per action.
Assumed: `RepliesAssumption`, that each answer ends with its one
ReadyForQuery and that an error is its last result, which is PostgreSQL's protocol, and
`BoundsAssumption`, that bounds are natural numbers.
That a stuck session stays stuck needs one fact more, `Attended`: while there is a message left
that would end libpq's waiting, some thread is inside `db_response`. All that read are there, and they
leave after they have parsed what they read, so that `PQisBusy` and `PQsendQuery` of
later requests find nothing to parse and libpq cannot leave `busy` behind everybody's back.
`NoRowsAreOlder` needs to know where a thread is in the stream (`Place`): before its query is accepted its request has no
answer; afterwards, as long as none has arrived, there is nothing to take and no other query is accepted (or the
connection is lost); and then whatever is left to take is of its own answer or `Behind` it. `Holds` says the same of the row in hand and of the body.

Its second part is for one thread (`Workers = {w}`), that is, for a session whose requests come one
at a time: `SessionImplementsService`, the refinement of `QueryService`; `StatusesMatchAnswers`; `BodiesAreOwnAnswers`; and `BodiesAreFramed`.

- For the first the strengthening is `Quiet` and `Closed`. Between requests, and
  until the first input of its answer, a busy connection has nothing left to parse, so
  libpq cannot leave `busy` behind the thread's back; and a closed connection is noticed only when nothing
  is left to parse or by the error libpq makes of it. Each action then is a step of the service or a
  stutter (`Serves`).
- For the second, `TInv` adds that an error ends its answer; that a result in hand is the message
  parsed last; that messages in the stream are numbered by their request; that
  none of the request's own results was passed over; and what the request has been told so far
  (no error, an error seen, COPY).
- `BodiesAreOwnAnswers` counts. While an answer is being read (`Counting`), the body holds as many rows as were
  taken from the stream for this request, less the one in hand, and all of them are its own (`Body`). No row
  is passed over by the parser (`ParsePassesRows`), and the blank that replaces the last comma never falls on a row.
- `BodiesAreFramed` follows the body's growth: nothing, an array that is open behind its last row's comma
  (`OpenArray`), an array closed (`ClosedArray`). `Shape` relates that to the stream: it is open only while the message
  taken last is a row, and closed only if no row of this request is left. `Flag` says that `single` is set once a row was
  printed, and that nothing is printed before one, so an end of rows blanks either that row's comma or nothing of the body. Assumed: `OneSetOfRows`, that
  the rows of an answer follow one another until its end of rows or an error, and come once; without it the code does
  produce bodies that are no array. TLC evaluates it for the answers of the runs (`OneSetAssumption`).

**SessionsProofs**, for any threads, sessions, timeout, period and modulus, and with any number of sweeps at once:
`TypeCorrect`, `TableStaysOpen`, `CutsAreLate`, and, if all clients have IPv4 addresses, `ConnectionsAreKept`.
`Inv` has one part per idea: `Fresh` (a session about to be stored is known to its login alone), `Created`, `Unlinked` (a
session is out of the table before it is finished), `Timely` (deadlines are counted from clocks that were read,
now or earlier), `CutWhenOver` (what is finished, or about to be, was late, logged out or past its deadline). The
wrapped comparison is the lemma that a session whose deadline is not past is not `Expired` whatever
`M` is, by `ConstantsAssumption`.

The module's second part is for one thread: `UsedIsOpen`, `NoSessionExpiresEarly`, `SweepsAreComplete`, `RequestsGetFreshSessions`. With
more, a deadline may be counted from a clock read long before its session was last used, so these do not hold. `Alone` says that the loop and
its sweep are in the one thread's hands, `Counted` that deadlines are counted from the last use. `Rearmed` bounds the timer
by one period ahead and `MaxQuiet` behind; `Young` the age of entries before, during and
after a sweep, so that, by `ConstantsAssumption`, an expired
session never looks alive; `Given` what a request was given.

**EndpointsProofs**, for any servlets, commands and JSON classes: `QueriesHaveSessions`, `AnswersAreAwaitedOnce`,
`RoutingIsDeclared`, `AnswersHaveOneBody`, `OnlyRefusalsKeep`. `AccessInv` adds that the endpoint being called is one of the
tables', and one of the open ones if there is no session. `Entries` shows that of
each of the nine tables; `OpenOutcome` that the open endpoints answer by
themselves; `EndpointsAreSound`, endpoint by endpoint, that a return without
a query is never a return of 0. The chains of checks share one lemma,
`CheckedOutcome`: a chain comes to its end, or answers as one of its checks says. `RouteInv` says what the
entries passed so far were; `ReplyInv` counts bodies and what is kept at each stage,
of the endpoint's own and of `Common`.
Assumed: `ScriptsAssumption`, that the servlets are among the nine, and `TypesAssumption`.

**DocumentsProofs**, for any sessions, names, documents and patches: `TypeCorrect`, `CollectionsAreWhole`,
`TheDeadStayDead`, `UpdatesLoseOnlyToOverlap`. The inductive `Inv` adds that DDL works on
collections' own tables, how indexes are named, and `Snapshot`: a statement's base was a row
that is there or was deleted, and is the row itself while the statement is alone. Assumed: that nulls and missing
values are different from the names and members they stand beside. Of the bytes of a pointer nothing is assumed.

**GraphProofs**: `TypeCorrect`, that edges always satisfy the table's constraints, whatever arrays a request
has. Constraints are a property of a set of edges (`Kept`); fewer edges keep it
(`FewerAreKept`), one that is insertable keeps it (`OneMoreIsKept`), so the rows of a whole request do
(`RowsAreKept`, by the order in which they are inserted).

Its second part is about the two queries: `WalksAreListed`, `NearestAreFirst`, `NullFindsNothing`. A recursive
function such as `traverse`'s rows by depth is a CHOOSE of one that satisfies its equation, so each is first given a
closed form: `RowsOf` (the rows of the walks of d nodes) and `Reached` (the ends of walks of at most d nodes).
That the closed form satisfies the equation is shown, and that nothing else does by induction, which is said
without a predicate parameter: two functions that differ have a least argument where they do (`LeastOf`,
`SameFrom`). A walk that may go on has met as many names as nodes (`FreshIsShort`, by counting), so
none is left at the bound on depth and the recursion has ended there (`NoneLeft`). For distances, a node at the
end of a walk is also at the end of one that is no longer and meets no name twice (`FreshEnd`). `NothingFromNull` is
inductive with `FromNodes`: until an edge is posted in SQL, edges begin at nodes. Assumed:
`FiniteAssumption`, that nodes and names are finitely many and that there is a name; uuids and
names of bounded length are.

**HeadersProofs**, for any requests, with any number of headers and any pieces of an Authorization value: `FaultsAreOnlyTwo`,
`HeadersAreRead`, `ArtifactsAreFound`. `Copied` says that the headers are the lines with a name and a colon, in
their order, so that the number of such lines before a line is its place in the list: that is what turns the
limits on the list into ones on what the client sent. `Stages` says what each stage has behind it, and `Ordered`
that in a value laid out as `LaidOut` describes the search has taken, key by key, the values of their attributes and goes on
right behind the last (`Along`). Assumed: `RequestsAssumption`, and `NoColonAssumption`,
that no header has the name that stands for a line without one.

**ServerProofs**, for any clients and requests: `TypeCorrect`, `RequestsHaveTheRecord`, `RootIsRedirected`. `Started` relates the
record, the query character and the scripts; `Good` what a client's stage, code and output may be.

**ArchiveProofs**, for texts and arrays of any length: `PushesAllFit`, `FormsAreReadBack`, `TextsAreUnpacked`. `Inv` adds what a half-done
job has behind it: `Forming`, that the line and the form hold what is `Written` of the array so far, and `Expanding`, that
eight characters are there for every seven bytes read. The arithmetic is apart from the loops: two neighbouring bytes give
back the bits they share (`CharacterComesBack`), so a text's character comes back from the bytes it was spread
over (`CharacterIsUnpacked`), and three bytes from their four digits (`GroupIsRead`, from one lemma for each byte). `MoreFits` and `EachFits` are
what growing before writing comes to: `Fits`, that there is room for the zero behind the byte behind the string. `FormsAreReadBack` is for arrays
of a line (48 words) that have no zero in a place where it would be left out, and says that the byte left unset behind the form, if it is a
character, is read as one byte more (`EndIsRead`). Assumed: `InputsAssumption`, that texts hold characters of seven
bits and arrays integers, of which 16 bits are kept as only low bytes are used.

Only model-checked: `EveryRequestAnswered` and `StreamsEnd`, as liveness under fairness is beyond the provers.
Every other property of a passing run is a theorem. `BodyIsOwnAnswer`, `StatusMatchesAnswer`, `BodyIsFramed` and the refinement
do not hold for threads that share a session (section 4), so their proofs are for one.

## 6. What is not modelled

- G-WAN, libpq, libevent, the key-value store, PostgreSQL: only as the code uses them.
- Of the database endpoints' SQL (lists, VACUUM, CREATE and DROP DATABASE) only that it is sent,
  with what checks and statuses; it changes nothing the adapter later relies on.
- Queries of documents (`find_document` and the reading endpoints) beyond checks and
  statuses: they change nothing.
- A sweep that closes a connection in the middle of `db_response`, as one model. `Sessions` has the
  sweep cut a request off, and says when; what libpq then does with a freed `PGconn` is undefined.
- The text of a row (`db.c:191-234`), which depends on names and values of columns: in the model a row is one token.
- How much the leaks of every request come to: `Endpoints` says which kinds there are (`Common`), not how many of each.
- What writes outside of the archive's arrays and buffers do to other memory.
- What the key-value store does with an entry deleted in the middle of `kv_do`, and libevent's timer heap under threads it was not told of.
- `unquote` and `strjoin`, which only shape texts inside messages and queries; `isToken`, `isBase64` and `strcsv`
  have no caller, nor have `db_close` and `db_isConnected`.
- Two sets of rows in one answer: the code's comment (`db.c:177-178`) excludes it. `OneSetOfRows` says so, and is
  where `BodyIsFramed` is checked and proved; the other theorems about the exchange do not need it.
- What a freed string holds when it is printed into a query (`collection.c:119`, `database.c:198`).
- The configuration is there (`init.c` always makes one), so `session_login`'s 500 and 502 for a missing
  one are left out of `Endpoints`; `Server` has the one for a missing record.
- MD5 and SHA-1; the batch servlet, pages and installation scripts.

## 7. What is left

1. `Sessions` and `DbExchange` composed, with a use-after-close as an outcome of its own.
2. `Documents` and `Graph` under concurrent sessions in one model: nodes are documents, and an edge's
   request is several statements.
3. `unquote` and `strjoin` as functions against reference definitions.
