----------------------------- MODULE Endpoints ------------------------------
(***************************************************************************)
(* One request from the dispatcher (exec_endpoint, libraries/postrest/     *)
(* utils.c) through its endpoint (csp/*.c) to its answer: which entry of a *)
(* servlet's table serves it, how the endpoint checks its parameters and   *)
(* its JSON entity, what the endpoint holds when it returns, and whether a *)
(* query is sent.  The query itself is served by the session, of which     *)
(* only QueryService's promise is used.                                    *)
(*                                                                         *)
(* SQL texts are not modelled.  A parameter or a JSON value is modelled by *)
(* its class: what the validators of utils.c tell apart.                   *)
(***************************************************************************)
EXTENDS Integers, Sequences, FiniteSets

CONSTANTS Scripts,   \* the servlets under csp/
          Unlisted,  \* commands that clients try and no table has
          Types      \* classes of JSON values

Methods == {"GET", "PUT", "POST", "DELETE"}
Anything == "*"      \* an entry with cmd 0

(* Parameter classes: "text" passes isString only, "escaped" does too but  *)
(* decodes to what isString rejects, "bad" is rejected by every validator; *)
(* "null" starts with that word.                                           *)
Classes == {"absent", "word", "null", "uuid", "digits", "text", "escaped", "bad"}

(* JSON classes: strings as above; arrays by their items: "array" of what  *)
(* the endpoint asks for, "mixed" with nulls, booleans or other objects.   *)
AllTypes == {"absent", "null", "true", "node", "array", "mixed",
             "word", "uuid", "text", "bad"}
ASSUME TypesAssumption == Types \subseteq AllTypes /\ "absent" \in Types

Servlets == {"database", "collection", "index", "query", "document", "graph",
             "session", "oauth", "hawk"}
ASSUME ScriptsAssumption == Scripts \subseteq Servlets

-----------------------------------------------------------------------------
(* The validators, on classes.                                             *)

strword(c)  == c \in {"word", "null", "uuid", "digits", "sql"}
isString(c) == strword(c) \/ c \in {"text", "escaped"}
strdigit(c) == c = "digits"
url_decode(c) == IF c = "escaped" THEN "bad" ELSE c

\* isUUID: 36 characters, none rejected.  Code points of a well-formed one:
UuidChars == (48..57) \cup (97..102) \cup {45}
Rejected(c) == (c < 48 \/ c > 102) \/ (c > 57 /\ c < 97) \/ c # 45
isUUID(c) == c = "uuid" /\ \A x \in UuidChars : ~Rejected(x)

JsonString(t) == t \in {"word", "uuid", "text", "bad", "sql"}
Optional(t, ok) == t = "absent" \/ ok

-----------------------------------------------------------------------------
(* What an endpoint does: a sequence of checks, the first that fails ends  *)
(* it with db_error; then it returns a status or sends a query.            *)

\* A check, the status if it fails, and what is then still allocated.
Check(ok, code) == [ok |-> ok, code |-> code, kept |-> {}]
Leaving(S, ok, code) == [ok |-> ok, code |-> code, kept |-> S]

Returns(code, bodies, kept) ==
  [do |-> "return", code |-> code, bodies |-> bodies, kept |-> kept]
Query(held) == [do |-> "send", code |-> 0, bodies |-> 0, kept |-> held]
Faults == [do |-> "fault", code |-> 0, bodies |-> 0, kept |-> {}]

\* Mutant: after a failed check the endpoint goes on, as session_get does.
CheckedGoesOn(checks, rest) ==
  {[o EXCEPT !.bodies = @ + Cardinality({i \in DOMAIN checks : ~checks[i].ok})] : o \in rest}

\* The outcomes of an endpoint with these checks, and `rest` if all pass.
Checked(checks, rest) ==
  LET failing == {i \in DOMAIN checks : ~checks[i].ok}
      first   == CHOOSE i \in failing : \A j \in failing : i <= j
  IN  IF failing = {} THEN rest
      ELSE {Returns(checks[first].code, 1, checks[first].kept)}

Word(c) == Check(strword(c), 422)
Parsed(e, code) == Check(e.kind = "json", code)
ParsedIfAny(e)  == Check(e.kind # "bad", 400)

\* Mutant: a stub returns 0.
StubReturnsZero == {Returns(0, 0, {})}
NotImplemented == {Returns(501, 0, {})}

-----------------------------------------------------------------------------
(* csp/database.c, collection.c, index.c, query.c.                         *)

\* get_list, get_stats, get_users, get_grants: a constant text.
get_constant == {Query({})}
get_tables == {Query({"query"})}
get_active == {Query({"query"})}

\* Answered from the connection's state, without a query.
get_version == {Returns(500, 1, {}), Returns(200, 1, {})}

vacuum_database(e) ==
  LET op == e.m["options"]
      joined == IF op = "node" THEN {{}, {"options"}} ELSE {{}}
  IN  UNION {Checked(
        <<ParsedIfAny(e),
          Check(Optional(op, op = "node"), 400),
          Leaving(o, Optional(e.m["table"], JsonString(e.m["table"])), 400),
          Leaving(o, Optional(e.m["columns"], e.m["columns"] \in {"array", "mixed"}), 400),
          Leaving(o, e.m["columns"] # "mixed", 400)>>,
        {Query({"query", "options", "columns"})}) : o \in joined}

create_database(p, e) ==
  Checked(<<Word(p[1]), ParsedIfAny(e)>>, {Query({"query"})})
shutdown_database(p) == Checked(<<Word(p[1])>>, {Query({"query"})})
delete_database(p)   == Checked(<<Word(p[1])>>, {Query({"query"})})

delete_collection(p, e) ==
  Checked(<<Word(p[1]), ParsedIfAny(e)>>, {Query({"query"})})

create_collection(p, e) ==
  Checked(<<Word(p[1]), ParsedIfAny(e),
            Check(Optional(e.m["index"],
                           JsonString(e.m["index"]) /\ strword(e.m["index"])), 400)>>,
          {Query({"query"})})

delete_index(p, e) ==
  Checked(<<Word(p[1]), Word(p[2]), ParsedIfAny(e)>>, {Query({"query"})})

create_index(p, e) ==
  Checked(<<Word(p[1]), Parsed(e, 400),
            Check(JsonString(e.m["field"]) /\ strword(e.m["field"]), 400)>>,
          {Query({"query", "json"})})

\* Parameters: the table and the options -offset=, -limit= and -order=.
get_query(p) ==
  Checked(<<Check(Optional(p[2], strdigit(p[2])), 422),
            Check(Optional(p[3], strdigit(p[3])), 422),
            Check(Optional(p[4], strword(p[4])), 422)>>,
          {Query({"query"})})

post_query(e) ==
  Checked(<<Parsed(e, 422), Check(e.m["type"] = "sql", 400),
            Check(JsonString(e.m["query"]), 400)>>,
          {Query({"json"})})

-----------------------------------------------------------------------------
(* csp/document.c: the JSON tree is not freed when a member is refused.    *)

get_document(p) == Checked(<<Word(p[1]), Word(p[2])>>, {Query({"query"})})

getbyname_document(p) ==
  Checked(<<Word(p[1]), Check(isString(p[2]), 422),
            Check(isString(url_decode(p[2])), 422)>>, {Query({"query"})})

\* list_document and all_document; limit and offset go through atoi.
list_document(p) == Checked(<<Word(p[1])>>, {Query({"query"})})

find_document(p, e) ==
  Checked(<<Word(p[1]), Parsed(e, 400)>>, {Query({"query", "json"})})

create_document(p, e) ==
  LET one == e.m["document"]
      many == e.m["documents"]
  IN  Checked(<<Word(p[1]), Parsed(e, 400),
                Leaving({"json"}, Optional(one, one = "node"), 400),
                Leaving({"json"}, IF one # "absent"
                                  THEN Optional(e.m["name"], JsonString(e.m["name"]))
                                  ELSE many = "array", 400)>>,
              {Query({"query", "json"})})

\* set_document and update_document differ in their SQL only.
set_document(p, e) ==
  LET name == e.m["name"]
      document == e.m["document"]
  IN  Checked(<<Word(p[1]), Word(p[2]), Parsed(e, 400),
                Leaving({"json"}, Optional(name, JsonString(name)), 400),
                Leaving({"json"}, name # "absent" \/ document # "absent", 400),
                Leaving({"json"}, Optional(document, document = "node"), 400)>>,
              {Query({"query", "json"})})

update_document(p, e) == set_document(p, e)

delete_document(p) == Checked(<<Word(p[1]), Word(p[2])>>, {Query({"query"})})

-----------------------------------------------------------------------------
(* csp/graph.c.                                                            *)

\* The direction is looked for in a pointer that is always null.
get_node(p) ==
  LET direction == "absent"
  IN  Checked(<<Word(p[1]), Check(p[2] # "absent" /\ isString(p[2]), 422),
                Check(Optional(p[3], strword(direction)), 422)>>, {Query({"query"})})

NodeOrNull(c) == Check(c \in {"absent", "null"} \/ isUUID(c), 422)

get_adjacent(p) ==
  Checked(<<Word(p[1]), NodeOrNull(p[2]), Check(Optional(p[3], isString(p[3])), 422)>>,
          {Query({"query"})})

traverse(p) ==
  Checked(<<Word(p[1]), NodeOrNull(p[2]), NodeOrNull(p[3]),
            Check(Optional(p[4], strword(p[4])), 422)>>, {Query({"query"})})

delete_graph(p) == Checked(<<Check(strword(p[1]), 400)>>, {Query({"query"})})

\* Mutant: the JSON tree is not freed when the name is refused.
create_graph_leaks(e) ==
  Checked(<<Parsed(e, 400),
            Leaving({"json"}, JsonString(e.m["name"]) /\ strword(e.m["name"]), 400)>>,
          {Query({"query"})})

create_graph(e) ==
  Checked(<<Parsed(e, 400),
            Check(JsonString(e.m["name"]) /\ strword(e.m["name"]), 400)>>,
          {Query({"query"})})

\* create_edge and delete_edge: an end that is null is dereferenced.
End(t) == Check(t # "absent" /\ (JsonString(t) => isUUID(t)), 400)

create_edge(p, e) ==
  LET from == e.m["from"]
      to == e.m["to"]
      label == e.m["label"]
  IN  Checked(<<Word(p[1]), Parsed(e, 400), End(from), End(to),
                Check(Optional(label, JsonString(label) /\ isString(label)), 400)>>,
              IF "null" \in {from, to} THEN {Faults} ELSE {Query({"query", "json"})})

delete_edge(p, e) == create_edge(p, e)

-----------------------------------------------------------------------------
(* csp/session.c, oauth.c, hawk.c: endpoints that send no query.           *)

\* The messages about the parameters do not end session_get.
session_get(p) ==
  IF p[1] = "absent" \/ p[2] = "absent" THEN {Returns(400, 1, {})}
  ELSE {Returns(200, 1 + Cardinality({i \in 1..2 : ~strword(p[i])}), {})}

\* The head of a response is put into the reply too, before its body.
bad_request(code) == Returns(code, 1, {})

session_login(e, db) ==
  LET WordIfAny(t) == Optional(t, JsonString(t) /\ strword(t))
  IN  IF db THEN {Returns(200, 0, {})}
      ELSE Checked(<<Parsed(e, 400), Check(JsonString(e.m["username"]), 400),
                     Check(JsonString(e.m["password"]), 400),
                     Check(WordIfAny(e.m["database"]), 400),
                     Check(WordIfAny(e.m["schema"]), 400)>>,
                   {bad_request(401), Returns(230, 1, {}),
                    Returns(400, 1, {"json", "conn"})})

session_logout == {Returns(200, 1, {})}
get_authorize  == {Returns(202, 0, {})}
get_token      == {Returns(230, 1, {})}
get_all        == {Returns(200, 0, {}), Returns(400, 0, {})}

-----------------------------------------------------------------------------
(* The servlets' tables: entries in the order they are tried.              *)

Entry(method, cmd, endpoint) ==
  [method |-> method, cmd |-> cmd, endpoint |-> endpoint, open |-> FALSE]
Open(entry) == [entry EXCEPT !.open = TRUE]      \* EP_PERMIT_UNAUTH

DatabaseTable ==
  <<Entry("GET", "list", "get_constant"), Entry("GET", "tables", "get_tables"),
    Entry("GET", "stats", "get_constant"), Entry("GET", "users", "get_constant"),
    Entry("GET", "grants", "get_constant"), Entry("GET", "active", "get_active"),
    Entry("GET", "version", "get_version"), Entry("PUT", "vacuum", "vacuum_database"),
    Entry("PUT", "shutdown", "shutdown_database"),
    Entry("POST", Anything, "create_database"),
    Entry("DELETE", Anything, "delete_database")>>

CollectionTable ==
  <<Entry("GET", Anything, "not_implemented"), Entry("PUT", Anything, "not_implemented"),
    Entry("POST", Anything, "create_collection"),
    Entry("DELETE", Anything, "delete_collection")>>

IndexTable ==
  <<Entry("GET", Anything, "not_implemented"), Entry("PUT", Anything, "not_implemented"),
    Entry("POST", Anything, "create_index"), Entry("DELETE", Anything, "delete_index")>>

QueryTable ==
  <<Entry("GET", Anything, "get_query"), Entry("POST", Anything, "post_query")>>

DocumentTable ==
  <<Entry("GET", "get", "get_document"), Entry("GET", "name", "getbyname_document"),
    Entry("GET", "list", "list_document"), Entry("GET", "all", "list_document"),
    Entry("PUT", Anything, "update_document"), Entry("POST", "create", "create_document"),
    Entry("POST", "find", "find_document"), Entry("POST", "set", "set_document"),
    Entry("DELETE", Anything, "delete_document")>>

GraphTable ==
  <<Entry("GET", "adjacent", "get_adjacent"), Entry("GET", "traverse", "traverse"),
    Entry("GET", "node", "get_node"), Entry("POST", "graph", "create_graph"),
    Entry("POST", "edge", "create_edge"), Entry("DELETE", "graph", "delete_graph"),
    Entry("DELETE", "edge", "delete_edge")>>

SessionTable ==
  <<Open(Entry("GET", Anything, "session_get")),
    Open(Entry("POST", Anything, "session_login")),
    Entry("DELETE", Anything, "session_logout")>>

OauthTable ==
  <<Open(Entry("GET", "authorize", "get_authorize")), Open(Entry("POST", "token", "get_token")),
    Open(Entry("GET", Anything, "get_all"))>>

HawkTable ==
  <<Open(Entry("GET", "authorize", "get_authorize")), Open(Entry("GET", "token", "get_token")),
    Open(Entry("GET", Anything, "get_all"))>>

Table(s) ==
  CASE s = "database" -> DatabaseTable [] s = "collection" -> CollectionTable
    [] s = "index" -> IndexTable       [] s = "query" -> QueryTable
    [] s = "document" -> DocumentTable [] s = "graph" -> GraphTable
    [] s = "session" -> SessionTable   [] s = "oauth" -> OauthTable
    [] s = "hawk" -> HawkTable

Outcomes(h, p, e, db) ==
  CASE h = "get_constant" -> get_constant       [] h = "get_tables" -> get_tables
    [] h = "get_active" -> get_active           [] h = "get_version" -> get_version
    [] h = "vacuum_database" -> vacuum_database(e)
    [] h = "create_database" -> create_database(p, e)
    [] h = "shutdown_database" -> shutdown_database(p)
    [] h = "delete_database" -> delete_database(p)
    [] h = "not_implemented" -> NotImplemented
    [] h = "create_collection" -> create_collection(p, e)
    [] h = "delete_collection" -> delete_collection(p, e)
    [] h = "create_index" -> create_index(p, e) [] h = "delete_index" -> delete_index(p, e)
    [] h = "get_query" -> get_query(p)          [] h = "post_query" -> post_query(e)
    [] h = "get_document" -> get_document(p)
    [] h = "getbyname_document" -> getbyname_document(p)
    [] h = "list_document" -> list_document(p)
    [] h = "find_document" -> find_document(p, e)
    [] h = "create_document" -> create_document(p, e)
    [] h = "set_document" -> set_document(p, e)
    [] h = "update_document" -> update_document(p, e)
    [] h = "delete_document" -> delete_document(p)
    [] h = "get_node" -> get_node(p)            [] h = "get_adjacent" -> get_adjacent(p)
    [] h = "traverse" -> traverse(p)            [] h = "create_graph" -> create_graph(e)
    [] h = "delete_graph" -> delete_graph(p)    [] h = "create_edge" -> create_edge(p, e)
    [] h = "delete_edge" -> delete_edge(p, e)   [] h = "session_get" -> session_get(p)
    [] h = "session_login" -> session_login(e, db)
    [] h = "session_logout" -> session_logout
    [] h = "get_authorize" -> get_authorize     [] h = "get_token" -> get_token
    [] h = "get_all" -> get_all

(* What an endpoint looks at: how many parameters, and which members.      *)
Arity(h) ==
  CASE h \in {"traverse", "get_query"} -> 4
    [] h \in {"get_node", "get_adjacent"} -> 3
    [] h \in {"get_document", "getbyname_document", "set_document", "update_document",
              "delete_document", "delete_index", "session_get"} -> 2
    [] h \in {"create_database", "shutdown_database", "delete_database",
              "create_collection", "delete_collection", "create_index", "list_document",
              "find_document", "create_document", "delete_graph", "create_edge",
              "delete_edge"} -> 1
    [] OTHER -> 0

Members(h) ==
  CASE h = "vacuum_database" -> {"options", "table", "columns"}
    [] h = "create_collection" -> {"index"}
    [] h = "create_index" -> {"field"}
    [] h = "post_query" -> {"type", "query"}
    [] h = "create_document" -> {"document", "documents", "name"}
    [] h \in {"set_document", "update_document"} -> {"name", "document"}
    [] h = "create_graph" -> {"name"}
    [] h \in {"create_edge", "delete_edge"} -> {"from", "to", "label"}
    [] h = "session_login" -> {"username", "password", "database", "schema"}
    [] OTHER -> {}

MemberTypes(x) == CASE x = "type" -> Types \cup {"sql"}
                    [] x \in {"from", "to"} -> Types \ {"mixed"}
                    [] x \in {"username", "password", "database", "schema"} ->
                         Types \cap {"absent", "null", "word", "text"}
                    [] OTHER -> Types

\* Parameters are given from the left, but for get_query's named options.
Parameters(h) ==
  {p \in [1..4 -> Classes] :
     /\ \A i \in (Arity(h) + 1)..4 : p[i] = "absent"
     /\ h # "get_query" => \A i \in 1..3 : p[i] = "absent" => p[i + 1] = "absent"}

NoMembers(h) == [x \in Members(h) |-> "absent"]
Entities(h) ==
  {[kind |-> k, m |-> NoMembers(h)] : k \in {"none", "bad"}} \cup
  {[kind |-> "json", m |-> m] : m \in
     {f \in [Members(h) -> Types \cup {"sql"}] : \A x \in Members(h) : f[x] \in MemberTypes(x)}}

-----------------------------------------------------------------------------
VARIABLES
  pc, script, method, cmd,
  db,              \* db_session found a session
  index, allowed,  \* the dispatcher's loop
  endpoint, p, e,  \* the endpoint called, its parameters and its entity
  status, bodies,  \* the answer: status, and how often a text was written
  kept,            \* what is allocated and not freed
  serving, conn, answer  \* the session's QueryService

Service == INSTANCE QueryService

(* What a request leaves behind whichever endpoint serves it: the copy of  *)
(* its key, the event and base of each db_wait, results without PQclear.   *)
Common == {"key", "event", "result"}

request == <<script, method, cmd, db>>
call    == <<endpoint, p, e>>
reply   == <<status, bodies, kept>>
service == <<serving, conn, answer>>
vars    == <<pc, request, index, allowed, call, reply, service>>

NoParameters == [i \in 1..4 |-> "absent"]
NoEntity     == [kind |-> "none", m |-> NoMembers("none")]

Init ==
  /\ pc = "idle"
  /\ script \in Scripts /\ method = "GET" /\ cmd = "" /\ db = FALSE
  /\ index = 1 /\ allowed = FALSE
  /\ endpoint = "none" /\ p = NoParameters /\ e = NoEntity
  /\ status = 0 /\ bodies = 0 /\ kept = {}
  /\ Service!Init

Commands(s) ==
  ({Table(s)[i].cmd : i \in DOMAIN Table(s)} \ {Anything}) \cup {""} \cup Unlisted

\* A request arrives and db_session looks its session up.
Arrive ==
  /\ pc = "idle" /\ pc' = "scan"
  /\ script' \in Scripts /\ method' \in Methods /\ cmd' \in Commands(script')
  /\ db' \in BOOLEAN
  /\ kept' \in {{}, {"key"}}
  /\ UNCHANGED <<index, allowed, call, status, bodies, service>>

Current == Table(script)[index]
Matches(entry) == entry.cmd = Anything \/ (cmd # "" /\ cmd = entry.cmd)

Respond(code, b) ==
  /\ pc' = "answered" /\ status' = code /\ bodies' = bodies + b

Skip ==
  /\ pc = "scan" /\ index <= Len(Table(script))
  /\ Current.method # method
  /\ index' = index + 1
  /\ UNCHANGED <<pc, request, allowed, call, reply, service>>

\* Mutant: the entry of another command does not count as the method's.
MismatchForgets ==
  /\ pc = "scan" /\ index <= Len(Table(script))
  /\ Current.method = method /\ ~Matches(Current)
  /\ index' = index + 1 /\ UNCHANGED allowed
  /\ UNCHANGED <<pc, request, call, reply, service>>

Mismatch ==
  /\ pc = "scan" /\ index <= Len(Table(script))
  /\ Current.method = method /\ ~Matches(Current)
  /\ index' = index + 1 /\ allowed' = TRUE
  /\ UNCHANGED <<pc, request, call, reply, service>>

Unauthorized ==
  /\ pc = "scan" /\ index <= Len(Table(script))
  /\ Current.method = method /\ Matches(Current)
  /\ ~db /\ ~Current.open
  /\ Respond(401, 1)
  /\ UNCHANGED <<request, index, allowed, call, kept, service>>

\* Mutant: only entries with a command of their own are protected.
DispatchAnyone ==
  /\ pc = "scan" /\ index <= Len(Table(script))
  /\ Current.method = method /\ Matches(Current)
  /\ db \/ Current.open \/ Current.cmd = Anything
  /\ endpoint' = Current.endpoint
  /\ p' \in Parameters(endpoint') /\ e' \in Entities(endpoint')
  /\ pc' = "call"
  /\ UNCHANGED <<request, index, allowed, reply, service>>

\* The command is the first parameter of an endpoint that takes any command.
Dispatch ==
  /\ pc = "scan" /\ index <= Len(Table(script))
  /\ Current.method = method /\ Matches(Current)
  /\ db \/ Current.open
  /\ endpoint' = Current.endpoint
  /\ p' \in {x \in Parameters(endpoint') :
               Current.cmd = Anything /\ Arity(endpoint') > 0 =>
                 (x[1] = "absent") = (cmd = "")}
  /\ e' \in Entities(endpoint')
  /\ pc' = "call"
  /\ UNCHANGED <<request, index, allowed, reply, service>>

NotFound ==
  /\ pc = "scan" /\ index > Len(Table(script))
  /\ Respond(IF allowed THEN 404 ELSE 405, 1)
  /\ UNCHANGED <<request, index, allowed, call, kept, service>>

\* The endpoint returns a status, 0 asking for db_response, or comes to db_send.
Call ==
  /\ pc = "call"
  /\ \E o \in Outcomes(endpoint, p, e, db) :
       /\ kept' = kept \cup o.kept /\ bodies' = o.bodies /\ status' = o.code
       /\ pc' = CASE o.do = "return" -> IF o.code = 0 THEN "response" ELSE "answered"
                  [] OTHER -> o.do
       /\ IF o.do = "send" THEN Service!Accept ELSE UNCHANGED service
  /\ UNCHANGED <<request, index, allowed, call>>

\* db_send fails; the endpoint frees what it holds and returns the status.
SendFails ==
  /\ pc = "send"
  /\ Service!Fail
  /\ \E code \in {429, 500} : Respond(code, 1)
  /\ \E left \in {{}, {"event"}} : kept' = (kept \cap Common) \cup left
  /\ UNCHANGED <<request, index, allowed, call>>

Sent ==
  /\ pc = "send" /\ conn = "clean"
  /\ pc' = "response"
  /\ \E left \in {{}, {"event"}} : kept' = (kept \cap Common) \cup left
  /\ UNCHANGED <<request, index, allowed, call, status, bodies, service>>

\* The endpoint returned 0: db_response reads the answer.  If it gives up, it
\* appends its message to the rows that it has read.
Response ==
  /\ pc = "response"
  /\ \/ Service!Complete /\ Respond(200, 1)
     \/ Service!Reject /\ Respond(400, 1)
     \/ Service!Fail /\ \E n \in 1..2 : Respond(500, n)
  /\ \E left \in {{"event"}, {"event", "result"}} : kept' = kept \cup left
  /\ UNCHANGED <<request, index, allowed, call>>

\* The answer is sent and the servlet is free for another request.
Close ==
  /\ pc = "answered" /\ pc' = "idle"
  /\ endpoint' = "none" /\ p' = NoParameters /\ e' = NoEntity
  /\ index' = 1 /\ allowed' = FALSE
  /\ status' = 0 /\ bodies' = 0 /\ kept' = {}
  /\ UNCHANGED <<request, service>>

\* A fault ends the server.
Down == pc = "fault" /\ UNCHANGED vars

Next ==
  \/ Arrive \/ Skip \/ Mismatch \/ Unauthorized \/ Dispatch \/ NotFound
  \/ Call \/ SendFails \/ Sent \/ Response \/ Close \/ Down

Spec == Init /\ [][Next]_vars
-----------------------------------------------------------------------------
Hits == {i \in DOMAIN Table(script) :
           Table(script)[i].method = method /\ Matches(Table(script)[i])}

(* The loop of exec_endpoint serves a request with the first entry of its  *)
(* method and command; answers 401 if that entry needs a session, 405 if   *)
(* the servlet has no entry for the method, and 404 otherwise, wherever in *)
(* the table the entries stand (utils.c:390-413).                          *)
RoutedAsDeclared ==
  /\ endpoint # "none" => index \in Hits /\ \A j \in Hits : index <= j
  /\ pc = "answered" /\ endpoint = "none" =>
       \/ Hits # {} /\ status = 401 /\ ~db /\ \A j \in Hits : index <= j
       \/ Hits = {} /\ status = IF \E i \in DOMAIN Table(script) :
                                    Table(script)[i].method = method
                               THEN 404 ELSE 405

(* Without a session no query is sent and no answer is awaited: the db_t   *)
(* that db_send and db_response dereference is there.  It takes the tables' *)
(* flags, the dispatcher's check, and that no endpoint open to everybody   *)
(* returns 0 (utils.c:395-402, the tables of session.c, oauth.c, hawk.c).  *)
QueryNeedsSession == pc \in {"send", "response"} => db

(* db_response is only called when this request's query was accepted: an   *)
(* endpoint that returns 0 has sent one (utils.c:398-402).                 *)
ReadsOnlyItsQuery == pc = "response" => serving /\ conn = "clean"

(* Every answer is one text, the endpoint's message or what db_send and    *)
(* db_response write, with these exceptions: a 500, whose message may come *)
(* behind the rows of a reply that db_response gave up (db.c:150-152); and *)
(* five endpoints that answer with no text, or, session_get, with one for  *)
(* each word it refuses and another (session.c:36-46 and 60-62, the 501    *)
(* stubs, oauth.c:64, hawk.c:194-199).                                     *)
OneBody ==
  pc = "answered" /\ endpoint \notin {"session_get", "session_login", "not_implemented",
                                      "get_authorize", "get_all"}
    => bodies = 1 \/ (status = 500 /\ bodies = 2)

(* What an endpoint itself allocates it frees before the request ends, on   *)
(* each of its error paths too, except where it refuses a parsed entity in *)
(* five of them (document.c:286-310, 407-419, 498-510, database.c:163-190, *)
(* session.c:159-162).  db_session, db_send and db_response leave more     *)
(* behind in any request (db.c:42-49, 152, 161, 373): Common.              *)
KeptOnlyByRefusals ==
  pc = "answered" /\ kept \ Common # {} =>
    /\ status = 400
    /\ endpoint \in {"create_document", "set_document", "update_document",
                     "vacuum_database", "session_login"}

(* graph.c:86: "GET _graph/adjacent/:graph/:uuid", and utils.c:149-150:    *)
(* "validate uuid string aa196922-4471-4c1f-aa4a-f8d7bdb39bff".  A request *)
(* with a well-formed uuid is not refused.                                 *)
UuidIsAccepted ==
  pc = "answered" /\ endpoint = "get_adjacent" =>
    ~(status = 422 /\ strword(p[1]) /\ p[2] = "uuid" /\ p[3] = "absent")
=============================================================================
