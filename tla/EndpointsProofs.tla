-------------------------- MODULE EndpointsProofs ---------------------------
(***************************************************************************)
(* Proofs about Endpoints, for any servlets, commands and classes of JSON  *)
(* values.                                                                 *)
(***************************************************************************)
EXTENDS Endpoints, TLAPS

\* The endpoints that the tables open to requests without a session.
OpenEndpoints == {"session_get", "session_login", "get_authorize", "get_token", "get_all"}

\* Endpoints that do the same whatever they are given, and those with checks.
ConstantEndpoints == {"get_constant", "get_tables", "get_active", "get_version",
                      "not_implemented", "session_logout"}
CheckedEndpoints ==
  {"create_database", "delete_collection", "create_collection", "delete_index",
   "create_index", "find_document", "create_document", "set_document",
   "shutdown_database", "delete_database", "get_query", "get_document",
   "getbyname_document", "list_document", "delete_document", "get_node",
   "get_adjacent", "traverse", "delete_graph", "post_query", "create_graph"}
OtherEndpoints == {"update_document", "vacuum_database", "create_edge", "delete_edge"}
Handlers == OpenEndpoints \cup ConstantEndpoints \cup CheckedEndpoints \cup OtherEndpoints

(* The inductive form of QueryNeedsSession and ReadsOnlyItsQuery: a request *)
(* without a session is only in the hands of an endpoint that is open to    *)
(* everybody, and such an endpoint answers by itself; an endpoint that has  *)
(* something sent has the session's attention.                              *)
AccessInv ==
  /\ script \in Scripts
  /\ index \in Nat \ {0}
  /\ pc = "call" => endpoint \in Handlers
  /\ pc = "call" /\ ~db => endpoint \in OpenEndpoints
  /\ pc = "send" => serving
  /\ QueryNeedsSession
  /\ ReadsOnlyItsQuery

-----------------------------------------------------------------------------
(* In every table, an entry names a known endpoint, and one with            *)
(* EP_PERMIT_UNAUTH an open one.                                            *)
LEMMA Entries ==
  ASSUME NEW s \in Servlets, NEW i \in Nat \ {0}, i <= Len(Table(s))
  PROVE  /\ Table(s)[i].endpoint \in Handlers
         /\ Table(s)[i].open => Table(s)[i].endpoint \in OpenEndpoints
  <1> USE DEF Table, Entry, Open, Handlers, OpenEndpoints, ConstantEndpoints,
              CheckedEndpoints, OtherEndpoints
  <1>1. CASE s = "session"
    BY <1>1 DEF SessionTable
  <1>2. CASE s = "oauth"
    BY <1>2 DEF OauthTable
  <1>3. CASE s = "hawk"
    BY <1>3 DEF HawkTable
  <1>4. CASE s = "database"
    BY <1>4 DEF DatabaseTable
  <1>5. CASE s = "document"
    BY <1>5 DEF DocumentTable
  <1>6. CASE s = "graph"
    BY <1>6 DEF GraphTable
  <1>7. CASE s = "collection"
    BY <1>7 DEF CollectionTable
  <1>8. CASE s = "index"
    BY <1>8 DEF IndexTable
  <1>9. CASE s = "query"
    BY <1>9 DEF QueryTable
  <1>10. QED
    BY <1>1, <1>2, <1>3, <1>4, <1>5, <1>6, <1>7, <1>8, <1>9 DEF Servlets

-----------------------------------------------------------------------------
(* What endpoints return.                                                  *)

\* An outcome that does not make exec_endpoint wait for an answer unasked.
Sound(o) == o.do \in {"return", "send", "fault"} /\ (o.do = "return" => o.code # 0)

\* A sound outcome that answers with one body and leaves nothing allocated,
\* and one that may do so with a 400.
Clean(o) ==
  /\ Sound(o)
  /\ o.do = "return" => o.bodies = 1 /\ o.kept = {}
  /\ o.do = "send" => o.bodies = 0
Keeping(o) ==
  /\ Sound(o)
  /\ o.do = "return" => o.bodies = 1 /\ (o.kept # {} => o.code = 400)
  /\ o.do = "send" => o.bodies = 0

(* Of the checks that fail, one is the first (endpoints have six at most).  *)
LEMMA FirstOfSome ==
  ASSUME NEW S \in SUBSET (1..6), S # {}
  PROVE  \E i \in S : \A j \in S : i <= j
  <1>1. CASE 1 \in S
    BY <1>1
  <1>2. CASE 1 \notin S /\ 2 \in S
    BY <1>2
  <1>3. CASE 1 \notin S /\ 2 \notin S /\ 3 \in S
    BY <1>3
  <1>4. CASE 1 \notin S /\ 2 \notin S /\ 3 \notin S /\ 4 \in S
    BY <1>4
  <1>5. CASE 1 \notin S /\ 2 \notin S /\ 3 \notin S /\ 4 \notin S /\ 5 \in S
    BY <1>5
  <1>6. CASE 1 \notin S /\ 2 \notin S /\ 3 \notin S /\ 4 \notin S /\ 5 \notin S
    <2>1. \A i \in S : i = 6
      BY <1>6
    <2>2. PICK i \in S : TRUE
      OBVIOUS
    <2>3. \A j \in S : i <= j
      BY <2>1, <2>2
    <2>4. QED
      BY <2>2, <2>3
  <1>7. QED
    BY <1>1, <1>2, <1>3, <1>4, <1>5, <1>6

(* A chain of checks either comes to its end or answers as one of its       *)
(* checks says.                                                             *)
LEMMA CheckedOutcome ==
  ASSUME NEW checks, DOMAIN checks \subseteq 1..6,
         NEW rest, NEW o \in Checked(checks, rest)
  PROVE  \/ o \in rest
         \/ \E i \in DOMAIN checks : o = Returns(checks[i].code, 1, checks[i].kept)
  <1> DEFINE failing == {i \in DOMAIN checks : ~checks[i].ok}
             first   == CHOOSE i \in failing : \A j \in failing : i <= j
  <1>1. CASE failing = {}
    BY <1>1 DEF Checked
  <1>2. CASE failing # {}
    <2>1. failing \in SUBSET (1..6)
      OBVIOUS
    <2>2. \E i \in failing : \A j \in failing : i <= j
      BY <1>2, <2>1, FirstOfSome
    <2>3. first \in DOMAIN checks
      BY <2>2
    <2>4. o = Returns(checks[first].code, 1, checks[first].kept)
      BY <1>2 DEF Checked
    <2>5. QED
      BY <2>3, <2>4
  <1>3. QED
    BY <1>1, <1>2

(* So if no check answers with 0 or leaves anything, and what follows them  *)
(* is clean, so is the whole.                                               *)
LEMMA CheckedClean ==
  ASSUME NEW checks, DOMAIN checks \subseteq 1..6,
         \A i \in DOMAIN checks : checks[i].code # 0 /\ checks[i].kept = {},
         NEW rest, \A r \in rest : Clean(r),
         NEW o \in Checked(checks, rest)
  PROVE  Clean(o)
  <1>1. CASE o \in rest
    BY <1>1
  <1>2. ASSUME NEW i \in DOMAIN checks, o = Returns(checks[i].code, 1, checks[i].kept)
        PROVE  Clean(o)
    BY <1>2 DEF Clean, Sound, Returns
  <1>3. QED
    BY <1>1, <1>2, CheckedOutcome

(* The same for chains with refusals that leave something.                  *)
LEMMA CheckedKeeping ==
  ASSUME NEW checks, DOMAIN checks \subseteq 1..6,
         \A i \in DOMAIN checks : checks[i].code # 0 /\ (checks[i].kept = {} \/ checks[i].code = 400),
         NEW rest, \A r \in rest : Keeping(r),
         NEW o \in Checked(checks, rest)
  PROVE  Keeping(o)
  <1>1. CASE o \in rest
    BY <1>1
  <1>2. ASSUME NEW i \in DOMAIN checks, o = Returns(checks[i].code, 1, checks[i].kept)
        PROVE  Keeping(o)
    BY <1>2 DEF Keeping, Sound, Returns
  <1>3. \/ o \in rest
        \/ \E i \in DOMAIN checks : o = Returns(checks[i].code, 1, checks[i].kept)
    BY CheckedOutcome
  <1>4. QED
    BY <1>1, <1>2, <1>3

(* Endpoints with checks send a query or answer in order; two of them keep  *)
(* the JSON tree when they refuse a member.                                 *)
LEMMA ChecksAreOrderly ==
  ASSUME NEW x, NEW y
  PROVE  /\ \A o \in create_database(x, y) : Clean(o)
         /\ \A o \in delete_collection(x, y) : Clean(o)
         /\ \A o \in create_collection(x, y) : Clean(o)
         /\ \A o \in delete_index(x, y) : Clean(o)
         /\ \A o \in create_index(x, y) : Clean(o)
         /\ \A o \in find_document(x, y) : Clean(o)
         /\ \A o \in create_document(x, y) : Keeping(o)
         /\ \A o \in set_document(x, y) : Keeping(o)
         /\ \A o \in shutdown_database(x) : Clean(o)
         /\ \A o \in delete_database(x) : Clean(o)
         /\ \A o \in get_query(x) : Clean(o)
         /\ \A o \in get_document(x) : Clean(o)
         /\ \A o \in getbyname_document(x) : Clean(o)
         /\ \A o \in list_document(x) : Clean(o)
         /\ \A o \in delete_document(x) : Clean(o)
         /\ \A o \in get_node(x) : Clean(o)
         /\ \A o \in get_adjacent(x) : Clean(o)
         /\ \A o \in traverse(x) : Clean(o)
         /\ \A o \in delete_graph(x) : Clean(o)
         /\ \A o \in post_query(y) : Clean(o)
         /\ \A o \in create_graph(y) : Clean(o)
  <1>1. ASSUME NEW o \in create_database(x, y) PROVE Clean(o)
    BY CheckedClean DEF create_database, Word, ParsedIfAny, Check, Query, Clean, Sound
  <1>2. ASSUME NEW o \in delete_collection(x, y) PROVE Clean(o)
    BY CheckedClean DEF delete_collection, Word, ParsedIfAny, Check, Query, Clean, Sound
  <1>3. ASSUME NEW o \in create_collection(x, y) PROVE Clean(o)
    BY CheckedClean DEF create_collection, Word, ParsedIfAny, Check, Query, Clean, Sound
  <1>4. ASSUME NEW o \in delete_index(x, y) PROVE Clean(o)
    BY CheckedClean DEF delete_index, Word, ParsedIfAny, Check, Query, Clean, Sound
  <1>5. ASSUME NEW o \in create_index(x, y) PROVE Clean(o)
    BY CheckedClean DEF create_index, Word, Parsed, Check, Query, Clean, Sound
  <1>6. ASSUME NEW o \in find_document(x, y) PROVE Clean(o)
    BY CheckedClean DEF find_document, Word, Parsed, Check, Query, Clean, Sound
  <1>7. ASSUME NEW o \in create_document(x, y) PROVE Keeping(o)
    BY CheckedKeeping DEF create_document, Word, Parsed, Leaving, Check, Query, Keeping, Sound
  <1>8. ASSUME NEW o \in set_document(x, y) PROVE Keeping(o)
    BY CheckedKeeping DEF set_document, Word, Parsed, Leaving, Check, Query, Keeping, Sound
  <1>9. ASSUME NEW o \in shutdown_database(x) PROVE Clean(o)
    BY CheckedClean DEF shutdown_database, Word, Check, Query, Clean, Sound
  <1>10. ASSUME NEW o \in delete_database(x) PROVE Clean(o)
    BY CheckedClean DEF delete_database, Word, Check, Query, Clean, Sound
  <1>11. ASSUME NEW o \in get_query(x) PROVE Clean(o)
    BY CheckedClean DEF get_query, Check, Query, Clean, Sound
  <1>12. ASSUME NEW o \in get_document(x) PROVE Clean(o)
    BY CheckedClean DEF get_document, Word, Check, Query, Clean, Sound
  <1>13. ASSUME NEW o \in getbyname_document(x) PROVE Clean(o)
    BY CheckedClean DEF getbyname_document, Word, Check, Query, Clean, Sound
  <1>14. ASSUME NEW o \in list_document(x) PROVE Clean(o)
    BY CheckedClean DEF list_document, Word, Check, Query, Clean, Sound
  <1>15. ASSUME NEW o \in delete_document(x) PROVE Clean(o)
    BY CheckedClean DEF delete_document, Word, Check, Query, Clean, Sound
  <1>16. ASSUME NEW o \in get_node(x) PROVE Clean(o)
    BY CheckedClean DEF get_node, Word, Check, Query, Clean, Sound
  <1>17. ASSUME NEW o \in get_adjacent(x) PROVE Clean(o)
    BY CheckedClean DEF get_adjacent, Word, NodeOrNull, Check, Query, Clean, Sound
  <1>18. ASSUME NEW o \in traverse(x) PROVE Clean(o)
    BY CheckedClean DEF traverse, Word, NodeOrNull, Check, Query, Clean, Sound
  <1>19. ASSUME NEW o \in delete_graph(x) PROVE Clean(o)
    BY CheckedClean DEF delete_graph, Check, Query, Clean, Sound
  <1>20. ASSUME NEW o \in post_query(y) PROVE Clean(o)
    BY CheckedClean DEF post_query, Parsed, Check, Query, Clean, Sound
  <1>21. ASSUME NEW o \in create_graph(y) PROVE Clean(o)
    BY CheckedClean DEF create_graph, Parsed, Check, Query, Clean, Sound
  <1>22. QED
    BY <1>1, <1>2, <1>3, <1>4, <1>5, <1>6, <1>7, <1>8, <1>9, <1>10, <1>11,
       <1>12, <1>13, <1>14, <1>15, <1>16, <1>17, <1>18, <1>19, <1>20, <1>21

(* So does vacuum_database, with or without an option joined.               *)
LEMMA VacuumOrderly ==
  ASSUME NEW y, NEW o \in vacuum_database(y)
  PROVE  Keeping(o)
  <1> DEFINE op == y.m["options"]
             Chain(held) ==
               Checked(
                 <<ParsedIfAny(y),
                   Check(Optional(op, op = "node"), 400),
                   Leaving(held, Optional(y.m["table"], JsonString(y.m["table"])), 400),
                   Leaving(held, Optional(y.m["columns"],
                                          y.m["columns"] \in {"array", "mixed"}), 400),
                   Leaving(held, y.m["columns"] # "mixed", 400)>>,
                 {Query({"query", "options", "columns"})})
  <1>1. PICK held : o \in Chain(held)
    BY DEF vacuum_database
  <1>2. QED
    BY <1>1, CheckedKeeping DEF ParsedIfAny, Check, Leaving, Query, Keeping, Sound

(* So do create_edge and delete_edge, which may fault instead.              *)
LEMMA EdgeOrderly ==
  ASSUME NEW x, NEW y, NEW o \in create_edge(x, y)
  PROVE  Clean(o)
  <1> DEFINE rest == IF "null" \in {y.m["from"], y.m["to"]}
                     THEN {Faults} ELSE {Query({"query", "json"})}
  <1>1. \A r \in rest : Clean(r)
    BY DEF Faults, Query, Clean, Sound
  <1> HIDE DEF rest
  <1>2. QED
    BY <1>1, CheckedClean DEF create_edge, rest, Word, Parsed, End, Check, Clean, Sound

(* A login answers with a status, and sends no query on any session.        *)
LEMMA LoginOutcome ==
  ASSUME NEW y, NEW d, NEW o \in session_login(y, d)
  PROVE  o.do = "return" /\ o.code # 0 /\ (o.kept # {} => o.code = 400)
  <1> DEFINE WordIfAny(t) == Optional(t, JsonString(t) /\ strword(t))
             checks == <<Parsed(y, 400), Check(JsonString(y.m["username"]), 400),
                         Check(JsonString(y.m["password"]), 400),
                         Check(WordIfAny(y.m["database"]), 400),
                         Check(WordIfAny(y.m["schema"]), 400)>>
             rest == {bad_request(401), Returns(230, 1, {}),
                      Returns(400, 1, {"json", "conn"})}
  <1>1. CASE o \in {Returns(200, 0, {})}
    BY <1>1 DEF Returns
  <1>2. CASE o \in Checked(checks, rest)
    <2>1. DOMAIN checks = 1..5 /\ \A i \in 1..5 : checks[i].code = 400
      BY DEF Parsed, Check
    <2>2. \A r \in rest : r.do = "return" /\ r.code # 0 /\ (r.kept # {} => r.code = 400)
      BY DEF Returns, bad_request
    <2> HIDE DEF checks, rest
    <2>3. \/ o \in rest
          \/ \E i \in DOMAIN checks : o = Returns(checks[i].code, 1, checks[i].kept)
      BY <1>2, <2>1, CheckedOutcome
    <2>4. QED
      BY <2>1, <2>2, <2>3 DEF Returns
  <1>3. QED
    BY <1>1, <1>2 DEF session_login

(* The endpoints that are open to everybody answer with a status.           *)
LEMMA OpenOutcome ==
  ASSUME NEW h \in OpenEndpoints, NEW x, NEW y, NEW d, NEW o \in Outcomes(h, x, y, d)
  PROVE  o.do = "return" /\ o.code # 0
  <1>1. CASE h = "session_login"
    BY <1>1, LoginOutcome DEF Outcomes
  <1>2. CASE h = "session_get"
    BY <1>2 DEF Outcomes, session_get, Returns
  <1>3. CASE h = "get_authorize"
    BY <1>3 DEF Outcomes, get_authorize, Returns
  <1>4. CASE h = "get_token"
    BY <1>4 DEF Outcomes, get_token, Returns
  <1>5. CASE h = "get_all"
    BY <1>5 DEF Outcomes, get_all, Returns
  <1>6. QED
    BY <1>1, <1>2, <1>3, <1>4, <1>5 DEF OpenEndpoints

(* What is true of the outcomes of every endpoint: none returns 0, a query   *)
(* that is sent has no body yet, and the exceptions of OneBody and of        *)
(* KeptOnlyByRefusals are the only ones.                                     *)
Bodiless == {"session_get", "session_login", "not_implemented", "get_authorize", "get_all"}
Keepers  == {"create_document", "set_document", "update_document", "vacuum_database",
             "session_login"}

Expected(h, o) ==
  /\ Sound(o)
  /\ o.do = "send" => o.bodies = 0
  /\ o.do = "return" /\ h \notin Bodiless => o.bodies = 1
  /\ o.do = "return" /\ o.kept # {} => o.code = 400 /\ h \in Keepers

LEMMA EndpointsAreOrderly ==
  ASSUME NEW h \in Handlers, NEW x, NEW y, NEW d, NEW o \in Outcomes(h, x, y, d)
  PROVE  Expected(h, o)
  <1>1. CASE h = "session_login"
    <2>1. o \in session_login(y, d)
      BY <1>1 DEF Outcomes
    <2>2. QED
      BY <1>1, <2>1, LoginOutcome DEF Expected, Sound, Bodiless, Keepers
  <1>2. CASE h \in {"session_get", "get_authorize", "get_token", "get_all"}
    BY <1>2 DEF Outcomes, session_get, get_authorize, get_token, get_all, Returns,
      Expected, Sound, Bodiless
  <1>3. CASE h \in ConstantEndpoints
    BY <1>3 DEF ConstantEndpoints, Outcomes, get_constant, get_tables, get_active,
                get_version, NotImplemented, session_logout, Returns, Query,
                Expected, Sound, Bodiless
  <1>4. CASE h \in CheckedEndpoints \ {"create_document", "set_document"}
    <2>1. Clean(o)
      BY <1>4, ChecksAreOrderly DEF CheckedEndpoints, Outcomes
    <2>2. QED
      BY <2>1 DEF Clean, Expected
  <1>5. CASE h \in {"create_document", "set_document", "update_document"}
    <2>1. Keeping(o)
      BY <1>5, ChecksAreOrderly DEF Outcomes, update_document
    <2>2. QED
      BY <1>5, <2>1 DEF Keeping, Expected, Keepers
  <1>6. CASE h = "vacuum_database"
    <2>1. Keeping(o)
      BY <1>6, VacuumOrderly DEF Outcomes
    <2>2. QED
      BY <1>6, <2>1 DEF Keeping, Expected, Keepers
  <1>7. CASE h \in {"create_edge", "delete_edge"}
    <2>1. Clean(o)
      BY <1>7, EdgeOrderly DEF Outcomes, delete_edge
    <2>2. QED
      BY <2>1 DEF Clean, Expected
  <1>8. QED
    BY <1>1, <1>2, <1>3, <1>4, <1>5, <1>6, <1>7
    DEF Handlers, OpenEndpoints, OtherEndpoints

(* No endpoint returns 0 without having sent a query.                       *)
LEMMA EndpointsAreSound ==
  ASSUME NEW h \in Handlers, NEW x, NEW y, NEW d, NEW o \in Outcomes(h, x, y, d)
  PROVE  Sound(o)
  BY EndpointsAreOrderly DEF Expected

-----------------------------------------------------------------------------
(* The steps of a request.                                                 *)

\* The first state satisfies the invariant.
LEMMA InitAccess == Init => AccessInv
  <1>1. Init => pc = "idle" /\ script \in Scripts /\ index = 1
    BY DEF Init
  <1>2. QED
    BY <1>1 DEF AccessInv, QueryNeedsSession, ReadsOnlyItsQuery

\* An endpoint is only called by a request that has a session or needs none.
LEMMA DispatchAccess == AccessInv /\ Dispatch => AccessInv'
  <1> SUFFICES ASSUME AccessInv, Dispatch PROVE AccessInv'
    OBVIOUS
  <1>1. script \in Servlets
    BY ScriptsAssumption DEF AccessInv
  <1>2. /\ Current.endpoint \in Handlers
        /\ Current.open => Current.endpoint \in OpenEndpoints
    BY <1>1, Entries DEF AccessInv, Dispatch, Current
  <1>3. /\ pc' = "call" /\ endpoint' = Current.endpoint
        /\ db \/ Current.open
        /\ UNCHANGED <<script, index, db>>
    BY DEF Dispatch, request
  <1>4. QED
    BY <1>2, <1>3 DEF AccessInv, QueryNeedsSession, ReadsOnlyItsQuery

\* What the endpoint does: it sends only with a session, and waits for nothing.
LEMMA CallAccess == AccessInv /\ Call => AccessInv'
  <1> SUFFICES ASSUME AccessInv, Call PROVE AccessInv'
    OBVIOUS
  <1>1. PICK o \in Outcomes(endpoint, p, e, db) :
          /\ pc' = CASE o.do = "return" -> IF o.code = 0 THEN "response" ELSE "answered"
                     [] OTHER -> o.do
          /\ IF o.do = "send" THEN Service!Accept ELSE UNCHANGED service
    BY DEF Call
  <1>2. pc = "call" /\ UNCHANGED <<script, index, db>>
    BY DEF Call, request
  <1>3. Sound(o)
    BY <1>1, <1>2, EndpointsAreSound DEF AccessInv
  <1>4. ~db => o.do = "return"
    BY <1>1, <1>2, OpenOutcome DEF AccessInv
  <1>5. pc' \in {"answered", "send", "fault"} /\ (pc' = "send" => db /\ serving')
    BY <1>1, <1>3, <1>4 DEF Sound, Service!Accept
  <1>6. QED
    BY <1>2, <1>5 DEF AccessInv, QueryNeedsSession, ReadsOnlyItsQuery

\* Every step keeps the invariant.
LEMMA StepAccess == AccessInv /\ [Next]_vars => AccessInv'
  <1> SUFFICES ASSUME AccessInv, [Next]_vars PROVE AccessInv'
    OBVIOUS
  <1> USE DEF AccessInv, QueryNeedsSession, ReadsOnlyItsQuery
  <1>1. CASE Arrive
    BY <1>1 DEF Arrive
  <1>2. CASE Skip
    BY <1>2 DEF Skip, request
  <1>3. CASE Mismatch
    BY <1>3 DEF Mismatch, request
  <1>4. CASE Unauthorized
    BY <1>4 DEF Unauthorized, Respond, request
  <1>5. CASE Dispatch
    BY <1>5, DispatchAccess
  <1>6. CASE NotFound
    BY <1>6 DEF NotFound, Respond, request
  <1>7. CASE Call
    BY <1>7, CallAccess
  <1>8. CASE SendFails
    BY <1>8 DEF SendFails, Respond, request
  <1>9. CASE Sent
    BY <1>9 DEF Sent, request, service
  <1>10. CASE Response
    BY <1>10 DEF Response, Respond, request
  <1>11. CASE Close
    BY <1>11 DEF Close, request
  <1>12. CASE UNCHANGED vars
    BY <1>12 DEF vars, request, call, service
  <1>13. QED
    BY <1>1, <1>2, <1>3, <1>4, <1>5, <1>6, <1>7, <1>8, <1>9, <1>10, <1>11, <1>12
       DEF Next, Down

(* The invariant holds throughout.                                         *)
THEOREM AccessInvariance == Spec => []AccessInv
  BY InitAccess, StepAccess, PTL DEF Spec

(* A query is sent, and an answer awaited, only for a request that has a    *)
(* session, whatever the servlets, commands, parameters and entities        *)
(* (utils.c:395-402, the servlets' tables).                                 *)
THEOREM QueriesHaveSessions == Spec => []QueryNeedsSession
  <1>1. AccessInv => QueryNeedsSession
    BY DEF AccessInv
  <1>2. QED
    BY <1>1, AccessInvariance, PTL

(* db_response is called only after this request's query was accepted: no   *)
(* endpoint returns 0 for any other reason (utils.c:398-402, csp).          *)
THEOREM AnswersAreAwaitedOnce == Spec => []ReadsOnlyItsQuery
  <1>1. AccessInv => ReadsOnlyItsQuery
    BY DEF AccessInv
  <1>2. QED
    BY <1>1, AccessInvariance, PTL

-----------------------------------------------------------------------------
(* The dispatcher's loop.                                                  *)

\* A table is a sequence, and each method of an entry stands in the table.
LEMMA TableDomain == ASSUME NEW s \in Servlets
                     PROVE  Len(Table(s)) \in Nat /\ DOMAIN Table(s) = 1..Len(Table(s))
  <1> DEFINE IsSequence(t) == Len(t) \in Nat /\ DOMAIN t = 1..Len(t)
  <1>1. IsSequence(SessionTable)
    BY DEF SessionTable
  <1>2. IsSequence(OauthTable)
    BY DEF OauthTable
  <1>3. IsSequence(HawkTable)
    BY DEF HawkTable
  <1>4. IsSequence(DatabaseTable)
    BY DEF DatabaseTable
  <1>5. IsSequence(DocumentTable)
    BY DEF DocumentTable
  <1>6. IsSequence(GraphTable)
    BY DEF GraphTable
  <1>7. IsSequence(CollectionTable)
    BY DEF CollectionTable
  <1>8. IsSequence(IndexTable)
    BY DEF IndexTable
  <1>9. IsSequence(QueryTable)
    BY DEF QueryTable
  <1> HIDE DEF IsSequence
  <1>10. IsSequence(Table(s))
    BY <1>1, <1>2, <1>3, <1>4, <1>5, <1>6, <1>7, <1>8, <1>9 DEF Table, Servlets
  <1>11. QED
    BY <1>10 DEF IsSequence

(* The inductive form of RoutedAsDeclared: while the loop runs, no entry    *)
(* before the current one serves the request, and the flag says whether one *)
(* of them has the method.                                                  *)
PassedInv == \A j \in Hits : index <= j
FlagInv ==
  /\ allowed \in BOOLEAN
  /\ allowed <=> \E i \in DOMAIN Table(script) : i < index /\ Table(script)[i].method = method

RouteInv ==
  /\ script \in Servlets /\ index \in Nat \ {0}
  /\ pc = "idle" => index = 1 /\ allowed = FALSE
  /\ pc \in {"idle", "scan"} => endpoint = "none"
  /\ pc = "scan" => PassedInv /\ FlagInv
  /\ pc \in {"call", "send", "response", "fault"} => endpoint # "none"
  /\ RoutedAsDeclared

\* The first state satisfies the invariant.
LEMMA InitRoute == Init => RouteInv
  <1>1. Init => /\ pc = "idle" /\ script \in Servlets /\ index = 1 /\ allowed = FALSE
                /\ endpoint = "none"
    BY ScriptsAssumption DEF Init
  <1>2. QED
    BY <1>1 DEF RouteInv, RoutedAsDeclared

\* A request begins at the first entry.
LEMMA ArriveRoute == ASSUME RouteInv, Arrive PROVE RouteInv'
  <1>1. script' \in Servlets
    BY ScriptsAssumption DEF Arrive
  <1>2. index' = 1 /\ allowed' = FALSE /\ endpoint' = "none" /\ pc' = "scan"
    BY DEF Arrive, RouteInv, call
  <1>3. Len(Table(script')) \in Nat /\ DOMAIN Table(script') = 1..Len(Table(script'))
    BY <1>1, TableDomain
  <1>4. PassedInv'
    BY <1>2, <1>3 DEF Hits, PassedInv
  <1>5. ~\E i \in DOMAIN Table(script') : i < index' /\ Table(script')[i].method = method'
    BY <1>2, <1>3
  <1>6. FlagInv'
    BY <1>2, <1>5, Zenon DEF FlagInv
  <1>7. QED
    BY <1>1, <1>2, <1>4, <1>6 DEF RouteInv, RoutedAsDeclared

\* While script, method and command stay, so do the entries that serve them.
LEMMA SameHits == ASSUME UNCHANGED <<script, method, cmd>> PROVE Hits' = Hits
  BY DEF Hits, Matches

\* The entry that the loop is at.
LEMMA CurrentHit ==
  ASSUME RouteInv, index <= Len(Table(script))
  PROVE  /\ index \in DOMAIN Table(script)
         /\ index \in Hits <=> Current.method = method /\ Matches(Current)
  <1>1. index \in DOMAIN Table(script)
    BY TableDomain DEF RouteInv
  <1>2. QED
    BY <1>1 DEF Hits, Current

\* An entry is passed over only if it does not serve the request.
LEMMA PassRoute == ASSUME RouteInv, Skip \/ Mismatch PROVE RouteInv'
  <1>1. /\ script \in Servlets /\ index \in Nat \ {0}
        /\ pc' = "scan" /\ endpoint' = "none"
        /\ PassedInv /\ FlagInv /\ index <= Len(Table(script)) /\ index' = index + 1
        /\ UNCHANGED <<script, method, cmd>>
    BY DEF RouteInv, Skip, Mismatch, request, call
  <1>2. Hits' = Hits /\ index \notin Hits /\ index \in DOMAIN Table(script)
    BY <1>1, SameHits, CurrentHit DEF Skip, Mismatch
  <1>3. Hits \subseteq 1..Len(Table(script)) /\ Len(Table(script)) \in Nat
        /\ DOMAIN Table(script) = 1..Len(Table(script))
    BY <1>1, TableDomain DEF Hits
  <1>4. PassedInv'
    BY <1>1, <1>2, <1>3 DEF PassedInv
  <1>5. (\E i \in DOMAIN Table(script) : i < index + 1 /\ Table(script)[i].method = method)
          <=> \/ \E i \in DOMAIN Table(script) : i < index /\ Table(script)[i].method = method
              \/ Table(script)[index].method = method
    BY <1>1, <1>2, <1>3
  <1>6. CASE Skip
    <2>1. allowed' = allowed /\ Table(script)[index].method # method
      BY <1>6 DEF Skip, Current
    <2>2. FlagInv'
      BY <1>1, <1>5, <2>1, Zenon DEF FlagInv
    <2>3. QED
      BY <1>1, <1>4, <2>2 DEF RouteInv, RoutedAsDeclared
  <1>7. CASE Mismatch
    <2>1. allowed' = TRUE /\ Table(script)[index].method = method
      BY <1>7 DEF Mismatch, Current
    <2>2. FlagInv'
      BY <1>1, <1>5, <2>1, Zenon DEF FlagInv
    <2>3. QED
      BY <1>1, <1>4, <2>2 DEF RouteInv, RoutedAsDeclared
  <1>8. QED
    BY <1>6, <1>7

\* The entry that is reached is the first that serves the request.
LEMMA HitRoute == ASSUME RouteInv, Unauthorized \/ Dispatch PROVE RouteInv'
  <1>1. /\ script \in Servlets /\ index \in Nat \ {0} /\ PassedInv /\ endpoint = "none"
        /\ index <= Len(Table(script)) /\ index' = index
        /\ Current.method = method /\ Matches(Current)
        /\ UNCHANGED <<script, method, cmd, db>>
    BY DEF RouteInv, Unauthorized, Dispatch, request
  <1>2. index \in Hits /\ (\A j \in Hits : index <= j) /\ Hits' = Hits
    BY <1>1, SameHits, CurrentHit DEF PassedInv
  <1>3. CASE Unauthorized
    <2>1. pc' = "answered" /\ status' = 401 /\ ~db /\ endpoint' = "none"
      BY <1>1, <1>3 DEF Unauthorized, Respond, call
    <2>2. QED
      BY <1>1, <1>2, <2>1 DEF RouteInv, RoutedAsDeclared
  <1>4. CASE Dispatch
    <2>1. endpoint' \in Handlers /\ pc' = "call"
      BY <1>1, <1>4, Entries DEF Dispatch, Current
    <2>2. endpoint' # "none"
      BY <2>1 DEF Handlers, OpenEndpoints, ConstantEndpoints, CheckedEndpoints, OtherEndpoints
    <2>3. QED
      BY <1>1, <1>2, <2>1, <2>2 DEF RouteInv, RoutedAsDeclared
  <1>5. QED
    BY <1>3, <1>4

\* At the end of the table no entry serves the request.
LEMMA NotFoundRoute == ASSUME RouteInv, NotFound PROVE RouteInv'
  <1>1. /\ script \in Servlets /\ index \in Nat \ {0} /\ PassedInv /\ FlagInv
        /\ index > Len(Table(script)) /\ index' = index /\ endpoint' = "none"
        /\ UNCHANGED <<script, method, cmd>>
        /\ pc' = "answered" /\ status' = IF allowed THEN 404 ELSE 405
    BY DEF RouteInv, NotFound, Respond, request, call
  <1>2. Len(Table(script)) \in Nat /\ DOMAIN Table(script) = 1..Len(Table(script))
    BY <1>1, TableDomain
  <1>3. Hits' = Hits /\ Hits \subseteq 1..Len(Table(script))
    BY <1>1, <1>2, SameHits DEF Hits
  <1>4. Hits' = {}
    BY <1>1, <1>2, <1>3 DEF PassedInv
  <1>5. (\E i \in DOMAIN Table(script) : Table(script)[i].method = method)
          <=> \E i \in DOMAIN Table(script) : i < index /\ Table(script)[i].method = method
    BY <1>1, <1>2
  <1>6. status' = IF \E i \in DOMAIN Table(script) : Table(script)[i].method = method
                  THEN 404 ELSE 405
    BY <1>1, <1>5, Zenon DEF FlagInv
  <1>7. QED
    BY <1>1, <1>4, <1>6 DEF RouteInv, RoutedAsDeclared

\* What follows keeps the entry.
LEMMA RestRoute ==
  ASSUME RouteInv, AccessInv, Call \/ SendFails \/ Sent \/ Response \/ UNCHANGED vars
  PROVE  RouteInv'
  <1>1. /\ UNCHANGED <<script, method, cmd, db, index, allowed, endpoint>>
        /\ \/ pc' = pc /\ status' = status
           \/ endpoint # "none" /\ pc' \notin {"idle", "scan"}
    <2>1. CASE Call
      <3>1. PICK o \in Outcomes(endpoint, p, e, db) :
              pc' = CASE o.do = "return" -> IF o.code = 0 THEN "response" ELSE "answered"
                      [] OTHER -> o.do
        BY <2>1 DEF Call
      <3>2. endpoint # "none"
        BY <2>1 DEF Call, RouteInv
      <3>3. pc' \notin {"idle", "scan"}
        BY <3>1, <2>1, EndpointsAreSound DEF Sound, Call, AccessInv
      <3>4. QED
        BY <2>1, <3>2, <3>3 DEF Call, request, call
    <2>2. CASE SendFails \/ Sent \/ Response
      BY <2>2 DEF SendFails, Sent, Response, Respond, RouteInv, request, call
    <2>3. CASE UNCHANGED vars
      BY <2>3 DEF vars, request, call, reply
    <2>4. QED
      BY <2>1, <2>2, <2>3
  <1>2. Hits' = Hits
    BY <1>1, SameHits
  <1>3. (PassedInv => PassedInv') /\ (FlagInv => FlagInv')
    BY <1>1, <1>2 DEF PassedInv, FlagInv
  <1>4. QED
    BY <1>1, <1>2, <1>3 DEF RouteInv, RoutedAsDeclared

\* The next request starts afresh.
LEMMA CloseRoute == ASSUME RouteInv, Close PROVE RouteInv'
  BY DEF Close, RouteInv, RoutedAsDeclared, request

(* Every request is served by the first entry of its method and command, or *)
(* answered 401, 404 or 405 as the table as a whole says, for any servlets, *)
(* commands, parameters and entities (utils.c:390-413).                     *)
THEOREM RoutingIsDeclared == Spec => []RoutedAsDeclared
  <1>1. RouteInv /\ AccessInv /\ [Next]_vars => RouteInv'
    BY ArriveRoute, PassRoute, HitRoute, NotFoundRoute, RestRoute, CloseRoute DEF Next, Down
  <1>2. RouteInv => RoutedAsDeclared
    BY DEF RouteInv
  <1>3. QED
    BY InitRoute, AccessInvariance, <1>1, <1>2, PTL DEF Spec

-----------------------------------------------------------------------------
(* Bodies and what is kept.                                                *)

(* The inductive form of OneBody and KeptOnlyByRefusals: the endpoint has   *)
(* neither written nor kept anything before the call or when it awaits an  *)
(* answer, and written nothing when it sends.                              *)
ReplyInv ==
  /\ pc \in {"idle", "scan", "call", "response"} => bodies = 0 /\ kept \subseteq Common
  /\ pc = "send" => bodies = 0
  /\ OneBody /\ KeptOnlyByRefusals

LEMMA InitReply == Init => ReplyInv
  BY DEF Init, ReplyInv, OneBody, KeptOnlyByRefusals, Common

\* What the endpoint does is as expected of it.
LEMMA CallReply ==
  ASSUME ReplyInv, AccessInv, Call
  PROVE  ReplyInv'
  <1>1. PICK o \in Outcomes(endpoint, p, e, db) :
          /\ kept' = kept \cup o.kept /\ bodies' = o.bodies /\ status' = o.code
          /\ pc' = CASE o.do = "return" -> IF o.code = 0 THEN "response" ELSE "answered"
                     [] OTHER -> o.do
    BY DEF Call
  <1>2. endpoint' = endpoint /\ endpoint \in Handlers
    BY DEF Call, call, AccessInv
  <1>3. Expected(endpoint, o)
    BY <1>2, EndpointsAreOrderly
  <1>4. \/ pc' = "answered" /\ o.do = "return"
        \/ pc' = "send" /\ o.do = "send"
        \/ pc' = "fault"
    BY <1>1, <1>3 DEF Expected, Sound
  <1>5. kept' \ Common # {} => o.kept # {}
    <2>1. kept \subseteq Common
      BY DEF Call, ReplyInv
    <2>2. QED
      BY <1>1, <2>1
  <1>6. QED
    BY <1>1, <1>2, <1>3, <1>4, <1>5
    DEF Expected, Bodiless, Keepers, ReplyInv, OneBody, KeptOnlyByRefusals

LEMMA StepReply ==
  ASSUME ReplyInv, AccessInv, [Next]_vars
  PROVE  ReplyInv'
  <1> USE DEF ReplyInv, OneBody, KeptOnlyByRefusals, Common
  <1>1. CASE Arrive \/ Skip \/ Mismatch \/ Dispatch
    BY <1>1 DEF Arrive, Skip, Mismatch, Dispatch, reply
  <1>2. CASE Unauthorized \/ NotFound
    BY <1>2 DEF Unauthorized, NotFound, Respond
  <1>3. CASE Call
    BY <1>3, CallReply
  <1>4. CASE SendFails
    BY <1>4 DEF SendFails, Respond
  <1>5. CASE Sent
    BY <1>5 DEF Sent
  <1>6. CASE Response
    BY <1>6 DEF Response, Respond
  <1>7. CASE Close
    BY <1>7 DEF Close
  <1>8. CASE UNCHANGED vars
    BY <1>8 DEF vars, call, reply
  <1>9. QED
    BY <1>1, <1>2, <1>3, <1>4, <1>5, <1>6, <1>7, <1>8 DEF Next, Down

(* Whatever the request, every endpoint but five answers with exactly one   *)
(* text, its own or that of db_send and db_response, or with a 500 that     *)
(* db_response may have put behind rows.                                    *)
THEOREM AnswersHaveOneBody == Spec => []OneBody
  <1>1. ReplyInv /\ AccessInv /\ [Next]_vars => ReplyInv'
    BY StepReply
  <1>2. ReplyInv => OneBody
    BY DEF ReplyInv
  <1>3. QED
    BY InitReply, AccessInvariance, <1>1, <1>2, PTL DEF Spec

(* Whatever the request, an endpoint leaves nothing of its own allocated    *)
(* but at a 400 of the five that do not free what they parsed.              *)
THEOREM OnlyRefusalsKeep == Spec => []KeptOnlyByRefusals
  <1>1. ReplyInv /\ AccessInv /\ [Next]_vars => ReplyInv'
    BY StepReply
  <1>2. ReplyInv => KeptOnlyByRefusals
    BY DEF ReplyInv
  <1>3. QED
    BY InitReply, AccessInvariance, <1>1, <1>2, PTL DEF Spec
=============================================================================
