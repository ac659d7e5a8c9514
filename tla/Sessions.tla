------------------------------ MODULE Sessions ------------------------------
(***************************************************************************)
(* The session table: logging in and out (csp/session.c), looking a        *)
(* session up and refreshing it (db_session), and the sweep that expires   *)
(* idle sessions (db_timer_cb, check_session in libraries/postrest/db.c).  *)
(*                                                                         *)
(* The sweep is a timer on an event loop that only requests run, for one   *)
(* non-blocking turn each, before they look their session up.  libevent is *)
(* not told of the threads (nothing calls evthread_use_pthreads), so its   *)
(* test for a loop that already runs excludes nobody, and two workers may  *)
(* run the loop, and the sweep, at once.  Workers are the server's         *)
(* threads; every kv and libpq call is one atomic step, and a session      *)
(* stands for its key, its db_t and its connection.                        *)
(***************************************************************************)
EXTENDS Integers, FiniteSets

CONSTANTS Workers, Ids,  \* server threads; sessions ever created
          None,          \* no session, no worker
          Timeout,       \* DB_SESSION_TIMEOUT
          Period,        \* the timer's interval
          M,             \* 2^32: db_t's `timeout` is a u32, its check an s32
          Ipv4Only,      \* every client has an IPv4 address
          LogoutUsed,    \* clients log out
          MaxTime,       \* bound: the clock
          MaxQuiet       \* bound: time without any request once the timer is due

ASSUME ConstantsAssumption ==
  /\ Timeout \in Nat \ {0} /\ Period \in Nat \ {0} /\ M \in Nat
  /\ MaxTime \in Nat /\ MaxQuiet \in Nat
  /\ None \notin Ids \cup Workers
  /\ 2 * (Timeout + 2 * (Period + MaxQuiet)) < M /\ M % 2 = 0

VARIABLES
  now,      \* getms(), in units of the model
  nextFire, \* when the timer is due
  running,  \* event_base's running_loop
  entry,    \* server->sessions: the sessions in the table
  conn,     \* each session's PGconn: "none", "open", "finished", "twice"
  stamp,    \* db->timestamp
  base,     \* what db->timeout was counted from; see Expiry
  late,     \* history: sessions whose deadline had passed when it was moved
  gone,     \* history: sessions logged out
  pc, want, \* per worker: control, the session its request names
  todo,     \* per worker: entries kv_do has still to visit
  item,     \* per worker: the session being created or removed
  seen,     \* per worker: the clock as db_session read it
  polled    \* history, per worker: when its request ran the event loop

table == <<entry, conn, stamp, base, late, gone>>
timer == <<now, nextFire>>
work  == <<pc, want, todo, item, seen, polled>>
vars  == <<timer, running, table, work>>

Init ==
  /\ now = 0 /\ nextFire = Period /\ running = FALSE
  /\ entry = {} /\ late = {} /\ gone = {}
  /\ conn = [s \in Ids |-> "none"]
  /\ stamp = [s \in Ids |-> 0] /\ base = [s \in Ids |-> 0]
  /\ pc = [w \in Workers |-> "idle"]
  /\ want = [w \in Workers |-> None] /\ item = [w \in Workers |-> None]
  /\ todo = [w \in Workers |-> {}]
  /\ polled = [w \in Workers |-> 0] /\ seen = [w \in Workers |-> 0]

At(w, l)   == pc[w] = l
Goto(w, l) == pc' = [pc EXCEPT ![w] = l] /\ UNCHANGED <<want, todo, item, seen, polled>>

\* The request is answered and its locals are gone.
Answered(w) ==
  /\ pc' = [pc EXCEPT ![w] = "idle"]
  /\ want' = [want EXCEPT ![w] = None] /\ item' = [item EXCEPT ![w] = None]
  /\ polled' = [polled EXCEPT ![w] = 0]
  /\ UNCHANGED <<todo, seen>>

Tick ==
  /\ now < MaxTime /\ now < nextFire + MaxQuiet
  /\ now' = now + 1
  /\ UNCHANGED <<nextFire, running, table, work>>

\* A request naming a session that was created, or none.
Arrive(w) ==
  /\ At(w, "idle")
  /\ \E s \in {i \in Ids : conn[i] # "none"} \cup {None} :
       want' = [want EXCEPT ![w] = s]
  /\ pc' = [pc EXCEPT ![w] = "poll"]
  /\ UNCHANGED <<timer, running, table, todo, item, seen, polled>>

-----------------------------------------------------------------------------
(* event_base_loop(NONBLOCK): one turn of the loop.                        *)

\* running_loop is set: another worker is in the loop, and this one returns.
PollNothing(w) ==
  /\ At(w, "poll") /\ running
  /\ polled' = [polled EXCEPT ![w] = now]
  /\ pc' = [pc EXCEPT ![w] = "lookup"]
  /\ UNCHANGED <<timer, running, table, want, todo, item, seen>>

\* It is not, but the worker sets it only later.
PollTest(w) ==
  /\ At(w, "poll") /\ ~running
  /\ Goto(w, "turn")
  /\ UNCHANGED <<timer, running, table>>

\* The timer is not due.
TurnIdle(w) ==
  /\ At(w, "turn") /\ now < nextFire
  /\ running' = TRUE
  /\ polled' = [polled EXCEPT ![w] = now]
  /\ pc' = [pc EXCEPT ![w] = "turned"]
  /\ UNCHANGED <<timer, table, want, todo, item, seen>>

\* The timer is due, for each worker that looks before it is rearmed.
TurnDue(w) ==
  /\ At(w, "turn") /\ now >= nextFire
  /\ running' = TRUE
  /\ Goto(w, "due")
  /\ UNCHANGED <<timer, table>>

\* Mutant: the timer's interval is wrong.
FireSeldom(w) ==
  /\ At(w, "due")
  /\ nextFire' = now + 4 * Period
  /\ polled' = [polled EXCEPT ![w] = now]
  /\ todo' = [todo EXCEPT ![w] = entry]
  /\ pc' = [pc EXCEPT ![w] = "sweep"]
  /\ UNCHANGED <<now, running, table, want, item, seen>>

\* The timer is rearmed and db_timer_cb starts over the entries.
Fire(w) ==
  /\ At(w, "due")
  /\ nextFire' = IF nextFire + Period >= now THEN nextFire + Period
                                             ELSE now + Period
  /\ polled' = [polled EXCEPT ![w] = now]
  /\ todo' = [todo EXCEPT ![w] = entry]
  /\ pc' = [pc EXCEPT ![w] = "sweep"]
  /\ UNCHANGED <<now, running, table, want, item, seen>>

\* db->timeout, a u32
Expiry(s) == (base[s] + Timeout) % M

\* Mutant: the wrapped deadline is compared as it stands.
ExpiredUnsigned(s) == Expiry(s) < now % M

\* Mutant: timeout <= 0.
ExpiredAtDeadline(s) == Expiry(s) = now % M \/ (Expiry(s) - now) % M >= M \div 2

\* s32 timeout = db->timeout - now; timeout < 0
Expired(s) == (Expiry(s) - now) % M >= M \div 2

\* Mutant: check_session returns 0 for a live session, which stops kv_do.
CheckAliveStops(w) ==
  /\ At(w, "sweep")
  /\ \E s \in todo[w] : ~Expired(s) /\ todo' = [todo EXCEPT ![w] = {}]
  /\ UNCHANGED <<timer, running, table, pc, want, item, seen, polled>>

\* kv_do may also pass over what another sweep has taken out.
CheckAlive(w) ==
  /\ At(w, "sweep")
  /\ \E s \in todo[w] :
       /\ ~Expired(s) \/ s \notin entry
       /\ todo' = [todo EXCEPT ![w] = @ \ {s}]
  /\ UNCHANGED <<timer, running, table, pc, want, item, seen, polled>>

CheckExpired(w) ==
  /\ At(w, "sweep")
  /\ \E s \in todo[w] :
       /\ Expired(s)
       /\ todo' = [todo EXCEPT ![w] = @ \ {s}]
       /\ item' = [item EXCEPT ![w] = s]
  /\ pc' = [pc EXCEPT ![w] = "unlink"]
  /\ UNCHANGED <<timer, running, table, want, seen, polled>>

\* Mutant: the key is deleted from another store, as db_free does.
UnlinkElsewhere(w) ==
  /\ At(w, "unlink")
  /\ Goto(w, "finish")
  /\ UNCHANGED <<timer, running, table>>

\* kv_del; on a key freed earlier, it may find nothing.
Unlink(w) ==
  /\ At(w, "unlink")
  /\ \/ entry' = entry \ {item[w]}
     \/ conn[item[w]] # "open" /\ UNCHANGED entry
  /\ Goto(w, "finish")
  /\ UNCHANGED <<timer, running, conn, stamp, base, late, gone>>

PQfinish(s) ==
  conn' = [conn EXCEPT ![s] = IF @ = "open" THEN "finished" ELSE "twice"]

\* Mutant: the connection is not closed.
FinishForgets(w) ==
  /\ At(w, "finish")
  /\ Goto(w, "sweep")
  /\ UNCHANGED <<timer, running, table>>

Finish(w) ==
  /\ At(w, "finish")
  /\ PQfinish(item[w])
  /\ item' = [item EXCEPT ![w] = None]
  /\ pc' = [pc EXCEPT ![w] = "sweep"]
  /\ UNCHANGED <<timer, running, entry, stamp, base, late, gone, want, todo, seen, polled>>

\* The turn ends, and with it the loop, whoever else is in it.
TurnDone(w) ==
  /\ At(w, "turned")
  /\ running' = FALSE
  /\ Goto(w, "lookup")
  /\ UNCHANGED <<timer, table>>

SweepDone(w) ==
  /\ At(w, "sweep") /\ todo[w] = {}
  /\ running' = FALSE
  /\ Goto(w, "lookup")
  /\ UNCHANGED <<timer, table>>

-----------------------------------------------------------------------------
(* db_session and the endpoints.                                           *)

\* kv_get finds the session, by a key that is still allocated or still reads so.
Found(w) ==
  /\ At(w, "lookup") /\ want[w] \in entry
  /\ polled' = [polled EXCEPT ![w] = 0]
  /\ pc' = [pc EXCEPT ![w] = "refresh"]
  /\ UNCHANGED <<timer, running, table, want, todo, item, seen>>

\* It does not: the request is refused, or it is a login.
NotFound(w) ==
  /\ At(w, "lookup") /\ (want[w] \in entry => conn[want[w]] # "open")
  /\ \/ Answered(w)
     \/ /\ want' = [want EXCEPT ![w] = None]
        /\ polled' = [polled EXCEPT ![w] = 0]
        /\ pc' = [pc EXCEPT ![w] = "login"]
        /\ UNCHANGED <<todo, item, seen>>
  /\ UNCHANGED <<timer, running, table>>

\* getms()
ReadClock(w) ==
  /\ At(w, "refresh")
  /\ seen' = [seen EXCEPT ![w] = now]
  /\ pc' = [pc EXCEPT ![w] = "stamp"]
  /\ UNCHANGED <<timer, running, table, want, todo, item, polled>>

SetTimestamp(w) ==
  /\ At(w, "stamp")
  /\ stamp' = [stamp EXCEPT ![want[w]] = seen[w]]
  /\ Goto(w, "extend")
  /\ UNCHANGED <<timer, running, entry, conn, base, late, gone>>

\* The deadline is counted from the clock read, or from db->timestamp read
\* again, which another worker may have set in the meantime.
SetTimeout(w) ==
  /\ At(w, "extend")
  /\ \E t \in {seen[w], stamp[want[w]]} : base' = [base EXCEPT ![want[w]] = t]
  /\ late' = IF now - base[want[w]] > Timeout THEN late \cup {want[w]} ELSE late
  /\ seen' = [seen EXCEPT ![w] = 0]
  /\ pc' = [pc EXCEPT ![w] = "use"]
  /\ UNCHANGED <<timer, running, entry, conn, stamp, gone, want, todo, item, polled>>

\* The endpoint is through with the connection and the request is answered.
Release(w) ==
  /\ At(w, "use")
  /\ Answered(w)
  /\ UNCHANGED <<timer, running, table>>

\* session_logout: db_free asks another store to delete the key.
Logout(w) ==
  /\ LogoutUsed
  /\ At(w, "use")
  /\ PQfinish(want[w]) /\ gone' = gone \cup {want[w]}
  /\ Answered(w)
  /\ UNCHANGED <<timer, running, entry, stamp, base, late>>

\* session_login: connect, then enter the session under a new key.
Connect(w) ==
  /\ At(w, "login")
  /\ \E s \in Ids :
       /\ conn[s] = "none"
       /\ conn' = [conn EXCEPT ![s] = "open"]
       /\ item' = [item EXCEPT ![w] = s]
  /\ pc' = [pc EXCEPT ![w] = "store"]
  /\ UNCHANGED <<timer, running, entry, stamp, base, late, gone, want, todo, seen, polled>>

Store(w) ==
  /\ At(w, "store")
  /\ entry' = entry \cup {item[w]}
  /\ stamp' = [stamp EXCEPT ![item[w]] = now]
  /\ base' = [base EXCEPT ![item[w]] = now]
  /\ Answered(w)
  /\ UNCHANGED <<timer, running, conn, late, gone>>

\* The address is not IPv4: the login fails and the connection is left open.
BadAddress(w) ==
  /\ ~Ipv4Only
  /\ At(w, "store")
  /\ Answered(w)
  /\ UNCHANGED <<timer, running, table>>

\* The entity is malformed or PostgreSQL refuses the connection.
LoginRefused(w) ==
  /\ At(w, "login")
  /\ Answered(w)
  /\ UNCHANGED <<timer, running, table>>

Step(w) ==
  \/ Arrive(w)
  \/ PollNothing(w) \/ PollTest(w) \/ TurnIdle(w) \/ TurnDue(w) \/ Fire(w)
  \/ CheckAlive(w) \/ CheckExpired(w) \/ Unlink(w) \/ Finish(w)
  \/ SweepDone(w) \/ TurnDone(w)
  \/ Found(w) \/ NotFound(w) \/ ReadClock(w) \/ SetTimestamp(w) \/ SetTimeout(w)
  \/ Release(w) \/ Logout(w)
  \/ Connect(w) \/ Store(w) \/ BadAddress(w) \/ LoginRefused(w)

Next == Tick \/ \E w \in Workers : Step(w)

Spec == Init /\ [][Next]_vars
-----------------------------------------------------------------------------
TypeOK ==
  /\ now \in 0..MaxTime /\ nextFire \in Nat /\ running \in BOOLEAN
  /\ entry \subseteq Ids /\ late \subseteq Ids /\ gone \subseteq Ids
  /\ conn \in [Ids -> {"none", "open", "finished", "twice"}]
  /\ stamp \in [Ids -> 0..MaxTime] /\ base \in [Ids -> 0..MaxTime]
  /\ pc \in [Workers -> {"idle", "poll", "turn", "turned", "due", "sweep", "unlink",
                         "finish", "lookup", "refresh", "stamp", "extend", "use",
                         "login", "store"}]
  /\ want \in [Workers -> Ids \cup {None}]
  /\ item \in [Workers -> Ids \cup {None}]
  /\ todo \in [Workers -> SUBSET Ids]
  /\ seen \in [Workers -> 0..MaxTime] /\ polled \in [Workers -> 0..MaxTime]

(* One worker: the sweep takes out only sessions whose last use is more     *)
(* than Timeout ago, however often the u32 deadline has wrapped            *)
(* (db.c:328-330).                                                         *)
NoEarlyExpiry ==
  [][\A w \in Workers :
       pc[w] = "sweep" /\ pc'[w] = "unlink" => now - stamp[item'[w]] > Timeout]_vars

(* One worker: a sweep that ends has left no session in the table that was *)
(* already expired when it started, except one logged out, while the       *)
(* server is quiet for MaxQuiet at most (db.c:342-345): sessions do not     *)
(* outlive the wrapped deadline.                                           *)
SweepIsComplete ==
  [][\A w \in Workers :
       pc[w] = "sweep" /\ pc'[w] = "lookup" =>
         \A s \in entry \ gone : polled[w] - stamp[s] <= Timeout]_vars

(* One worker: a request is only given a session idle for at most Timeout  *)
(* and one timer period, or one logged out.  db_session never looks at the *)
(* deadline; it relies on the turn of the event loop that it runs first    *)
(* (db.c:353-382).                                                         *)
ServedFresh ==
  [][\A w \in Workers :
       pc[w] = "lookup" /\ pc'[w] = "refresh" /\ want[w] \notin gone =>
         polled[w] - stamp[want[w]] <= Timeout + Period]_vars

(* One worker: a connection in use is open, unless the session had been    *)
(* logged out before (db.c:374-382).                                       *)
UseIsOpen ==
  \A w \in Workers :
    pc[w] = "use" /\ want[w] \notin gone => conn[want[w]] = "open"

(* Any workers: a sweep can close a connection that another worker is       *)
(* using, but only if the session is logged out, its deadline is past, or  *)
(* its deadline was past when a request moved it (db.c:328-334 against     *)
(* 374-383).  The deadline may be counted from a clock read long before.   *)
OnlyLateSessionsAreCut ==
  \A w \in Workers :
    LET s == want[w] IN
      pc[w] = "use" /\ s \notin late \cup gone /\ now - base[s] <= Timeout =>
        conn[s] = "open"

(* Any workers: the connection of a session in the table is open unless it  *)
(* was logged out.  Sweeps that run at once may finish a session twice,    *)
(* but none finishes it before it is out of the table (db.c:332-333).      *)
TableIsOpen ==
  \A s \in entry \ gone : conn[s] = "open"

(* IPv4 clients: an open connection is in the table or in the hands of a    *)
(* worker that is about to enter or to finish it (session.c:138-192).       *)
NoConnectionLost ==
  \A s \in Ids : conn[s] = "open" =>
    s \in entry \/ \E w \in Workers : pc[w] \in {"store", "finish"} /\ item[w] = s

(* db.c:260-262: "remove session(%s)", and then kv_del.  A session that is  *)
(* logged out is not in the table any more.                                 *)
LogoutRemovesSession ==
  [][\A w \in Workers :
       pc[w] = "use" /\ pc'[w] = "idle" /\ conn'[want[w]] # conn[want[w]] =>
         want[w] \notin entry']_vars
=============================================================================
