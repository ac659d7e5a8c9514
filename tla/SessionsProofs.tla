--------------------------- MODULE SessionsProofs ---------------------------
(***************************************************************************)
(* Proofs about Sessions, for any workers and sessions, any timeout and    *)
(* period, and any modulus that the deadlines may wrap at.                 *)
(***************************************************************************)
EXTENDS Sessions, TLAPS

(* The inductive invariant.  What a worker sweeps, removes, or was given    *)
(* was created before.                                                     *)
Created ==
  /\ \A s \in entry \cup gone : conn[s] # "none"
  /\ \A w \in Workers :
       /\ \A s \in todo[w] : conn[s] # "none"
       /\ pc[w] \in {"unlink", "finish"} => item[w] \in Ids /\ conn[item[w]] # "none"
       /\ pc[w] \in {"refresh", "stamp", "extend", "use"} =>
            want[w] \in Ids /\ conn[want[w]] # "none"

(* A session that is about to be stored is known to its login alone.       *)
Fresh ==
  \A w \in Workers : pc[w] = "store" =>
    /\ item[w] \in Ids /\ item[w] \notin entry \cup gone /\ conn[item[w]] = "open"
    /\ \A v \in Workers \ {w} :
         /\ item[w] \notin todo[v]
         /\ pc[v] \in {"store", "unlink", "finish"} => item[v] # item[w]
         /\ pc[v] \in {"refresh", "stamp", "extend", "use"} => want[v] # item[w]

(* A session is out of the table before it is finished.                    *)
Unlinked ==
  /\ TableIsOpen
  /\ \A w \in Workers : pc[w] = "finish" /\ item[w] \notin gone => item[w] \notin entry

(* Deadlines are counted from clocks that were read.                       *)
Timely ==
  /\ \A s \in Ids : stamp[s] <= now /\ base[s] <= now
  /\ \A w \in Workers : seen[w] <= now

(* A session is finished, or about to be, after a logout, after a use that  *)
(* came late, or when its deadline is past.                                *)
Over(s) == s \in late \cup gone \/ now - base[s] > Timeout

CutWhenOver ==
  /\ \A s \in Ids : conn[s] \in {"finished", "twice"} => Over(s)
  /\ \A w \in Workers : pc[w] \in {"unlink", "finish"} => Over(item[w])

Inv == TypeOK /\ Created /\ Fresh /\ Unlinked /\ Timely /\ CutWhenOver
-----------------------------------------------------------------------------
(* The wrapped deadline.                                                   *)

LEMMA DivMod ==
  ASSUME NEW m \in Nat \ {0}, NEW a \in Int
  PROVE  /\ a % m \in 0..(m - 1) /\ a \div m \in Int
         /\ a = (a \div m) * m + (a % m)
  <1>1. a % m \in 0..(m - 1)
    OBVIOUS
  <1>2. a \div m \in Int
    OBVIOUS
  <1>3. a = (a \div m) * m + (a % m)
    OBVIOUS
  <1>4. QED
    BY <1>1, <1>2, <1>3

LEMMA SameRemainder ==
  ASSUME NEW m \in Nat \ {0}, NEW q \in Int, NEW k \in Int,
         NEW r \in 0..(m - 1), NEW s \in 0..(m - 1), q * m + r = k * m + s
  PROVE  r = s
  <1>1. (q - k) * m = s - r
    OBVIOUS
  <1>2. CASE q - k >= 1
    <2>1. (q - k) * m >= m
      BY <1>2
    <2>2. QED
      BY <2>1, <1>1
  <1>3. CASE q - k <= -1
    <2>1. (q - k) * m <= -m
      BY <1>3
    <2>2. QED
      BY <2>1, <1>1
  <1>4. CASE q = k
    BY <1>1, <1>4
  <1>5. QED
    BY <1>2, <1>3, <1>4

(* The time left to a deadline a at b, from the deadline modulo M: right up *)
(* to a multiple of M.                                                     *)
Left(a, b) == ((a % M) - b) % M

LEMMA Wrapped ==
  ASSUME M \in Nat \ {0}, NEW a \in Int, NEW b \in Int,
         NEW r \in 0..(M - 1), r = a - b \/ r = a - b + M
  PROVE  Left(a, b) = r
  <1> DEFINE k == a \div M
             c == (a % M) - b
  <1>1. k \in Int /\ a % M \in Int /\ a = k * M + (a % M)
    BY DivMod
  <1>2. c \in Int /\ c = a - k * M - b
    BY <1>1
  <1>3. c % M \in 0..(M - 1) /\ c \div M \in Int /\ c = (c \div M) * M + (c % M)
    BY <1>2, DivMod
  <1>4. CASE r = a - b
    <2>1. (-k) * M = -(k * M) /\ -k \in Int
      BY <1>1
    <2>2. (-k) * M + r = (c \div M) * M + (c % M)
      BY <1>1, <1>2, <1>3, <1>4, <2>1
    <2>3. QED
      BY <1>3, <2>1, <2>2, SameRemainder DEF Left
  <1>5. CASE r = a - b + M
    <2>1. (-k - 1) * M = -(k * M) - M /\ -k - 1 \in Int
      BY <1>1
    <2>2. (-k - 1) * M + r = (c \div M) * M + (c % M)
      BY <1>1, <1>2, <1>3, <1>5, <2>1
    <2>3. QED
      BY <1>3, <2>1, <2>2, SameRemainder DEF Left
  <1>6. QED
    BY <1>4, <1>5

(* The check of a deadline is right for sessions that have been idle for    *)
(* less than half of M after the timeout.                                  *)
LEMMA ExpiredIsIdle ==
  ASSUME NEW s, now \in Nat, base[s] \in Nat, base[s] <= now
  PROVE  /\ Expired(s) => now - base[s] > Timeout
         /\ ~Expired(s) /\ now - base[s] <= Timeout + M \div 2 => now - base[s] <= Timeout
  <1> DEFINE deadline == base[s] + Timeout
  <1>1. /\ M \in Nat \ {0} /\ Timeout \in Nat /\ M \div 2 \in Nat
        /\ M = 2 * (M \div 2) /\ Timeout < M \div 2
    BY ConstantsAssumption
  <1>2. Expired(s) <=> Left(deadline, now) >= M \div 2
    BY DEF Expired, Expiry, Left
  <1>3. deadline \in Int /\ deadline - now <= Timeout /\ deadline = base[s] + Timeout
    BY <1>1
  <1> HIDE DEF deadline
  <1>4. ASSUME deadline - now >= 0 PROVE ~Expired(s)
    <2>1. deadline - now \in 0..(M - 1)
      BY <1>1, <1>3, <1>4
    <2>2. Left(deadline, now) = deadline - now
      BY <2>1, <1>1, <1>3, Wrapped
    <2>3. QED
      BY <2>2, <1>1, <1>2, <1>3
  <1>5. ASSUME deadline - now < 0, deadline - now >= -(M \div 2) PROVE Expired(s)
    <2>1. deadline - now + M \in 0..(M - 1)
      BY <1>1, <1>3, <1>5
    <2>2. Left(deadline, now) = deadline - now + M
      BY <2>1, <1>1, <1>3, Wrapped
    <2>3. QED
      BY <2>2, <1>1, <1>2, <1>3, <1>5
  <1>6. QED
    BY <1>1, <1>3, <1>4, <1>5

-----------------------------------------------------------------------------
(* The steps.                                                              *)

LEMMA ArriveKeeps ==
  ASSUME Inv, NEW w \in Workers, Arrive(w)
  PROVE  Inv'
  <1>1. TypeOK'
    BY ConstantsAssumption DEF Inv, TypeOK, Arrive, At, timer, table
  <1>2. Created'
    BY DEF Inv, TypeOK, Created, Arrive, At, timer, table
  <1>3. Fresh'
    BY DEF Inv, TypeOK, Fresh, Created, Arrive, At, timer, table
  <1>4. Unlinked'
    BY DEF Inv, TypeOK, Unlinked, TableIsOpen, Fresh, Created, Arrive, At, timer, table
  <1>5. Timely'
    BY ConstantsAssumption DEF Inv, TypeOK, Timely, Arrive, At, timer, table
  <1>6. CutWhenOver'
    BY ConstantsAssumption DEF Inv, TypeOK, CutWhenOver, Over, Created, Fresh, Arrive,
      At, timer, table
  <1>7. QED
    BY <1>1, <1>2, <1>3, <1>4, <1>5, <1>6 DEF Inv

LEMMA PollNothingKeeps ==
  ASSUME Inv, NEW w \in Workers, PollNothing(w)
  PROVE  Inv'
  <1>1. TypeOK'
    BY ConstantsAssumption DEF Inv, TypeOK, PollNothing, At, timer, table
  <1>2. Created'
    BY DEF Inv, TypeOK, Created, PollNothing, At, timer, table
  <1>3. Fresh'
    BY DEF Inv, TypeOK, Fresh, Created, PollNothing, At, timer, table
  <1>4. Unlinked'
    BY DEF Inv, TypeOK, Unlinked, TableIsOpen, Fresh, Created, PollNothing, At, timer,
      table
  <1>5. Timely'
    BY ConstantsAssumption DEF Inv, TypeOK, Timely, PollNothing, At, timer, table
  <1>6. CutWhenOver'
    BY ConstantsAssumption DEF Inv, TypeOK, CutWhenOver, Over, Created, Fresh,
      PollNothing, At, timer, table
  <1>7. QED
    BY <1>1, <1>2, <1>3, <1>4, <1>5, <1>6 DEF Inv

LEMMA PollTestKeeps ==
  ASSUME Inv, NEW w \in Workers, PollTest(w)
  PROVE  Inv'
  <1>1. TypeOK'
    BY ConstantsAssumption DEF Inv, TypeOK, PollTest, At, Goto, timer, table
  <1>2. Created'
    BY DEF Inv, TypeOK, Created, PollTest, At, Goto, timer, table
  <1>3. Fresh'
    BY DEF Inv, TypeOK, Fresh, Created, PollTest, At, Goto, timer, table
  <1>4. Unlinked'
    BY DEF Inv, TypeOK, Unlinked, TableIsOpen, Fresh, Created, PollTest, At, Goto, timer,
      table
  <1>5. Timely'
    BY ConstantsAssumption DEF Inv, TypeOK, Timely, PollTest, At, Goto, timer, table
  <1>6. CutWhenOver'
    BY ConstantsAssumption DEF Inv, TypeOK, CutWhenOver, Over, Created, Fresh, PollTest,
      At, Goto, timer, table
  <1>7. QED
    BY <1>1, <1>2, <1>3, <1>4, <1>5, <1>6 DEF Inv

LEMMA TurnIdleKeeps ==
  ASSUME Inv, NEW w \in Workers, TurnIdle(w)
  PROVE  Inv'
  <1>1. TypeOK'
    BY ConstantsAssumption DEF Inv, TypeOK, TurnIdle, At, timer, table
  <1>2. Created'
    BY DEF Inv, TypeOK, Created, TurnIdle, At, timer, table
  <1>3. Fresh'
    BY DEF Inv, TypeOK, Fresh, Created, TurnIdle, At, timer, table
  <1>4. Unlinked'
    BY DEF Inv, TypeOK, Unlinked, TableIsOpen, Fresh, Created, TurnIdle, At, timer, table
  <1>5. Timely'
    BY ConstantsAssumption DEF Inv, TypeOK, Timely, TurnIdle, At, timer, table
  <1>6. CutWhenOver'
    BY ConstantsAssumption DEF Inv, TypeOK, CutWhenOver, Over, Created, Fresh, TurnIdle,
      At, timer, table
  <1>7. QED
    BY <1>1, <1>2, <1>3, <1>4, <1>5, <1>6 DEF Inv

LEMMA TurnDueKeeps ==
  ASSUME Inv, NEW w \in Workers, TurnDue(w)
  PROVE  Inv'
  <1>1. TypeOK'
    BY ConstantsAssumption DEF Inv, TypeOK, TurnDue, At, Goto, timer, table
  <1>2. Created'
    BY DEF Inv, TypeOK, Created, TurnDue, At, Goto, timer, table
  <1>3. Fresh'
    BY DEF Inv, TypeOK, Fresh, Created, TurnDue, At, Goto, timer, table
  <1>4. Unlinked'
    BY DEF Inv, TypeOK, Unlinked, TableIsOpen, Fresh, Created, TurnDue, At, Goto, timer,
      table
  <1>5. Timely'
    BY ConstantsAssumption DEF Inv, TypeOK, Timely, TurnDue, At, Goto, timer, table
  <1>6. CutWhenOver'
    BY ConstantsAssumption DEF Inv, TypeOK, CutWhenOver, Over, Created, Fresh, TurnDue,
      At, Goto, timer, table
  <1>7. QED
    BY <1>1, <1>2, <1>3, <1>4, <1>5, <1>6 DEF Inv

LEMMA FireKeeps ==
  ASSUME Inv, NEW w \in Workers, Fire(w)
  PROVE  Inv'
  <1>1. TypeOK'
    BY ConstantsAssumption DEF Inv, TypeOK, Fire, At, table
  <1>2. Created'
    BY ConstantsAssumption DEF Inv, TypeOK, Created, Fire, At, table
  <1>3. Fresh'
    BY ConstantsAssumption DEF Inv, TypeOK, Fresh, Created, Fire, At, table
  <1>4. Unlinked'
    BY ConstantsAssumption DEF Inv, TypeOK, Unlinked, TableIsOpen, Fresh, Created, Fire,
      At, table
  <1>5. Timely'
    BY ConstantsAssumption DEF Inv, TypeOK, Timely, Fire, At, table
  <1>6. CutWhenOver'
    BY ConstantsAssumption DEF Inv, TypeOK, CutWhenOver, Over, Created, Fresh, Fire, At,
      table
  <1>7. QED
    BY <1>1, <1>2, <1>3, <1>4, <1>5, <1>6 DEF Inv

LEMMA CheckAliveKeeps ==
  ASSUME Inv, NEW w \in Workers, CheckAlive(w)
  PROVE  Inv'
  <1>1. TypeOK'
    BY ConstantsAssumption DEF Inv, TypeOK, CheckAlive, At, timer, table
  <1>2. Created'
    BY DEF Inv, TypeOK, Created, CheckAlive, At, timer, table
  <1>3. Fresh'
    BY DEF Inv, TypeOK, Fresh, Created, CheckAlive, At, timer, table
  <1>4. Unlinked'
    BY DEF Inv, TypeOK, Unlinked, TableIsOpen, Fresh, Created, CheckAlive, At, timer,
      table
  <1>5. Timely'
    BY ConstantsAssumption DEF Inv, TypeOK, Timely, CheckAlive, At, timer, table
  <1>6. CutWhenOver'
    BY ConstantsAssumption DEF Inv, TypeOK, CutWhenOver, Over, Created, Fresh,
      CheckAlive, At, timer, table
  <1>7. QED
    BY <1>1, <1>2, <1>3, <1>4, <1>5, <1>6 DEF Inv

LEMMA CheckExpiredKeeps ==
  ASSUME Inv, NEW w \in Workers, CheckExpired(w)
  PROVE  Inv'
  <1>1. TypeOK'
    BY ConstantsAssumption DEF Inv, TypeOK, CheckExpired, At, timer, table
  <1>2. Created'
    BY DEF Inv, TypeOK, Created, CheckExpired, At, timer, table
  <1>3. Fresh'
    BY DEF Inv, TypeOK, Fresh, Created, CheckExpired, At, timer, table
  <1>4. Unlinked'
    BY DEF Inv, TypeOK, Unlinked, TableIsOpen, Fresh, Created, CheckExpired, At, timer,
      table
  <1>5. Timely'
    BY ConstantsAssumption DEF Inv, TypeOK, Timely, CheckExpired, At, timer, table
  <1>6. CutWhenOver'
    <2> PICK s \in todo[w] : Expired(s) /\ item' = [item EXCEPT ![w] = s]
      BY DEF CheckExpired
    <2>1. s \in Ids
      BY DEF Inv, TypeOK
    <2>2. now - base[s] > Timeout
      BY <2>1, ExpiredIsIdle DEF Inv, TypeOK, Timely
    <2>3. Over(s) /\ \A v \in Workers \ {w} : item'[v] = item[v] /\ pc'[v] = pc[v]
      BY <2>2 DEF Inv, TypeOK, Over, CheckExpired
    <2>4. QED
      BY <2>1, <2>3 DEF Inv, TypeOK, CutWhenOver, Over, CheckExpired, timer, table
  <1>7. QED
    BY <1>1, <1>2, <1>3, <1>4, <1>5, <1>6 DEF Inv

LEMMA UnlinkKeeps ==
  ASSUME Inv, NEW w \in Workers, Unlink(w)
  PROVE  Inv'
  <1>1. TypeOK'
    BY ConstantsAssumption DEF Inv, TypeOK, Unlink, At, Goto, timer
  <1>2. Created'
    BY DEF Inv, TypeOK, Created, Unlink, At, Goto, timer
  <1>3. Fresh'
    BY DEF Inv, TypeOK, Fresh, Created, Unlink, At, Goto, timer
  <1>4. Unlinked'
    BY DEF Inv, TypeOK, Unlinked, TableIsOpen, Fresh, Created, Unlink, At, Goto, timer
  <1>5. Timely'
    BY ConstantsAssumption DEF Inv, TypeOK, Timely, Unlink, At, Goto, timer
  <1>6. CutWhenOver'
    BY ConstantsAssumption DEF Inv, TypeOK, CutWhenOver, Over, Created, Fresh, Unlink,
      At, Goto, timer
  <1>7. QED
    BY <1>1, <1>2, <1>3, <1>4, <1>5, <1>6 DEF Inv

LEMMA FinishKeeps ==
  ASSUME Inv, NEW w \in Workers, Finish(w)
  PROVE  Inv'
  <1>1. TypeOK'
    BY ConstantsAssumption DEF Inv, TypeOK, Finish, At, PQfinish, timer
  <1>2. Created'
    BY DEF Inv, TypeOK, Created, Finish, At, PQfinish, timer
  <1>3. Fresh'
    BY DEF Inv, TypeOK, Fresh, Created, Finish, At, PQfinish, timer
  <1>4. Unlinked'
    BY DEF Inv, TypeOK, Unlinked, TableIsOpen, Fresh, Created, Finish, At, PQfinish,
      timer
  <1>5. Timely'
    BY ConstantsAssumption DEF Inv, TypeOK, Timely, Finish, At, PQfinish, timer
  <1>6. CutWhenOver'
    BY ConstantsAssumption DEF Inv, TypeOK, CutWhenOver, Over, Created, Fresh, Finish,
      At, PQfinish, timer
  <1>7. QED
    BY <1>1, <1>2, <1>3, <1>4, <1>5, <1>6 DEF Inv

LEMMA SweepDoneKeeps ==
  ASSUME Inv, NEW w \in Workers, SweepDone(w)
  PROVE  Inv'
  <1>1. TypeOK'
    BY ConstantsAssumption DEF Inv, TypeOK, SweepDone, At, Goto, timer, table
  <1>2. Created'
    BY DEF Inv, TypeOK, Created, SweepDone, At, Goto, timer, table
  <1>3. Fresh'
    BY DEF Inv, TypeOK, Fresh, Created, SweepDone, At, Goto, timer, table
  <1>4. Unlinked'
    BY DEF Inv, TypeOK, Unlinked, TableIsOpen, Fresh, Created, SweepDone, At, Goto,
      timer, table
  <1>5. Timely'
    BY ConstantsAssumption DEF Inv, TypeOK, Timely, SweepDone, At, Goto, timer, table
  <1>6. CutWhenOver'
    BY ConstantsAssumption DEF Inv, TypeOK, CutWhenOver, Over, Created, Fresh, SweepDone,
      At, Goto, timer, table
  <1>7. QED
    BY <1>1, <1>2, <1>3, <1>4, <1>5, <1>6 DEF Inv

LEMMA TurnDoneKeeps ==
  ASSUME Inv, NEW w \in Workers, TurnDone(w)
  PROVE  Inv'
  <1>1. TypeOK'
    BY ConstantsAssumption DEF Inv, TypeOK, TurnDone, At, Goto, timer, table
  <1>2. Created'
    BY DEF Inv, TypeOK, Created, TurnDone, At, Goto, timer, table
  <1>3. Fresh'
    BY DEF Inv, TypeOK, Fresh, Created, TurnDone, At, Goto, timer, table
  <1>4. Unlinked'
    BY DEF Inv, TypeOK, Unlinked, TableIsOpen, Fresh, Created, TurnDone, At, Goto, timer,
      table
  <1>5. Timely'
    BY ConstantsAssumption DEF Inv, TypeOK, Timely, TurnDone, At, Goto, timer, table
  <1>6. CutWhenOver'
    BY ConstantsAssumption DEF Inv, TypeOK, CutWhenOver, Over, Created, Fresh, TurnDone,
      At, Goto, timer, table
  <1>7. QED
    BY <1>1, <1>2, <1>3, <1>4, <1>5, <1>6 DEF Inv

LEMMA FoundKeeps ==
  ASSUME Inv, NEW w \in Workers, Found(w)
  PROVE  Inv'
  <1>1. TypeOK'
    BY ConstantsAssumption DEF Inv, TypeOK, Found, At, timer, table
  <1>2. Created'
    BY DEF Inv, TypeOK, Created, Found, At, timer, table
  <1>3. Fresh'
    BY DEF Inv, TypeOK, Fresh, Created, Found, At, timer, table
  <1>4. Unlinked'
    BY DEF Inv, TypeOK, Unlinked, TableIsOpen, Fresh, Created, Found, At, timer, table
  <1>5. Timely'
    BY ConstantsAssumption DEF Inv, TypeOK, Timely, Found, At, timer, table
  <1>6. CutWhenOver'
    BY ConstantsAssumption DEF Inv, TypeOK, CutWhenOver, Over, Created, Fresh, Found, At,
      timer, table
  <1>7. QED
    BY <1>1, <1>2, <1>3, <1>4, <1>5, <1>6 DEF Inv

LEMMA NotFoundKeeps ==
  ASSUME Inv, NEW w \in Workers, NotFound(w)
  PROVE  Inv'
  <1>1. TypeOK'
    BY ConstantsAssumption DEF Inv, TypeOK, NotFound, At, Answered, timer, table
  <1>2. Created'
    BY DEF Inv, TypeOK, Created, NotFound, At, Answered, timer, table
  <1>3. Fresh'
    BY DEF Inv, TypeOK, Fresh, Created, NotFound, At, Answered, timer, table
  <1>4. Unlinked'
    BY DEF Inv, TypeOK, Unlinked, TableIsOpen, Fresh, Created, NotFound, At, Answered,
      timer, table
  <1>5. Timely'
    BY ConstantsAssumption DEF Inv, TypeOK, Timely, NotFound, At, Answered, timer, table
  <1>6. CutWhenOver'
    BY ConstantsAssumption DEF Inv, TypeOK, CutWhenOver, Over, Created, Fresh, NotFound,
      At, Answered, timer, table
  <1>7. QED
    BY <1>1, <1>2, <1>3, <1>4, <1>5, <1>6 DEF Inv

LEMMA ReadClockKeeps ==
  ASSUME Inv, NEW w \in Workers, ReadClock(w)
  PROVE  Inv'
  <1>1. TypeOK'
    BY ConstantsAssumption DEF Inv, TypeOK, ReadClock, At, timer, table
  <1>2. Created'
    BY DEF Inv, TypeOK, Created, ReadClock, At, timer, table
  <1>3. Fresh'
    BY DEF Inv, TypeOK, Fresh, Created, ReadClock, At, timer, table
  <1>4. Unlinked'
    BY DEF Inv, TypeOK, Unlinked, TableIsOpen, Fresh, Created, ReadClock, At, timer,
      table
  <1>5. Timely'
    BY ConstantsAssumption DEF Inv, TypeOK, Timely, ReadClock, At, timer, table
  <1>6. CutWhenOver'
    BY ConstantsAssumption DEF Inv, TypeOK, CutWhenOver, Over, Created, Fresh, ReadClock,
      At, timer, table
  <1>7. QED
    BY <1>1, <1>2, <1>3, <1>4, <1>5, <1>6 DEF Inv

LEMMA SetTimestampKeeps ==
  ASSUME Inv, NEW w \in Workers, SetTimestamp(w)
  PROVE  Inv'
  <1>1. TypeOK'
    BY ConstantsAssumption DEF Inv, TypeOK, SetTimestamp, At, Goto, timer
  <1>2. Created'
    BY DEF Inv, TypeOK, Created, SetTimestamp, At, Goto, timer
  <1>3. Fresh'
    BY DEF Inv, TypeOK, Fresh, Created, SetTimestamp, At, Goto, timer
  <1>4. Unlinked'
    BY DEF Inv, TypeOK, Unlinked, TableIsOpen, Fresh, Created, SetTimestamp, At, Goto,
      timer
  <1>5. Timely'
    BY ConstantsAssumption DEF Inv, TypeOK, Timely, SetTimestamp, At, Goto, timer
  <1>6. CutWhenOver'
    BY ConstantsAssumption DEF Inv, TypeOK, CutWhenOver, Over, Created, Fresh,
      SetTimestamp, At, Goto, timer
  <1>7. QED
    BY <1>1, <1>2, <1>3, <1>4, <1>5, <1>6 DEF Inv

LEMMA SetTimeoutKeeps ==
  ASSUME Inv, NEW w \in Workers, SetTimeout(w)
  PROVE  Inv'
  <1>1. TypeOK'
    BY ConstantsAssumption DEF Inv, TypeOK, Created, SetTimeout, At, timer
  <1>2. Created'
    BY DEF Inv, TypeOK, Created, SetTimeout, At, timer
  <1>3. Fresh'
    BY DEF Inv, TypeOK, Fresh, Created, SetTimeout, At, timer
  <1>4. Unlinked'
    BY DEF Inv, TypeOK, Unlinked, TableIsOpen, Fresh, Created, SetTimeout, At, timer
  <1>5. Timely'
    BY ConstantsAssumption DEF Inv, TypeOK, Timely, SetTimeout, At, timer
  <1>6. CutWhenOver'
    BY ConstantsAssumption DEF Inv, TypeOK, CutWhenOver, Over, Created, Fresh,
      SetTimeout, At, timer
  <1>7. QED
    BY <1>1, <1>2, <1>3, <1>4, <1>5, <1>6 DEF Inv

LEMMA ReleaseKeeps ==
  ASSUME Inv, NEW w \in Workers, Release(w)
  PROVE  Inv'
  <1>1. TypeOK'
    BY ConstantsAssumption DEF Inv, TypeOK, Release, At, Answered, timer, table
  <1>2. Created'
    BY DEF Inv, TypeOK, Created, Release, At, Answered, timer, table
  <1>3. Fresh'
    BY DEF Inv, TypeOK, Fresh, Created, Release, At, Answered, timer, table
  <1>4. Unlinked'
    BY DEF Inv, TypeOK, Unlinked, TableIsOpen, Fresh, Created, Release, At, Answered,
      timer, table
  <1>5. Timely'
    BY ConstantsAssumption DEF Inv, TypeOK, Timely, Release, At, Answered, timer, table
  <1>6. CutWhenOver'
    BY ConstantsAssumption DEF Inv, TypeOK, CutWhenOver, Over, Created, Fresh, Release,
      At, Answered, timer, table
  <1>7. QED
    BY <1>1, <1>2, <1>3, <1>4, <1>5, <1>6 DEF Inv

LEMMA LogoutKeeps ==
  ASSUME Inv, NEW w \in Workers, Logout(w)
  PROVE  Inv'
  <1>1. TypeOK'
    BY ConstantsAssumption DEF Inv, TypeOK, Created, Logout, At, Answered, PQfinish,
      timer
  <1>2. Created'
    BY DEF Inv, TypeOK, Created, Logout, At, Answered, PQfinish, timer
  <1>3. Fresh'
    BY DEF Inv, TypeOK, Fresh, Created, Logout, At, Answered, PQfinish, timer
  <1>4. Unlinked'
    BY DEF Inv, TypeOK, Unlinked, TableIsOpen, Fresh, Created, Logout, At, Answered,
      PQfinish, timer
  <1>5. Timely'
    BY ConstantsAssumption DEF Inv, TypeOK, Timely, Logout, At, Answered, PQfinish, timer
  <1>6. CutWhenOver'
    BY ConstantsAssumption DEF Inv, TypeOK, CutWhenOver, Over, Created, Fresh, Logout,
      At, Answered, PQfinish, timer
  <1>7. QED
    BY <1>1, <1>2, <1>3, <1>4, <1>5, <1>6 DEF Inv

LEMMA ConnectKeeps ==
  ASSUME Inv, NEW w \in Workers, Connect(w)
  PROVE  Inv'
  <1>1. TypeOK'
    BY ConstantsAssumption DEF Inv, TypeOK, Connect, At, timer
  <1>2. Created'
    BY DEF Inv, TypeOK, Created, Connect, At, timer
  <1>3. Fresh'
    BY DEF Inv, TypeOK, Fresh, Created, Connect, At, timer
  <1>4. Unlinked'
    BY DEF Inv, TypeOK, Unlinked, TableIsOpen, Fresh, Created, Connect, At, timer
  <1>5. Timely'
    BY ConstantsAssumption DEF Inv, TypeOK, Timely, Connect, At, timer
  <1>6. CutWhenOver'
    BY ConstantsAssumption DEF Inv, TypeOK, CutWhenOver, Over, Created, Fresh, Connect,
      At, timer
  <1>7. QED
    BY <1>1, <1>2, <1>3, <1>4, <1>5, <1>6 DEF Inv

LEMMA StoreKeeps ==
  ASSUME Inv, NEW w \in Workers, Store(w)
  PROVE  Inv'
  <1>1. TypeOK'
    BY ConstantsAssumption DEF Inv, TypeOK, Fresh, Store, At, Answered, timer
  <1>2. Created'
    BY DEF Inv, TypeOK, Fresh, Created, Store, At, Answered, timer
  <1>3. Fresh'
    BY DEF Inv, TypeOK, Fresh, Created, Store, At, Answered, timer
  <1>4. Unlinked'
    BY DEF Inv, TypeOK, Unlinked, TableIsOpen, Fresh, Created, Store, At, Answered, timer
  <1>5. Timely'
    BY ConstantsAssumption DEF Inv, TypeOK, Timely, Store, At, Answered, timer
  <1>6. CutWhenOver'
    BY ConstantsAssumption DEF Inv, TypeOK, CutWhenOver, Over, Created, Fresh, Store, At,
      Answered, timer
  <1>7. QED
    BY <1>1, <1>2, <1>3, <1>4, <1>5, <1>6 DEF Inv

LEMMA BadAddressKeeps ==
  ASSUME Inv, NEW w \in Workers, BadAddress(w)
  PROVE  Inv'
  <1>1. TypeOK'
    BY ConstantsAssumption DEF Inv, TypeOK, BadAddress, At, Answered, timer, table
  <1>2. Created'
    BY DEF Inv, TypeOK, Created, BadAddress, At, Answered, timer, table
  <1>3. Fresh'
    BY DEF Inv, TypeOK, Fresh, Created, BadAddress, At, Answered, timer, table
  <1>4. Unlinked'
    BY DEF Inv, TypeOK, Unlinked, TableIsOpen, Fresh, Created, BadAddress, At, Answered,
      timer, table
  <1>5. Timely'
    BY ConstantsAssumption DEF Inv, TypeOK, Timely, BadAddress, At, Answered, timer,
      table
  <1>6. CutWhenOver'
    BY ConstantsAssumption DEF Inv, TypeOK, CutWhenOver, Over, Created, Fresh,
      BadAddress, At, Answered, timer, table
  <1>7. QED
    BY <1>1, <1>2, <1>3, <1>4, <1>5, <1>6 DEF Inv

LEMMA LoginRefusedKeeps ==
  ASSUME Inv, NEW w \in Workers, LoginRefused(w)
  PROVE  Inv'
  <1>1. TypeOK'
    BY ConstantsAssumption DEF Inv, TypeOK, LoginRefused, At, Answered, timer, table
  <1>2. Created'
    BY DEF Inv, TypeOK, Created, LoginRefused, At, Answered, timer, table
  <1>3. Fresh'
    BY DEF Inv, TypeOK, Fresh, Created, LoginRefused, At, Answered, timer, table
  <1>4. Unlinked'
    BY DEF Inv, TypeOK, Unlinked, TableIsOpen, Fresh, Created, LoginRefused, At,
      Answered, timer, table
  <1>5. Timely'
    BY ConstantsAssumption DEF Inv, TypeOK, Timely, LoginRefused, At, Answered, timer,
      table
  <1>6. CutWhenOver'
    BY ConstantsAssumption DEF Inv, TypeOK, CutWhenOver, Over, Created, Fresh,
      LoginRefused, At, Answered, timer, table
  <1>7. QED
    BY <1>1, <1>2, <1>3, <1>4, <1>5, <1>6 DEF Inv

LEMMA TickKeeps ==
  ASSUME Inv, Tick
  PROVE  Inv'
  <1>1. TypeOK'
    BY ConstantsAssumption DEF Inv, TypeOK, Tick, table, work
  <1>2. Created' /\ Fresh' /\ Unlinked'
    BY DEF Inv, Created, Fresh, Unlinked, TableIsOpen, Tick, table, work
  <1>3. Timely'
    BY DEF Inv, TypeOK, Timely, Tick, table, work
  <1>4. CutWhenOver'
    <2>1. ASSUME NEW s \in Ids, Over(s) PROVE Over(s)'
      BY <2>1, ConstantsAssumption DEF Inv, TypeOK, Over, Tick, table, work
    <2>2. \A w \in Workers : pc[w] \in {"unlink", "finish"} => item[w] \in Ids
      BY DEF Inv, Created
    <2>3. QED
      BY <2>1, <2>2 DEF Inv, CutWhenOver, Tick, table, work
  <1>5. QED
    BY <1>1, <1>2, <1>3, <1>4 DEF Inv

LEMMA StutterKeeps ==
  ASSUME Inv, UNCHANGED vars
  PROVE  Inv'
  <1>1. TypeOK' /\ Created' /\ Fresh'
    BY DEF Inv, TypeOK, Created, Fresh, vars, timer, table, work
  <1>2. Unlinked' /\ Timely' /\ CutWhenOver'
    BY DEF Inv, Unlinked, TableIsOpen, Timely, CutWhenOver, Over, vars, timer, table, work
  <1>3. QED
    BY <1>1, <1>2 DEF Inv

LEMMA InitInv == Init => Inv
  <1> SUFFICES ASSUME Init PROVE Inv
    OBVIOUS
  <1>1. TypeOK
    <2>1. running \in BOOLEAN
      BY DEF Init
    <2>2. QED
      BY <2>1, ConstantsAssumption DEF Init, TypeOK
  <1>2. Created /\ Fresh /\ Unlinked
    BY DEF Init, Created, Fresh, Unlinked, TableIsOpen
  <1>3. Timely /\ CutWhenOver
    BY DEF Init, Timely, CutWhenOver
  <1>4. QED
    BY <1>1, <1>2, <1>3 DEF Inv

LEMMA StepInv == Inv /\ [Next]_vars => Inv'
  <1> SUFFICES ASSUME Inv, [Next]_vars PROVE Inv'
    OBVIOUS
  <1>1. CASE UNCHANGED vars
    BY <1>1, StutterKeeps
  <1>2. CASE Tick
    BY <1>2, TickKeeps
  <1>3. ASSUME NEW w \in Workers, Step(w) PROVE Inv'
    <2>1. CASE Arrive(w) \/ PollNothing(w) \/ PollTest(w) \/ TurnIdle(w) \/ TurnDue(w) \/
      Fire(w)
      BY <2>1, ArriveKeeps, PollNothingKeeps, PollTestKeeps, TurnIdleKeeps, TurnDueKeeps,
        FireKeeps
    <2>2. CASE CheckAlive(w) \/ CheckExpired(w) \/ Unlink(w) \/ Finish(w) \/ SweepDone(w)
      \/ TurnDone(w)
      BY <2>2, CheckAliveKeeps, CheckExpiredKeeps, UnlinkKeeps, FinishKeeps,
        SweepDoneKeeps, TurnDoneKeeps
    <2>3. CASE Found(w) \/ NotFound(w) \/ ReadClock(w) \/ SetTimestamp(w) \/
      SetTimeout(w) \/ Release(w)
      BY <2>3, FoundKeeps, NotFoundKeeps, ReadClockKeeps, SetTimestampKeeps,
        SetTimeoutKeeps, ReleaseKeeps
    <2>4. CASE Logout(w) \/ Connect(w) \/ Store(w) \/ BadAddress(w) \/ LoginRefused(w)
      BY <2>4, LogoutKeeps, ConnectKeeps, StoreKeeps, BadAddressKeeps, LoginRefusedKeeps
    <2>5. QED
      BY <1>3, <2>1, <2>2, <2>3, <2>4 DEF Step
  <1>4. QED
    BY <1>1, <1>2, <1>3 DEF Next

-----------------------------------------------------------------------------
(* Theorems for any workers.                                               *)

(* The inductive invariant holds in every state (db.c:255-396).            *)
THEOREM Invariance == Spec => []Inv
  BY InitInv, StepInv, PTL DEF Spec

(* Every variable keeps its type.                                          *)
THEOREM TypeCorrect == Spec => []TypeOK
  <1>1. Inv => TypeOK
    BY DEF Inv
  <1>2. QED
    BY <1>1, Invariance, PTL

(* No connection is closed while its session is in the table, but by a      *)
(* logout, however many sweeps run at once.                                *)
THEOREM TableStaysOpen == Spec => []TableIsOpen
  <1>1. Inv => TableIsOpen
    BY DEF Inv, Unlinked
  <1>2. QED
    BY <1>1, Invariance, PTL

(* A request's connection is only cut off by a sweep when the deadline was  *)
(* past, or was past when it was moved.                                    *)
THEOREM CutsAreLate == Spec => []OnlyLateSessionsAreCut
  <1>1. Inv => OnlyLateSessionsAreCut
    <2> SUFFICES ASSUME Inv, NEW w \in Workers, pc[w] = "use",
                        want[w] \notin late \cup gone, now - base[want[w]] <= Timeout
                 PROVE  conn[want[w]] = "open"
      BY DEF OnlyLateSessionsAreCut
    <2>1. want[w] \in Ids /\ conn[want[w]] # "none"
      BY DEF Inv, Created
    <2>2. ~Over(want[w])
      BY <2>1, ConstantsAssumption DEF Inv, TypeOK, Over
    <2>3. conn[want[w]] \notin {"finished", "twice"}
      BY <2>1, <2>2 DEF Inv, CutWhenOver
    <2>4. QED
      BY <2>1, <2>3 DEF Inv, TypeOK
  <1>2. QED
    BY <1>1, Invariance, PTL

-----------------------------------------------------------------------------
(* Connections are not lost.                                               *)

LEMMA InitNoneLost == Init => NoConnectionLost
  BY DEF Init, NoConnectionLost

LEMMA StepNoneLost ==
  ASSUME Ipv4Only, Inv, NoConnectionLost, [Next]_vars
  PROVE  NoConnectionLost'
  <1>1. CASE UNCHANGED vars \/ Tick
    BY <1>1 DEF NoConnectionLost, Tick, vars, table, work
  <1>2. ASSUME NEW w \in Workers, Step(w) PROVE NoConnectionLost'
    <2>1. CASE Arrive(w) \/ Found(w) \/ NotFound(w) \/ Release(w) \/ LoginRefused(w) \/
      ReadClock(w)
      BY <2>1 DEF Inv, TypeOK, NoConnectionLost, Arrive, Found, NotFound, Release,
        LoginRefused, ReadClock, Answered, At, table
    <2>2. CASE PollNothing(w) \/ PollTest(w) \/ TurnIdle(w) \/ TurnDue(w) \/ Fire(w) \/
      TurnDone(w)
      BY <2>2 DEF Inv, TypeOK, NoConnectionLost, PollNothing, PollTest, TurnIdle,
        TurnDue, Fire, TurnDone, At, Goto, table
    <2>3. CASE CheckAlive(w) \/ CheckExpired(w) \/ SweepDone(w)
      BY <2>3 DEF Inv, TypeOK, NoConnectionLost, CheckAlive, CheckExpired, SweepDone, At,
        Goto, table
    <2>4. CASE SetTimestamp(w) \/ SetTimeout(w)
      BY <2>4 DEF Inv, TypeOK, NoConnectionLost, SetTimestamp, SetTimeout, At, Goto
    <2>5. CASE Unlink(w)
      BY <2>5 DEF Inv, TypeOK, NoConnectionLost, Unlink, At, Goto
    <2>6. CASE Finish(w)
      BY <2>6 DEF Inv, TypeOK, NoConnectionLost, Created, PQfinish, Finish, At
    <2>7. CASE Logout(w)
      BY <2>7 DEF Inv, TypeOK, NoConnectionLost, Created, PQfinish, Logout, Answered, At
    <2>8. CASE Connect(w)
      BY <2>8 DEF Inv, TypeOK, NoConnectionLost, Connect, At
    <2>9. CASE Store(w)
      BY <2>9 DEF Inv, TypeOK, NoConnectionLost, Store, Answered, At
    <2>10. CASE BadAddress(w)
      BY <2>10 DEF BadAddress
    <2>11. QED
      BY <1>2, <2>1, <2>2, <2>3, <2>4, <2>5, <2>6, <2>7, <2>8, <2>9, <2>10 DEF Step
  <1>3. QED
    BY <1>1, <1>2 DEF Next

(* With IPv4 clients no open connection gets out of reach: it is in the     *)
(* table, or a worker is about to enter or to finish it.                   *)
THEOREM ConnectionsAreKept ==
  ASSUME Ipv4Only
  PROVE  Spec => []NoConnectionLost
  <1>1. Inv /\ NoConnectionLost /\ [Next]_vars => NoConnectionLost'
    BY StepNoneLost
  <1>2. QED
    BY <1>1, InitNoneLost, Invariance, PTL DEF Spec

-----------------------------------------------------------------------------
(* A single worker: its sweep is complete and never early, and what it is  *)
(* given is fresh and open.                                                *)

(* The loop runs only in its hands.                                        *)
Sweeping(w) == pc[w] \in {"sweep", "unlink", "finish"}

Alone(w) ==
  /\ running => Sweeping(w) \/ pc[w] \in {"turned", "due"}
  /\ pc[w] = "due" => nextFire <= now
  /\ Sweeping(w) => todo[w] \subseteq entry
  /\ pc[w] = "unlink" => item[w] \in entry /\ item[w] \notin todo[w]
  /\ pc[w] = "finish" => item[w] \notin todo[w]

(* Deadlines are counted from the last use.                                *)
Counted(w) ==
  /\ \A s \in Ids : pc[w] # "extend" \/ s # want[w] => base[s] = stamp[s]
  /\ pc[w] = "extend" => stamp[want[w]] = seen[w]
  /\ pc[w] \in {"stamp", "extend"} => nextFire <= seen[w] + Period

(* The timer is rearmed for one period from now at most, and a due timer   *)
(* waits for MaxQuiet at most.                                             *)
Rearmed == nextFire <= now + Period /\ now <= nextFire + MaxQuiet

(* Entries that the sweep under way has still to take out.                 *)
Unchecked(w) == todo[w] \cup (IF pc[w] = "unlink" THEN {item[w]} ELSE {})

(* Between two sweeps no session is older, at the next one, than the       *)
(* timeout and a period; during one, all are younger than half of M, and   *)
(* those it has checked were no older than the timeout when it began.      *)
Young(w) ==
  /\ ~Sweeping(w) => \A s \in entry \ gone : nextFire - stamp[s] <= Timeout + Period
  /\ Sweeping(w) =>
       /\ nextFire <= polled[w] + Period
       /\ \A s \in entry \ gone : polled[w] - stamp[s] <= Timeout + Period + MaxQuiet
       /\ \A s \in (entry \ gone) \ Unchecked(w) : polled[w] - stamp[s] <= Timeout

(* What a request was given is in the table, and fresh.                    *)
Given(w) ==
  /\ polled[w] <= now
  /\ pc[w] \in {"turned", "lookup"} =>
       \A s \in entry \ gone : polled[w] - stamp[s] <= Timeout + Period
  /\ pc[w] \in {"refresh", "stamp", "extend", "use"} => want[w] \in entry

Inv1(w) == Inv /\ Rearmed /\ Alone(w) /\ Counted(w) /\ Young(w) /\ Given(w)
-----------------------------------------------------------------------------

LEMMA InitInv1 ==
  ASSUME NEW u, Workers = {u}, Init
  PROVE  Inv1(u)
  <1>1. Inv
    BY InitInv
  <1>2. Rearmed /\ Young(u) /\ Given(u) /\ Alone(u) /\ Counted(u)
    BY ConstantsAssumption DEF Init, Rearmed, Young, Sweeping, Given, Alone, Counted
  <1>3. QED
    BY <1>1, <1>2 DEF Inv1

LEMMA StepRearmed ==
  ASSUME NEW u, Workers = {u}, Inv, Rearmed, Alone(u), [Next]_vars
  PROVE  Rearmed'
  <1>1. CASE UNCHANGED timer
    BY <1>1 DEF Rearmed, timer
  <1>2. CASE Tick
    BY <1>2, ConstantsAssumption DEF Inv, TypeOK, Rearmed, Tick
  <1>3. CASE Fire(u)
    BY <1>3, ConstantsAssumption DEF Inv, TypeOK, Rearmed, Alone, Fire, At
  <1>4. QED
    BY <1>1, <1>2, <1>3 DEF Next, Step, vars, Arrive, PollNothing, PollTest, TurnIdle,
      TurnDue, CheckAlive, CheckExpired, Unlink, Finish, SweepDone, TurnDone, Found,
      NotFound, ReadClock, SetTimestamp, SetTimeout, Release, Logout, Connect, Store,
      BadAddress, LoginRefused

LEMMA StepAlone ==
  ASSUME NEW u, Workers = {u}, Inv1(u), [Next]_vars
  PROVE  Alone(u)' /\ Counted(u)'
  <1> USE DEF Inv1, Inv, TypeOK
  <1>1. CASE UNCHANGED vars
    BY <1>1 DEF Alone, Counted, Sweeping, vars, timer, table, work
  <1>2. CASE Tick
    BY <1>2 DEF Tick, Alone, Counted, Sweeping, table, work
  <1>3. CASE Arrive(u)
    BY <1>3 DEF Arrive, At, timer, table, Alone, Counted, Sweeping
  <1>4. CASE PollNothing(u)
    BY <1>4 DEF PollNothing, At, timer, table, Alone, Counted, Sweeping
  <1>5. CASE PollTest(u)
    BY <1>5 DEF PollTest, At, Goto, timer, table, Alone, Counted, Sweeping
  <1>6. CASE TurnIdle(u)
    BY <1>6 DEF TurnIdle, At, timer, table, Alone, Counted, Sweeping
  <1>7. CASE TurnDue(u)
    BY <1>7 DEF TurnDue, At, Goto, timer, table, Alone, Counted, Sweeping
  <1>8. CASE Fire(u)
    BY <1>8, ConstantsAssumption DEF Fire, At, table, Alone, Counted, Sweeping
  <1>9. CASE CheckAlive(u)
    BY <1>9 DEF CheckAlive, At, timer, table, Alone, Counted, Sweeping
  <1>10. CASE CheckExpired(u)
    BY <1>10 DEF CheckExpired, At, timer, table, Alone, Counted, Sweeping
  <1>11. CASE Unlink(u)
    BY <1>11 DEF Unlink, At, Goto, timer, Alone, Counted, Sweeping, Unlinked, TableIsOpen
  <1>12. CASE Finish(u)
    BY <1>12 DEF Finish, At, PQfinish, timer, Alone, Counted, Sweeping
  <1>13. CASE SweepDone(u)
    BY <1>13 DEF SweepDone, At, Goto, timer, table, Alone, Counted, Sweeping
  <1>14. CASE TurnDone(u)
    BY <1>14 DEF TurnDone, At, Goto, timer, table, Alone, Counted, Sweeping
  <1>15. CASE Found(u)
    BY <1>15 DEF Found, At, timer, table, Alone, Counted, Sweeping
  <1>16. CASE NotFound(u)
    BY <1>16 DEF NotFound, At, Answered, timer, table, Alone, Counted, Sweeping
  <1>17. CASE ReadClock(u)
    BY <1>17, ConstantsAssumption DEF ReadClock, At, timer, table, Alone, Counted,
      Sweeping, Rearmed
  <1>18. CASE SetTimestamp(u)
    BY <1>18 DEF SetTimestamp, At, Goto, timer, Alone, Counted, Sweeping, Created
  <1>19. CASE SetTimeout(u)
    BY <1>19 DEF SetTimeout, At, timer, Alone, Counted, Sweeping, Created
  <1>20. CASE Release(u)
    BY <1>20 DEF Release, At, Answered, timer, table, Alone, Counted, Sweeping
  <1>21. CASE Logout(u)
    BY <1>21 DEF Logout, At, Answered, PQfinish, timer, Alone, Counted, Sweeping
  <1>22. CASE Connect(u)
    BY <1>22 DEF Connect, At, timer, Alone, Counted, Sweeping
  <1>23. CASE Store(u)
    BY <1>23 DEF Store, At, Answered, timer, Alone, Counted, Sweeping, Fresh
  <1>24. CASE BadAddress(u)
    BY <1>24 DEF BadAddress, At, Answered, timer, table, Alone, Counted, Sweeping
  <1>25. CASE LoginRefused(u)
    BY <1>25 DEF LoginRefused, At, Answered, timer, table, Alone, Counted, Sweeping
  <1>26. QED
    BY <1>1, <1>2, <1>3, <1>4, <1>5, <1>6, <1>7, <1>8, <1>9, <1>10, <1>11, <1>12, <1>13,
      <1>14, <1>15, <1>16, <1>17, <1>18, <1>19, <1>20, <1>21, <1>22, <1>23, <1>24, <1>25
      DEF Next, Step

LEMMA StepYoung ==
  ASSUME NEW u, Workers = {u}, Inv1(u), [Next]_vars
  PROVE  Young(u)' /\ Given(u)'
  <1> USE DEF Inv1, Inv, TypeOK
  <1>1. CASE UNCHANGED vars
    BY <1>1 DEF Young, Given, Unchecked, Sweeping, vars, timer, table, work
  <1>2. CASE Tick
    BY <1>2 DEF Tick, Young, Given, Unchecked, Sweeping, table, work
  <1>3. CASE Arrive(u)
    BY <1>3 DEF Arrive, At, timer, table, Young, Given, Unchecked, Sweeping
  <1>4. CASE PollNothing(u)
    BY <1>4, ConstantsAssumption DEF PollNothing, At, timer, table, Young, Given,
      Unchecked, Sweeping, Alone
  <1>5. CASE PollTest(u)
    BY <1>5 DEF PollTest, At, Goto, timer, table, Young, Given, Unchecked, Sweeping
  <1>6. CASE TurnIdle(u)
    BY <1>6, ConstantsAssumption DEF TurnIdle, At, timer, table, Young, Given, Unchecked,
      Sweeping
  <1>7. CASE TurnDue(u)
    BY <1>7 DEF TurnDue, At, Goto, timer, table, Young, Given, Unchecked, Sweeping
  <1>8. CASE Fire(u)
    BY <1>8, ConstantsAssumption DEF Fire, At, table, Young, Given, Unchecked, Sweeping,
      Rearmed, Alone
  <1>9. CASE CheckAlive(u)
    <2> PICK s \in todo[u] : /\ ~Expired(s) \/ s \notin entry
                            /\ todo' = [todo EXCEPT ![u] = @ \ {s}]
      BY <1>9 DEF CheckAlive
    <2>1. s \in entry /\ s \in Ids /\ ~Expired(s) /\ base[s] = stamp[s]
      BY <1>9 DEF Alone, Counted, Sweeping, CheckAlive, At
    <2>2. s \notin gone => polled[u] - stamp[s] <= Timeout
      <3> SUFFICES ASSUME s \notin gone PROVE polled[u] - stamp[s] <= Timeout
        OBVIOUS
      <3>1. now - stamp[s] <= Timeout + 2 * (Period + MaxQuiet)
        BY <1>9, <2>1, ConstantsAssumption DEF CheckAlive, At, Sweeping, Young, Rearmed
      <3>2. now - base[s] <= Timeout + M \div 2
        BY <3>1, <2>1, ConstantsAssumption
      <3>3. now - base[s] <= Timeout
        BY <2>1, <3>2, ExpiredIsIdle DEF Timely
      <3>4. polled[u] <= now
        BY DEF Given
      <3>5. QED
        BY <2>1, <3>3, <3>4, ConstantsAssumption
    <2>3. QED
      BY <1>9, <2>1, <2>2 DEF CheckAlive, At, Young, Given, Unchecked, Sweeping, timer, table
  <1>10. CASE CheckExpired(u)
    BY <1>10 DEF CheckExpired, At, timer, table, Young, Given, Unchecked, Sweeping, Alone
  <1>11. CASE Unlink(u)
    BY <1>11 DEF Unlink, At, Goto, timer, Young, Given, Unchecked, Sweeping, Alone,
      Unlinked, TableIsOpen
  <1>12. CASE Finish(u)
    BY <1>12 DEF Finish, At, PQfinish, timer, Young, Given, Unchecked, Sweeping
  <1>13. CASE SweepDone(u)
    BY <1>13, ConstantsAssumption DEF SweepDone, At, Goto, timer, table, Young, Given,
      Unchecked, Sweeping
  <1>14. CASE TurnDone(u)
    BY <1>14 DEF TurnDone, At, Goto, timer, table, Young, Given, Unchecked, Sweeping
  <1>15. CASE Found(u)
    BY <1>15 DEF Found, At, timer, table, Young, Given, Unchecked, Sweeping
  <1>16. CASE NotFound(u)
    BY <1>16 DEF NotFound, At, Answered, timer, table, Young, Given, Unchecked, Sweeping
  <1>17. CASE ReadClock(u)
    BY <1>17 DEF ReadClock, At, timer, table, Young, Given, Unchecked, Sweeping
  <1>18. CASE SetTimestamp(u)
    BY <1>18, ConstantsAssumption DEF SetTimestamp, At, Goto, timer, Young, Given,
      Unchecked, Sweeping, Counted
  <1>19. CASE SetTimeout(u)
    BY <1>19, ConstantsAssumption DEF SetTimeout, At, timer, Young, Given, Unchecked,
      Sweeping
  <1>20. CASE Release(u)
    BY <1>20 DEF Release, At, Answered, timer, table, Young, Given, Unchecked, Sweeping
  <1>21. CASE Logout(u)
    BY <1>21 DEF Logout, At, Answered, PQfinish, timer, Young, Given, Unchecked, Sweeping
  <1>22. CASE Connect(u)
    BY <1>22 DEF Connect, At, timer, Young, Given, Unchecked, Sweeping
  <1>23. CASE Store(u)
    BY <1>23, ConstantsAssumption DEF Store, At, Answered, timer, Young, Given,
      Unchecked, Sweeping, Rearmed, Fresh
  <1>24. CASE BadAddress(u)
    BY <1>24 DEF BadAddress, At, Answered, timer, table, Young, Given, Unchecked,
      Sweeping
  <1>25. CASE LoginRefused(u)
    BY <1>25 DEF LoginRefused, At, Answered, timer, table, Young, Given, Unchecked,
      Sweeping
  <1>26. QED
    BY <1>1, <1>2, <1>3, <1>4, <1>5, <1>6, <1>7, <1>8, <1>9, <1>10, <1>11, <1>12, <1>13,
      <1>14, <1>15, <1>16, <1>17, <1>18, <1>19, <1>20, <1>21, <1>22, <1>23, <1>24, <1>25
      DEF Next, Step

LEMMA StepInv1 ==
  ASSUME NEW u, Workers = {u}, Inv1(u), [Next]_vars
  PROVE  Inv1(u)'
  BY StepInv, StepRearmed, StepAlone, StepYoung DEF Inv1

-----------------------------------------------------------------------------
(* Theorems for one worker.                                                *)

(* A connection in use is open unless it was logged out.                   *)
THEOREM UsedIsOpen ==
  ASSUME NEW u, Workers = {u}
  PROVE  Spec => []UseIsOpen
  <1>1. Inv1(u) => UseIsOpen
    BY DEF Inv1, Inv, Given, Unlinked, TableIsOpen, UseIsOpen
  <1>2. QED
    BY <1>1, InitInv1, StepInv1, PTL DEF Spec

(* The sweep never takes a session before its time, wherever the deadline  *)
(* has wrapped.                                                            *)
THEOREM NoSessionExpiresEarly ==
  ASSUME NEW u, Workers = {u}
  PROVE  Spec => NoEarlyExpiry
  <1> DEFINE InTime == \A w \in Workers :
               pc[w] = "sweep" /\ pc'[w] = "unlink" => now - stamp[item'[w]] > Timeout
  <1>1. Inv1(u) /\ [Next]_vars => [InTime]_vars
    <2> SUFFICES ASSUME Inv1(u), Next, pc[u] = "sweep", pc'[u] = "unlink"
                 PROVE  now - stamp[item'[u]] > Timeout
      OBVIOUS
    <2>1. CheckExpired(u)
      BY DEF Inv1, Inv, TypeOK, Next, Tick, work, Step, At, Goto, Answered, Arrive,
        PollNothing, PollTest, TurnIdle, TurnDue, Fire, CheckAlive, Unlink, Finish,
        SweepDone, TurnDone, Found, NotFound, ReadClock, SetTimestamp, SetTimeout,
        Release, Logout, Connect, Store, BadAddress, LoginRefused
    <2>2. PICK s \in todo[u] : Expired(s) /\ item' = [item EXCEPT ![u] = s]
      BY <2>1 DEF CheckExpired
    <2>3. s \in Ids /\ item'[u] = s /\ base[s] = stamp[s]
      BY <2>2 DEF Inv1, Inv, TypeOK, Counted
    <2>4. QED
      BY <2>2, <2>3, ExpiredIsIdle DEF Inv1, Inv, TypeOK, Timely
  <1>2. QED
    BY <1>1, InitInv1, StepInv1, PTL DEF Spec, NoEarlyExpiry

(* With no quiet longer than MaxQuiet, a sweep leaves no session that had   *)
(* expired when it began, wherever the deadlines have wrapped.             *)
THEOREM SweepsAreComplete ==
  ASSUME NEW u, Workers = {u}
  PROVE  Spec => SweepIsComplete
  <1> DEFINE Complete == \A w \in Workers :
               pc[w] = "sweep" /\ pc'[w] = "lookup" =>
                 \A s \in entry \ gone : polled[w] - stamp[s] <= Timeout
  <1>1. Inv1(u) /\ [Next]_vars => [Complete]_vars
    <2> SUFFICES ASSUME Inv1(u), Next, pc[u] = "sweep", pc'[u] = "lookup", NEW s \in entry \ gone
                 PROVE  polled[u] - stamp[s] <= Timeout
      OBVIOUS
    <2>1. SweepDone(u)
      BY DEF Inv1, Inv, TypeOK, Next, Tick, work, Step, At, Goto, Answered, Arrive,
        PollNothing, PollTest, TurnIdle, TurnDue, Fire, CheckAlive, CheckExpired, Unlink,
        Finish, TurnDone, Found, NotFound, ReadClock, SetTimestamp, SetTimeout, Release,
        Logout, Connect, Store, BadAddress, LoginRefused
    <2>2. QED
      BY <2>1 DEF Inv1, Young, Sweeping, Unchecked, SweepDone, At
  <1>2. QED
    BY <1>1, InitInv1, StepInv1, PTL DEF Spec, SweepIsComplete

(* A request gets a session that was idle for no longer than the timeout   *)
(* and one period when it came, or one logged out.                         *)
THEOREM RequestsGetFreshSessions ==
  ASSUME NEW u, Workers = {u}
  PROVE  Spec => ServedFresh
  <1> DEFINE FreshUse == \A w \in Workers :
               pc[w] = "lookup" /\ pc'[w] = "refresh" /\ want[w] \notin gone =>
                 polled[w] - stamp[want[w]] <= Timeout + Period
  <1>1. Inv1(u) /\ [Next]_vars => [FreshUse]_vars
    <2> SUFFICES ASSUME Inv1(u), Next, pc[u] = "lookup", pc'[u] = "refresh", want[u] \notin gone
                 PROVE  polled[u] - stamp[want[u]] <= Timeout + Period
      OBVIOUS
    <2>1. Found(u)
      BY DEF Inv1, Inv, TypeOK, Next, Tick, work, Step, At, Goto, Answered, Arrive,
        PollNothing, PollTest, TurnIdle, TurnDue, Fire, CheckAlive, CheckExpired, Unlink,
        Finish, SweepDone, TurnDone, NotFound, ReadClock, SetTimestamp, SetTimeout,
        Release, Logout, Connect, Store, BadAddress, LoginRefused
    <2>2. QED
      BY <2>1 DEF Inv1, Given, Found, At
  <1>2. QED
    BY <1>1, InitInv1, StepInv1, PTL DEF Spec, ServedFresh
=============================================================================
