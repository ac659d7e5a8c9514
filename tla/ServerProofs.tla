---------------------------- MODULE ServerProofs ----------------------------
(***************************************************************************)
(* Proofs about Server, for any clients and requests.                      *)
(***************************************************************************)
EXTENDS Server, TLAPS

(* The inductive invariant.  After init.c has run, or was found missing,   *)
(* the query character and the record tell the same; there are connections *)
(* only while the server listens; and only a request that is not for the   *)
(* root comes to a script when there is a handler.                         *)
Started ==
  /\ phase # "off" => /\ queryChar = "underscore" <=> "init" \in scripts
                      /\ record # Null <=> "init" \in scripts
  /\ phase = "off" => queryChar = "question" /\ record = Null
  /\ phase = "listening" => ("handler" \in scripts => "init" \in scripts)
  /\ phase # "listening" => \A c \in Clients : stage[c] = "closed"

Stages == {"closed", "reading", "parse", "script", "write", "answered"}
Codes  == {0, 1, 2, 200, 230, 403, 500, Streaming}

(* What is said of one connection, of its state, code and output.          *)
Good(sc, st, r, k, o) ==
  /\ st = "reading" => o = <<>>
  /\ st \in {"parse", "script"} => Plain(o) /\ ~("handler" \in sc /\ r.first = "root")
  /\ st = "write" /\ k \in {Streaming} =>
       Plain(o) /\ ~("handler" \in sc /\ r.first = "root")
  /\ r.char = "underscore" => k # 500
  /\ k = 500 => sc = {}
  /\ Plain(o) \/ (r.first = "root" /\ o = Moved)

Own(c) == Good(scripts, stage[c], request[c], code[c], out[c])

Inv == TypeOK /\ Started /\ \A c \in Clients : Own(c)

-----------------------------------------------------------------------------
(* A step on one connection leaves the others alone.                       *)
Only(f, g, c) == g = [f EXCEPT ![c] = g[c]]

OneStep(c) ==
  /\ Only(stage, stage', c)
  /\ Only(request, request', c)
  /\ Only(got, got', c)
  /\ Only(mime, mime', c)
  /\ Only(pdata, pdata', c)
  /\ Only(code, code', c)
  /\ Only(out, out', c)

LEMMA StepOfOne ==
  ASSUME Inv, NEW c \in Clients, UNCHANGED start, phase = "listening", OneStep(c),
         stored' \in BOOLEAN, stage'[c] \in Stages, request'[c] \in Requests,
         got'[c] \in 1..4, mime'[c] \in BOOLEAN, pdata'[c] \in 0..(Wakes - 1),
         code'[c] \in Codes, out'[c] \in Seq(Output),
         Good(scripts, stage'[c], request'[c], code'[c], out'[c])
  PROVE  Inv'
  <1>1. stage' \in [Clients -> Stages] /\ request' \in [Clients -> Requests]
    BY DEF Inv, TypeOK, OneStep, Only, Stages
  <1>2. got' \in [Clients -> 1..4] /\ mime' \in [Clients -> BOOLEAN]
    BY DEF Inv, TypeOK, OneStep, Only
  <1>3. pdata' \in [Clients -> 0..(Wakes - 1)]
    BY DEF Inv, TypeOK, OneStep, Only
  <1>4. code' \in [Clients -> Codes]
    <2>1. code \in [Clients -> Codes]
      BY DEF Inv, TypeOK, Codes
    <2>2. QED
      BY <2>1 DEF OneStep, Only
  <1>5. out' \in [Clients -> Seq(Output)]
    BY DEF Inv, TypeOK, OneStep, Only
  <1>6. TypeOK'
    <2>1. /\ scripts' \subseteq {"init", "handler"}
          /\ phase' \in {"off", "init", "listening", "aborted", "down"}
          /\ queryChar' \in {"underscore", "question"} /\ record' \in {Null, "live", "freed"}
          /\ timer' \in BOOLEAN
      BY DEF Inv, TypeOK, start
    <2>2. QED
      BY <1>1, <1>2, <1>3, <1>4, <1>5, <2>1 DEF TypeOK, Stages, Codes
  <1>7. ASSUME NEW d \in Clients PROVE Own(d)'
    <2>1. CASE d = c
      BY <2>1 DEF Own, start
    <2>2. CASE d # c
      <3>1. stage'[d] = stage[d] /\ request'[d] = request[d] /\ code'[d] = code[d]
            /\ out'[d] = out[d]
        BY <2>2 DEF OneStep, Only, Inv, TypeOK
      <3>2. Own(d) /\ scripts' = scripts
        BY DEF Inv, start
      <3>3. QED
        BY <3>1, <3>2 DEF Own
    <2>3. QED
      BY <2>1, <2>2
  <1>8. Started'
    BY DEF Inv, Started, start
  <1>9. QED
    BY <1>6, <1>7, <1>8 DEF Inv

\* The values of one connection.
LEMMA Values ==
  ASSUME Inv, NEW c \in Clients
  PROVE  /\ stage[c] \in Stages /\ request[c] \in Requests /\ got[c] \in 1..4
         /\ mime[c] \in BOOLEAN /\ pdata[c] \in 0..(Wakes - 1) /\ code[c] \in Codes
         /\ out[c] \in Seq(Output) /\ stored \in BOOLEAN /\ Own(c)
         /\ stage[c] # "closed" => phase = "listening"
  <1>1. Own(c) /\ stored \in BOOLEAN /\ stage[c] \in Stages /\ request[c] \in Requests
    BY DEF Inv, TypeOK, Stages
  <1>2. got[c] \in 1..4 /\ mime[c] \in BOOLEAN /\ pdata[c] \in 0..(Wakes - 1)
    BY DEF Inv, TypeOK
  <1>3. code[c] \in Codes /\ out[c] \in Seq(Output)
    BY DEF Inv, TypeOK, Codes
  <1>4. stage[c] # "closed" => phase = "listening"
    BY DEF Inv, Started
  <1>5. QED
    BY <1>1, <1>2, <1>3, <1>4

\* The variables of the connections are functions on the clients.
IsMap(f) == f = [x \in Clients |-> f[x]]

LEMMA Maps ==
  ASSUME Inv
  PROVE  /\ IsMap(stage) /\ IsMap(request) /\ IsMap(got) /\ IsMap(mime)
         /\ IsMap(pdata) /\ IsMap(code) /\ IsMap(out)
  <1>1. ASSUME NEW S, NEW f \in [Clients -> S] PROVE IsMap(f)
    BY DEF IsMap
  <1>2. IsMap(stage) /\ IsMap(request) /\ IsMap(got) /\ IsMap(mime)
    BY <1>1 DEF Inv, TypeOK
  <1>3. IsMap(pdata) /\ IsMap(code) /\ IsMap(out)
    BY <1>1 DEF Inv, TypeOK
  <1>4. QED
    BY <1>2, <1>3

\* One more output.
LEMMA Longer ==
  ASSUME NEW s \in Seq(Output), NEW e \in Output
  PROVE  /\ Append(s, e) \in Seq(Output)
         /\ Plain(s) /\ e # "301" => Plain(Append(s, e))
  <1>1. Append(s, e) \in Seq(Output)
    OBVIOUS
  <1>2. DOMAIN s = 1..Len(s) /\ DOMAIN Append(s, e) = 1..(Len(s) + 1) /\ Len(s) \in Nat
    OBVIOUS
  <1>3. \A k \in 1..(Len(s) + 1) :
          Append(s, e)[k] = IF k <= Len(s) THEN s[k] ELSE e
    OBVIOUS
  <1>4. QED
    BY <1>1, <1>2, <1>3 DEF Plain

LEMMA NothingSaid == <<>> \in Seq(Output) /\ Plain(<<>>)
  BY DEF Plain

LEMMA OnlyMoved == Append(<<>>, "301") = Moved /\ Moved \in Seq(Output)
  BY DEF Output, Moved

-----------------------------------------------------------------------------
(* The actions.                                                            *)

\* A connection is cleared.
LEMMA ClearedFacts ==
  ASSUME Inv, NEW c \in Clients, Cleared(c)
  PROVE  /\ Only(got, got', c) /\ got'[c] = 1
         /\ Only(mime, mime', c) /\ mime'[c] = FALSE
         /\ Only(pdata, pdata', c) /\ pdata'[c] = 0
         /\ Only(code, code', c) /\ code'[c] = 0
         /\ Only(out, out', c) /\ out'[c] = <<>>
  BY Maps DEF Cleared, IsMap, Only

LEMMA Zeroes == 0 \in 0..(Wakes - 1) /\ 0 \in Codes /\ 1 \in 1..4
  BY DEF Wakes, Codes

LEMMA GoodWhenClear ==
  ASSUME NEW sc, NEW st \in {"reading", "closed"}, NEW r
  PROVE  Good(sc, st, r, 0, <<>>)
  BY NothingSaid DEF Good, Streaming

LEMMA AcceptInv == ASSUME Inv, NEW c \in Clients, Accept(c) PROVE Inv'
  <1>1. PICK r \in Requests : request' = [request EXCEPT ![c] = r]
    BY DEF Accept
  <1>2. OneStep(c) /\ stage'[c] = "reading" /\ request'[c] = r
    <2>1. Only(stage, stage', c) /\ stage'[c] = "reading"
      BY Maps DEF Accept, IsMap, Only
    <2>2. Only(request, request', c) /\ request'[c] = r
      BY <1>1, Maps DEF IsMap, Only
    <2>3. Cleared(c)
      BY DEF Accept
    <2>4. QED
      BY <2>1, <2>2, <2>3, ClearedFacts DEF OneStep
  <1>3. Good(scripts, stage'[c], request'[c], code'[c], out'[c])
    BY <1>2, ClearedFacts, GoodWhenClear DEF Accept
  <1>4. QED
    BY <1>2, <1>3, ClearedFacts, Zeroes, NothingSaid, Values, StepOfOne DEF Accept, Stages

LEMMA CloseInv == ASSUME Inv, NEW c \in Clients, BeforeClose(c) PROVE Inv'
  <1>1. OneStep(c) /\ stage'[c] = "closed" /\ request'[c] = request[c]
    <2>1. Only(stage, stage', c) /\ stage'[c] = "closed"
      BY Maps DEF BeforeClose, IsMap, Only
    <2>2. Only(request, request', c) /\ request'[c] = request[c]
      BY Maps DEF BeforeClose, IsMap, Only
    <2>3. Cleared(c)
      BY DEF BeforeClose
    <2>4. QED
      BY <2>1, <2>2, <2>3, ClearedFacts DEF OneStep
  <1>2. Good(scripts, stage'[c], request'[c], code'[c], out'[c])
    BY <1>1, ClearedFacts, GoodWhenClear DEF BeforeClose
  <1>3. QED
    BY <1>1, <1>2, ClearedFacts, Zeroes, NothingSaid, Values, StepOfOne
    DEF BeforeClose, Stages

LEMMA ReadInv == ASSUME Inv, NEW c \in Clients, AfterRead(c) PROVE Inv'
  <1>1. PICK n \in (got[c] + 1)..4 :
          /\ got' = [got EXCEPT ![c] = n]
          /\ IF Handled /\ IsRoot(c, n)
             THEN /\ out' = [out EXCEPT ![c] = Append(@, "301")]
                  /\ stage' = [stage EXCEPT ![c] = "write"]
                  /\ code' = [code EXCEPT ![c] = 2]
             ELSE /\ stage' = [stage EXCEPT ![c] =
                                 IF Amounts[n] = "whole" THEN "parse" ELSE "reading"]
                  /\ UNCHANGED <<code, out>>
    BY DEF AfterRead
  <1>2. /\ stage[c] = "reading" /\ UNCHANGED <<start, stored>> /\ n \in 1..4
        /\ request' = request /\ mime' = mime /\ pdata' = pdata
    BY <1>1, Values DEF AfterRead
  <1>3. Only(got, got', c) /\ got'[c] \in 1..4
    BY <1>1, <1>2, Maps DEF IsMap, Only
  <1>4. out[c] = <<>> /\ Good(scripts, stage[c], request[c], code[c], out[c])
    BY <1>2, Values DEF Own, Good
  <1>5. CASE Handled /\ IsRoot(c, n)
    <2>1. out' = [out EXCEPT ![c] = Moved]
      BY <1>1, <1>4, <1>5, OnlyMoved, Maps DEF IsMap, Only
    <2>2. OneStep(c) /\ stage'[c] = "write" /\ code'[c] = 2 /\ out'[c] = Moved
      BY <1>1, <1>2, <1>3, <1>5, <2>1, Maps DEF OneStep, IsMap, Only
    <2>3. request'[c] = request[c] /\ request[c].first = "root"
      BY <1>2, <1>5 DEF IsRoot
    <2>4. Good(scripts, stage'[c], request'[c], code'[c], out'[c])
      BY <2>2, <2>3 DEF Good, Streaming
    <2>5. "write" \in Stages /\ 2 \in Codes
      BY DEF Stages, Codes
    <2>6. QED
      BY <1>2, <1>3, <2>2, <2>3, <2>4, <2>5, OnlyMoved, Values, StepOfOne
  <1>6. CASE ~(Handled /\ IsRoot(c, n))
    <2> DEFINE st == IF Amounts[n] = "whole" THEN "parse" ELSE "reading"
    <2>1. stage' = [stage EXCEPT ![c] = st] /\ code' = code /\ out' = out
      BY <1>1, <1>6
    <2>2. st \in {"reading", "parse"}
      OBVIOUS
    <2>3. st = "parse" => ~("handler" \in scripts /\ request[c].first = "root")
      BY <1>6 DEF Handled, IsRoot
    <2> HIDE DEF st
    <2>4. /\ OneStep(c) /\ stage'[c] = st /\ code'[c] = code[c] /\ out'[c] = <<>>
          /\ request'[c] = request[c] /\ mime'[c] = mime[c] /\ pdata'[c] = pdata[c]
      BY <1>2, <1>3, <1>4, <2>1, Maps DEF OneStep, IsMap, Only
    <2>5. Good(scripts, stage'[c], request'[c], code'[c], out'[c])
      BY <1>4, <2>2, <2>3, <2>4, NothingSaid DEF Good
    <2>6. st \in Stages
      BY <2>2 DEF Stages
    <2>7. QED
      BY <1>2, <1>3, <2>4, <2>5, <2>6, NothingSaid, Values, StepOfOne
  <1>7. QED
    BY <1>5, <1>6

LEMMA ParseInv == ASSUME Inv, NEW c \in Clients, AfterParse(c) PROVE Inv'
  <1>1. /\ OneStep(c) /\ stage'[c] = "script" /\ mime'[c] = (Handled /\ IsQuery(c))
        /\ request'[c] = request[c] /\ got'[c] = got[c] /\ pdata'[c] = pdata[c]
        /\ code'[c] = code[c] /\ out'[c] = out[c]
    BY Maps DEF AfterParse, OneStep, IsMap, Only
  <1>2. Good(scripts, stage'[c], request'[c], code'[c], out'[c])
    BY <1>1, Values DEF AfterParse, Own, Good
  <1>3. mime'[c] \in BOOLEAN /\ stage'[c] \in Stages
    BY <1>1 DEF Handled, IsQuery, Stages
  <1>4. QED
    BY <1>1, <1>2, <1>3, Values, StepOfOne DEF AfterParse

\* A script that adds to the reply.
LEMMA ReplyInv ==
  ASSUME Inv, NEW c \in Clients, stage[c] = "script",
         NEW what \in Output, what # "301", NEW rc \in Codes, Reply(c, what, rc),
         rc = 500 => scripts = {} /\ request[c].char # "underscore",
         UNCHANGED <<start, request, got, mime>>, stored' \in BOOLEAN,
         Only(pdata, pdata', c), pdata'[c] \in 0..(Wakes - 1)
  PROVE  Inv'
  <1>1. /\ OneStep(c) /\ stage'[c] = "write" /\ code'[c] = rc
        /\ out'[c] = Append(out[c], what)
        /\ request'[c] = request[c] /\ got'[c] = got[c] /\ mime'[c] = mime[c]
    BY Maps DEF Reply, OneStep, IsMap, Only
  <1>2. Plain(out[c]) /\ ~("handler" \in scripts /\ request[c].first = "root")
    BY Values DEF Own, Good
  <1>3. out'[c] \in Seq(Output) /\ Plain(out'[c])
    BY <1>1, <1>2, Values, Longer
  <1>4. Good(scripts, stage'[c], request'[c], code'[c], out'[c])
    BY <1>1, <1>2, <1>3 DEF Good
  <1>5. "write" \in Stages
    BY DEF Stages
  <1>6. QED
    BY <1>1, <1>3, <1>4, <1>5, Values, StepOfOne

LEMMA RepliesAndCodes ==
  /\ {"file", "undefined", "authorization", "101", "test", "close"} \subseteq Output
  /\ {1, 200, 230, 403, 500, Streaming} \subseteq Codes /\ Streaming # 500
  BY DEF Output, Codes, Streaming

LEMMA FileInv == ASSUME Inv, NEW c \in Clients, File(c) PROVE Inv'
  <1>1. Only(pdata, pdata', c) /\ pdata'[c] \in 0..(Wakes - 1)
    BY Maps, Values DEF File, IsMap, Only
  <1>2. QED
    BY <1>1, ReplyInv, RepliesAndCodes, Values DEF File

\* The record is missing only where nothing was there to set it, and then the
\* query character is not '_'.
LEMMA LoginInv == ASSUME Inv, NEW c \in Clients, session_login(c) PROVE Inv'
  <1>1. /\ stage[c] = "script" /\ UNCHANGED <<start, request, got, mime>>
        /\ phase = "listening" /\ stored \in BOOLEAN
        /\ Only(pdata, pdata', c) /\ pdata'[c] \in 0..(Wakes - 1)
    BY Maps, Values DEF session_login, IsMap, Only
  <1>2. CASE record = Null
    <2>1. "init" \notin scripts /\ "handler" \notin scripts /\ queryChar # "underscore"
      BY <1>1, <1>2 DEF Inv, Started
    <2>2. scripts = {}
      BY <2>1 DEF Inv, TypeOK
    <2>3. request[c].char # "underscore"
      BY <2>1 DEF session_login, IsQuery
    <2>4. Reply(c, "undefined", 500) /\ UNCHANGED stored
      BY <1>2 DEF session_login
    <2>5. QED
      BY <1>1, <2>2, <2>3, <2>4, ReplyInv, RepliesAndCodes
  <1>3. CASE record # Null
    <2>1. Reply(c, "authorization", 230) /\ stored' = TRUE
      BY <1>3 DEF session_login
    <2>2. QED
      BY <1>1, <2>1, ReplyInv, RepliesAndCodes
  <1>4. QED
    BY <1>2, <1>3

LEMMA UpgradeInv == ASSUME Inv, NEW c \in Clients, Upgrade(c) PROVE Inv'
  <1>1. /\ stage[c] = "script" /\ UNCHANGED <<start, stored, request, got, mime>>
        /\ stored \in BOOLEAN
    BY Values DEF Upgrade
  <1>2. /\ Reply(c, "101", Streaming) \/ Reply(c, "test", 403)
        /\ Only(pdata, pdata', c)
        /\ pdata'[c] = 1 \/ pdata'[c] = pdata[c]
    BY Maps DEF Upgrade, IsMap, Only
  <1>3. pdata'[c] \in 0..(Wakes - 1)
    BY <1>2, Values DEF Wakes
  <1>4. QED
    BY <1>1, <1>2, <1>3, ReplyInv, RepliesAndCodes

LEMMA WakeInv == ASSUME Inv, NEW c \in Clients, Wake(c) PROVE Inv'
  <1>1. /\ stage[c] = "script" /\ UNCHANGED <<start, stored, request, got, mime>>
        /\ stored \in BOOLEAN
    BY Values DEF Wake
  <1>2. CASE pdata[c] + 1 >= Wakes
    <2>1. Reply(c, "close", 1) /\ pdata' = [pdata EXCEPT ![c] = 0]
      BY <1>2 DEF Wake
    <2>2. Only(pdata, pdata', c) /\ pdata'[c] \in 0..(Wakes - 1)
      <3>1. Only(pdata, pdata', c) /\ pdata'[c] = 0
        BY <2>1, Maps DEF IsMap, Only
      <3>2. QED
        BY <3>1 DEF Wakes
    <2>3. 1 \in Codes /\ 1 # 500 /\ "close" \in Output /\ stored' \in BOOLEAN
      BY <1>1, RepliesAndCodes
    <2>4. QED
      BY <1>1, <2>1, <2>2, <2>3, ReplyInv
  <1>3. CASE ~(pdata[c] + 1 >= Wakes)
    <2>1. /\ pdata' = [pdata EXCEPT ![c] = pdata[c] + 1]
          /\ code' = [code EXCEPT ![c] = Streaming]
          /\ stage' = [stage EXCEPT ![c] = "write"] /\ UNCHANGED out
      BY <1>3 DEF Wake
    <2>2. /\ OneStep(c) /\ stage'[c] = "write" /\ code'[c] = Streaming
          /\ pdata'[c] = pdata[c] + 1 /\ out'[c] = out[c]
          /\ request'[c] = request[c] /\ got'[c] = got[c] /\ mime'[c] = mime[c]
      <3>1. /\ Only(pdata, pdata', c) /\ pdata'[c] = pdata[c] + 1
            /\ Only(code, code', c) /\ code'[c] = Streaming
            /\ Only(stage, stage', c) /\ stage'[c] = "write"
        BY <2>1, Maps DEF IsMap, Only
      <3>2. /\ Only(out, out', c) /\ Only(request, request', c)
            /\ Only(got, got', c) /\ Only(mime, mime', c)
        BY <1>1, <2>1, Maps DEF IsMap, Only
      <3>3. QED
        BY <1>1, <2>1, <3>1, <3>2 DEF OneStep
    <2>3. pdata'[c] \in 0..(Wakes - 1)
      <3>1. pdata[c] \in 0..(Wakes - 1)
        BY Values
      <3>2. QED
        BY <1>3, <2>2, <3>1 DEF Wakes
    <2>4. Good(scripts, stage'[c], request'[c], code'[c], out'[c])
      BY <1>1, <2>2, Values, RepliesAndCodes DEF Own, Good
    <2>5. "write" \in Stages
      BY DEF Stages
    <2>6. QED
      BY <1>1, <2>2, <2>3, <2>4, <2>5, RepliesAndCodes, Values, StepOfOne
  <1>4. QED
    BY <1>2, <1>3

LEMMA WriteInv == ASSUME Inv, NEW c \in Clients, Write(c) PROVE Inv'
  <1> DEFINE st == IF code[c] >= 1000 THEN "script" ELSE "answered"
  <1>1. /\ stage[c] = "write" /\ stage' = [stage EXCEPT ![c] = st]
        /\ UNCHANGED <<start, stored, request, got, mime, pdata, code, out>>
    BY DEF Write
  <1>2. st \in {"script", "answered"} /\ (st = "script" => code[c] = Streaming)
    BY Values DEF Codes, Streaming
  <1> HIDE DEF st
  <1>3. /\ OneStep(c) /\ stage'[c] = st /\ request'[c] = request[c] /\ got'[c] = got[c]
        /\ mime'[c] = mime[c] /\ pdata'[c] = pdata[c] /\ code'[c] = code[c]
        /\ out'[c] = out[c]
    BY <1>1, Maps DEF OneStep, IsMap, Only
  <1>4. Good(scripts, stage'[c], request'[c], code'[c], out'[c])
    BY <1>1, <1>2, <1>3, Values DEF Own, Good
  <1>5. st \in Stages
    BY <1>2 DEF Stages
  <1>6. QED
    BY <1>1, <1>3, <1>4, <1>5, Values, StepOfOne

\* The start and the end find no connection open.
LEMMA ServerInv == ASSUME Inv, main \/ init \/ clean PROVE Inv'
  <1>1. scripts' = scripts /\ stored' = stored /\ UNCHANGED conn
    BY DEF main, init, clean
  <1>2. /\ phase' \in {"off", "init", "listening", "aborted", "down"}
        /\ queryChar' \in {"underscore", "question"} /\ record' \in {Null, "live", "freed"}
        /\ timer' \in BOOLEAN
    BY DEF Inv, TypeOK, main, init, clean
  <1>3. TypeOK'
    BY <1>1, <1>2 DEF Inv, TypeOK, conn
  <1>4. Started'
    <2>1. stage' = stage
      BY <1>1 DEF conn
    <2>2. CASE main
      BY <1>1, <2>1, <2>2, RequestsAssumption DEF Inv, Started, main
    <2>3. CASE init
      BY <1>1, <2>1, <2>3, RequestsAssumption DEF Inv, Started, init
    <2>4. CASE clean
      BY <1>1, <2>1, <2>4, RequestsAssumption DEF Inv, Started, clean
    <2>5. QED
      BY <2>2, <2>3, <2>4
  <1>5. ASSUME NEW c \in Clients PROVE Own(c)'
    BY <1>1 DEF Inv, Own, conn
  <1>6. QED
    BY <1>3, <1>4, <1>5 DEF Inv

-----------------------------------------------------------------------------
LEMMA InitInv == Init => Inv
  <1> SUFFICES ASSUME Init PROVE Inv
    OBVIOUS
  <1>1. /\ scripts \subseteq {"init", "handler"} /\ phase = "off" /\ queryChar = "question"
        /\ record = Null /\ timer = FALSE /\ stored = FALSE
    BY DEF Init
  <1>2. /\ stage = [c \in Clients |-> "closed"] /\ got = [c \in Clients |-> 1]
        /\ mime = [c \in Clients |-> FALSE] /\ pdata = [c \in Clients |-> 0]
        /\ code = [c \in Clients |-> 0] /\ out = [c \in Clients |-> <<>>]
    BY DEF Init
  <1>3. request \in [Clients -> Requests]
    <2>1. (CHOOSE r \in Requests : TRUE) \in Requests
      BY RequestsAssumption
    <2>2. QED
      BY <2>1 DEF Init
  <1>4. TypeOK
    <2>1. stage \in [Clients -> Stages] /\ code \in [Clients -> Codes]
      BY <1>2 DEF Stages, Codes
    <2>2. /\ got \in [Clients -> 1..4] /\ mime \in [Clients -> BOOLEAN]
          /\ pdata \in [Clients -> 0..(Wakes - 1)]
      BY <1>2, Zeroes
    <2>3. out \in [Clients -> Seq(Output)]
      BY <1>2, NothingSaid
    <2>4. QED
      BY <1>1, <1>3, <2>1, <2>2, <2>3 DEF TypeOK, Stages, Codes
  <1>5. Started
    BY <1>1, <1>2 DEF Started
  <1>6. ASSUME NEW c \in Clients PROVE Own(c)
    BY <1>2, NothingSaid DEF Own, Good, Streaming
  <1>7. QED
    BY <1>4, <1>5, <1>6 DEF Inv

LEMMA StepInv == Inv /\ [Next]_vars => Inv'
  <1> SUFFICES ASSUME Inv, [Next]_vars PROVE Inv'
    OBVIOUS
  <1>1. ASSUME NEW c \in Clients, Accept(c) \/ AfterRead(c) \/ Run(c) \/ BeforeClose(c)
        PROVE  Inv'
    BY <1>1, AcceptInv, ReadInv, ParseInv, FileInv, LoginInv, UpgradeInv, WakeInv,
       WriteInv, CloseInv DEF Run
  <1>2. CASE UNCHANGED vars
    <2>1. TypeOK' /\ Started'
      BY <1>2 DEF vars, start, conn, Inv, TypeOK, Started
    <2>2. ASSUME NEW c \in Clients PROVE Own(c)'
      BY <1>2 DEF Inv, Own, vars, start, conn
    <2>3. QED
      BY <2>1, <2>2 DEF Inv
  <1>3. QED
    BY <1>1, <1>2, ServerInv DEF Next, Stopped

(* The invariant holds throughout.                                         *)
THEOREM Invariance == Spec => []Inv
  BY InitInv, StepInv, PTL DEF Spec

(* The variables keep their types.                                         *)
THEOREM TypeCorrect == Spec => []TypeOK
  <1>1. Inv => TypeOK
    BY DEF Inv
  <1>2. QED
    BY <1>1, Invariance, PTL

(* No request whose query begins with '_' meets a missing server record,   *)
(* whichever of the two scripts there are (init.c:47-57, main.c:36-51,     *)
(* session.c:59-74).                                                       *)
THEOREM RequestsHaveTheRecord == Spec => []ApiHasRecord
  <1>1. Inv => ApiHasRecord
    <2> SUFFICES ASSUME Inv, NEW c \in Clients
                 PROVE  (ForServlet(c) => code[c] # 500) /\ (code[c] = 500 => scripts = {})
      BY DEF ApiHasRecord
    <2>1. QED
      BY Values DEF Own, Good, ForServlet
  <1>2. QED
    BY <1>1, Invariance, PTL

(* A request for the root is redirected, alone and once, in whatever       *)
(* pieces it is read (main.c:117-133).                                     *)
THEOREM RootIsRedirected == Spec => []RedirectIsForRoot
  <1>1. Inv => RedirectIsForRoot
    <2> SUFFICES ASSUME Inv, NEW c \in Clients
                 PROVE  /\ Plain(out[c]) \/ (ForRoot(c) /\ out[c] = Moved)
                        /\ Handled /\ ForRoot(c) => stage[c] \notin {"parse", "script"}
      BY DEF RedirectIsForRoot
    <2>1. Good(scripts, stage[c], request[c], code[c], out[c])
      BY DEF Inv, Own
    <2>2. QED
      BY <2>1 DEF Good, ForRoot, Handled
  <1>2. QED
    BY <1>1, Invariance, PTL
=============================================================================
