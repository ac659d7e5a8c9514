-------------------------- MODULE DbExchangeProofs --------------------------
(***************************************************************************)
(* Proofs about DbExchange, for any bounds and any set of well-ended       *)
(* answers: first for any set of workers, then for a session whose         *)
(* requests come one at a time, and again for threads that share one.      *)
(***************************************************************************)
EXTENDS DbExchange, SequenceTheorems, FiniteSetTheorems, TLAPS

IInv == TypeOK /\ ConnectionInv

Message == [q : 0..MaxRequests, m : Kind]

-----------------------------------------------------------------------------
(* libpq and the backend, called in any state of the invariant.            *)

(* parseInput moves `parsed` forward, never past what was read; a result is *)
(* ready only at a message that carries one, and libpq becomes idle on an   *)
(* open connection only at the very end of the stream, with nothing unsent. *)
LEMMA ParseFacts ==
  ASSUME IInv, NEW a, ParseInput(a)
  PROVE  /\ a \in AsyncValues
         /\ parsed' \in Nat /\ parsed <= parsed' /\ parsed' <= read
         /\ a \in {"ready", "copy"} => parsed' > 0 /\ stream[parsed'].m \in ResultKind
         /\ a = "idle" /\ sock => out = 0 /\ parsed' = Len(stream)
         /\ out > 0 => parsed' = Len(stream)
  <1> USE DEF IInv, TypeOK, ConnectionInv, IdleMeansDrained, AsyncValues,
              Kind, ResultKind
  <1>1. CASE async # "busy" /\ a = async /\ parsed' = parsed
    BY <1>1
  <1>2. ASSUME async = "busy",
               NEW p \in (parsed + 1)..read,
               stream[p].m # "part",
               a = CASE stream[p].m = "ready" -> "idle"
                     [] stream[p].m = "copy"  -> "copy"
                     [] OTHER -> "ready",
               parsed' = p
        PROVE  /\ a \in AsyncValues
               /\ parsed' \in Nat /\ parsed <= parsed' /\ parsed' <= read
               /\ a \in {"ready", "copy"} => parsed' > 0 /\ stream[parsed'].m \in ResultKind
               /\ a = "idle" /\ sock => out = 0 /\ parsed' = Len(stream)
               /\ out > 0 => parsed' = Len(stream)
    <2> HIDE DEF TypeOK, Kind
    <2>1. /\ stream \in Seq(Message)
          /\ parsed \in Nat /\ read \in Nat /\ emitted \in Nat
          /\ parsed <= read /\ read <= emitted /\ emitted <= Len(stream)
      BY DEF TypeOK, Message
    <2>2. p \in 1..Len(stream)
      BY <2>1, <1>2
    <2>3. stream[p] \in Message
      BY <2>1, <2>2, ElementOfSeq
    <2>4. stream[p].m \in Kind
      BY <2>3 DEF Message
    <2>5. out = 0
      BY <2>1, <2>2, <1>2 DEF TypeOK
    <2>6. QED
      BY <1>2, <2>1, <2>2, <2>4, <2>5 DEF Kind
  <1>3. CASE async = "busy" /\ a = "busy" /\ parsed' = read
    BY <1>3
  <1>4. QED
    BY <1>1, <1>2, <1>3 DEF ParseInput

(* A delivered query appends one well-ended answer, or nothing.             *)
LEMMA DeliverFacts ==
  ASSUME IInv, NEW q \in 0..MaxRequests, Deliver(q)
  PROVE  /\ stream' \in Seq(Message)
         /\ Len(stream) <= Len(stream')
         /\ \A i \in 1..Len(stream) : stream'[i] = stream[i]
         /\ \A i \in 1..Len(stream') :
              i > Len(stream) => ((stream'[i].m = "ready") <=> (i = Len(stream')))
  <1>1. ASSUME NEW s \in Replies,
               stream' = stream \o [i \in 1..Len(s) |-> [q |-> q, m |-> s[i]]]
        PROVE  /\ stream' \in Seq(Message)
               /\ Len(stream) <= Len(stream')
               /\ \A i \in 1..Len(stream) : stream'[i] = stream[i]
               /\ \A i \in 1..Len(stream') :
                    i > Len(stream) => ((stream'[i].m = "ready") <=> (i = Len(stream')))
    <2> DEFINE t == [i \in 1..Len(s) |-> [q |-> q, m |-> s[i]]]
    <2>1. s \in Seq(Kind) /\ \A i \in 1..Len(s) : (s[i] = "ready") <=> (i = Len(s))
      BY RepliesAssumption DEF WellEnded
    <2>2. t \in Seq(Message) /\ Len(t) = Len(s)
      BY <2>1 DEF Message
    <2>3. \A i \in 1..Len(s) : t[i].m = s[i]
      OBVIOUS
    <2>4. stream \in Seq(Message) /\ stream' = stream \o t
      BY <1>1 DEF IInv, TypeOK, Message
    <2>5. Len(s) \in Nat /\ Len(stream) \in Nat
      BY <2>1, <2>4
    <2> HIDE DEF t
    <2>6. /\ stream' \in Seq(Message)
          /\ Len(stream') = Len(stream) + Len(s)
          /\ \A i \in 1..(Len(stream) + Len(s)) :
               stream'[i] = IF i <= Len(stream) THEN stream[i] ELSE t[i - Len(stream)]
      <3>1. /\ stream \o t \in Seq(Message)
            /\ Len(stream \o t) = Len(stream) + Len(t)
            /\ \A i \in 1..(Len(stream) + Len(t)) :
                 (stream \o t)[i] = IF i <= Len(stream) THEN stream[i] ELSE t[i - Len(stream)]
        BY <2>2, <2>4, ConcatProperties, Zenon
      <3>2. QED
        BY <2>2, <2>4, <3>1, Zenon
    <2>7. ASSUME NEW i \in 1..Len(stream'), i > Len(stream)
          PROVE  (stream'[i].m = "ready") <=> (i = Len(stream'))
      <3>1. i - Len(stream) \in 1..Len(s)
        BY <2>5, <2>6, <2>7
      <3>2. stream'[i].m = s[i - Len(stream)]
        BY <2>3, <2>5, <2>6, <2>7, <3>1
      <3>3. (i - Len(stream) = Len(s)) <=> (i = Len(stream'))
        BY <2>5, <2>6, <2>7
      <3>4. QED
        BY <2>1, <3>1, <3>2, <3>3
    <2>8. QED
      BY <2>5, <2>6, <2>7
  <1>2. CASE UNCHANGED stream
    BY <1>2 DEF IInv, TypeOK, Message
  <1>3. QED
    BY <1>1, <1>2 DEF Deliver

(* PQflush: only a query that becomes whole is delivered, as by DeliverFacts. *)
LEMMA PushFacts ==
  ASSUME IInv, Push
  PROVE  /\ out' \in 0..MaxOut
         /\ out' > 0 => out > 0 /\ stream' = stream
         /\ out = 0 => out' = 0 /\ stream' = stream
         /\ stream' \in Seq(Message)
         /\ Len(stream) <= Len(stream')
         /\ \A i \in 1..Len(stream) : stream'[i] = stream[i]
         /\ stream' # stream =>
              \A i \in 1..Len(stream') :
                i > Len(stream) => ((stream'[i].m = "ready") <=> (i = Len(stream')))
  <1>1. /\ out \in 0..MaxOut /\ cur \in 0..MaxRequests
        /\ stream \in Seq(Message)
    BY DEF IInv, TypeOK, Message
  <1>2. PICK n \in 0..out :
          /\ out' = n
          /\ IF n = 0 /\ out > 0 THEN Deliver(cur) ELSE UNCHANGED stream
    BY DEF Push
  <1>3. out' \in 0..MaxOut /\ (out' > 0 => out > 0) /\ (out = 0 => out' = 0)
    BY <1>1, <1>2, BoundsAssumption
  <1>4. CASE n = 0 /\ out > 0
    BY <1>1, <1>2, <1>3, <1>4, DeliverFacts
  <1>5. CASE ~(n = 0 /\ out > 0)
    BY <1>1, <1>2, <1>3, <1>5
  <1>6. QED
    BY <1>4, <1>5

-----------------------------------------------------------------------------
(* The worker's own variables.                                              *)

LocalTypeOK ==
  /\ pc \in [Workers -> PcValues]
  /\ req \in [Workers -> 0..MaxRequests]
  /\ count \in [Workers -> 0..WriteBudget]
  /\ res \in [Workers -> [q : 0..MaxRequests, m : ResultKind]]
  /\ single \in [Workers -> BOOLEAN]
  /\ rep \in [Workers -> Seq(Tokens)]
  /\ rc \in [Workers -> Codes]

(* A punctuation token, and a row of any request, may be put in a body.     *)
LEMMA TokenFacts ==
  /\ \A t \in {"open", "comma", "blank", "close", "none", "error"} :
       Punct(t) \in Tokens
  /\ \A q \in 0..MaxRequests : Tok("row", q) \in Tokens
  BY BoundsAssumption DEF Punct, Tok, Tokens

(* What CheckResult and GetNull make of a body is a body.                   *)
LEMMA BodyFacts ==
  ASSUME NEW r \in Seq(Tokens), NEW q \in 0..MaxRequests, NEW f
  PROVE  /\ WithRow(r, q) \in Seq(Tokens)
         /\ WithEnd(r, f) \in Seq(Tokens)
         /\ Closing(r) \in Seq(Tokens)
  <1>1. WithRow(r, q) \in Seq(Tokens)
    <2>1. <<Tok("row", q), Punct("comma")>> \in Seq(Tokens)
      BY TokenFacts
    <2>2. Append(r, Punct("open")) \in Seq(Tokens)
      BY TokenFacts
    <2>3. QED
      BY <2>1, <2>2, ConcatProperties DEF WithRow
  <1>2. WithEnd(r, f) \in Seq(Tokens)
    <2>1. CASE f /\ r # <<>>
      <3>1. Punct("blank") \in Tokens
        BY TokenFacts
      <3>2. Len(r) \in 1..Len(r)
        BY <2>1
      <3>3. [r EXCEPT ![Len(r)] = Punct("blank")] \in Seq(Tokens)
        BY <3>1, <3>2, ExceptSeq
      <3>4. QED
        BY <2>1, <3>3 DEF WithEnd
    <2>2. CASE ~(f /\ r # <<>>)
      BY <2>2 DEF WithEnd
    <2>3. QED
      BY <2>1, <2>2
  <1>3. Closing(r) \in Seq(Tokens)
    BY TokenFacts DEF Closing
  <1>4. QED
    BY <1>1, <1>2, <1>3

(* Ending or continuing a request keeps its variables well typed.           *)
LEMMA AnswerFacts ==
  ASSUME LocalTypeOK, NEW w \in Workers, NEW c \in Codes, NEW r \in Seq(Tokens),
         Answer(w, c, r)
  PROVE  /\ pc' \in [Workers -> PcValues]
         /\ rep' \in [Workers -> Seq(Tokens)]
         /\ rc' \in [Workers -> Codes]
  BY DEF Answer, LocalTypeOK, PcValues

\* A request that fails is answered with one of the codes of db.c.
LEMMA FailFacts ==
  ASSUME LocalTypeOK, NEW w \in Workers, NEW c \in Codes, Fail(w, c)
  PROVE  /\ pc' \in [Workers -> PcValues]
         /\ rep' \in [Workers -> Seq(Tokens)]
         /\ rc' \in [Workers -> Codes]
  <1>1. Append(rep[w], Punct("error")) \in Seq(Tokens)
    BY TokenFacts DEF LocalTypeOK
  <1>2. QED
    BY <1>1, AnswerFacts DEF Fail

\* Control moves inside db_send and db_response; nothing else of a worker.
LEMMA GotoFacts ==
  ASSUME LocalTypeOK, NEW w \in Workers, NEW l \in PcValues, Goto(w, l)
  PROVE  /\ pc' \in [Workers -> PcValues]
         /\ rep' \in [Workers -> Seq(Tokens)]
         /\ rc' \in [Workers -> Codes]
  BY DEF Goto, LocalTypeOK

(* Both at once: how a step of a worker may leave the three variables.      *)
LEMMA MoveFacts ==
  ASSUME LocalTypeOK, NEW w \in Workers,
         (\E c \in Codes : Fail(w, c)) \/ (\E l \in PcValues : Goto(w, l))
  PROVE  /\ pc' \in [Workers -> PcValues]
         /\ rep' \in [Workers -> Seq(Tokens)]
         /\ rc' \in [Workers -> Codes]
  BY FailFacts, GotoFacts

\* A budget that is not used up can be spent, and stays within bounds.
LEMMA SpendFacts ==
  ASSUME LocalTypeOK, NEW w \in Workers, count[w] > 0, Spend(w)
  PROVE  count' \in [Workers -> 0..WriteBudget]
  BY DEF Spend, LocalTypeOK, WriteBudget

(* The shared half of TypeOK.                                               *)
SharedTypeOK ==
  /\ async \in AsyncValues /\ sock \in BOOLEAN /\ alive \in BOOLEAN
  /\ out \in 0..MaxOut /\ cur \in 0..MaxRequests /\ nreq \in 0..MaxRequests
  /\ stream \in Seq(Message)
  /\ parsed \in Nat /\ read \in Nat /\ emitted \in Nat
  /\ parsed <= read /\ read <= emitted /\ emitted <= Len(stream)

\* The type invariant is about the connection and about the workers' locals.
LEMMA TypeSplit == TypeOK <=> SharedTypeOK /\ LocalTypeOK
  BY DEF TypeOK, SharedTypeOK, LocalTypeOK, Message

\* The same, after a step.
LEMMA TypeSplitNext == TypeOK' <=> SharedTypeOK' /\ LocalTypeOK'
  BY DEF TypeOK, SharedTypeOK, LocalTypeOK, Message

-----------------------------------------------------------------------------
(* One step at a time.                                                      *)

(* The initial state: nothing sent, nothing to parse.                       *)
LEMMA InitInv == Init => IInv
  <1> SUFFICES ASSUME Init PROVE IInv
    OBVIOUS
  <1>1. TypeOK
    BY BoundsAssumption
       DEF Init, TypeOK, AsyncValues, PcValues, WriteBudget, ResultKind, Codes
  <1>2. ConnectionInv
    BY DEF Init, ConnectionInv, IdleMeansDrained
  <1>3. QED
    BY <1>1, <1>2 DEF IInv

(* A step that parses but neither writes nor reads the socket keeps         *)
(* ConnectionInv if libpq's new state is the one the parser left, or "busy". *)
LEMMA ParseKeepsConnection ==
  ASSUME IInv, NEW a, ParseInput(a),
         UNCHANGED <<out, read, backend>>, sock' => sock,
         async' = a \/ async' = "busy"
  PROVE  ConnectionInv'
  <1>1. /\ parsed' \in Nat /\ parsed <= parsed' /\ parsed' <= read
        /\ a \in {"ready", "copy"} => parsed' > 0 /\ stream[parsed'].m \in ResultKind
        /\ a = "idle" /\ sock => out = 0 /\ parsed' = Len(stream)
        /\ out > 0 => parsed' = Len(stream)
    BY ParseFacts
  <1>2. \A i \in 1..Len(stream) :
          i > parsed' => ((stream[i].m = "ready") <=> (i = Len(stream)))
    BY <1>1 DEF IInv, TypeOK, ConnectionInv
  <1>3. QED
    BY <1>1, <1>2 DEF ConnectionInv, IdleMeansDrained, backend

(* A step that may deliver a query keeps ConnectionInv: it delivers only if *)
(* all messages are parsed, and then appends one answer.                    *)
LEMMA PushKeepsConnection ==
  ASSUME IInv, Push, sock' => sock, UNCHANGED async,
         UNCHANGED parsed \/ ParseInput("busy")
  PROVE  ConnectionInv'
  <1>1. /\ out' \in 0..MaxOut
        /\ out' > 0 => out > 0 /\ stream' = stream
        /\ out = 0 => out' = 0 /\ stream' = stream
        /\ stream' \in Seq(Message)
        /\ Len(stream) <= Len(stream')
        /\ \A i \in 1..Len(stream) : stream'[i] = stream[i]
        /\ stream' # stream =>
             \A i \in 1..Len(stream') :
               i > Len(stream) => ((stream'[i].m = "ready") <=> (i = Len(stream')))
    BY PushFacts
  <1>2. /\ parsed \in Nat /\ parsed <= Len(stream) /\ out \in Nat
        /\ stream \in Seq(Message)
    BY DEF IInv, TypeOK, Message
  <1>3. /\ parsed' \in Nat /\ parsed <= parsed' /\ parsed' <= Len(stream)
        /\ out > 0 => parsed' = Len(stream)
        /\ parsed' # parsed => async = "busy"
    BY <1>2, ParseFacts DEF IInv, ConnectionInv, TypeOK, ParseInput
  <1>4. CASE stream' = stream
    BY <1>1, <1>2, <1>3, <1>4 DEF IInv, ConnectionInv, IdleMeansDrained
  <1>5. CASE stream' # stream
    <2>1. out > 0 /\ out' = 0 /\ parsed' = Len(stream) /\ ~(async = "idle" /\ sock)
      BY <1>1, <1>2, <1>3, <1>5 DEF IInv, ConnectionInv, IdleMeansDrained
    <2>2. async \in {"ready", "copy"} => parsed' > 0 /\ stream'[parsed'].m \in ResultKind
      BY <1>1, <1>2, <1>3, <2>1 DEF IInv, ConnectionInv
    <2>3. QED
      BY <1>1, <1>5, <2>1, <2>2 DEF ConnectionInv, IdleMeansDrained
  <1>6. QED
    BY <1>4, <1>5

\* Beginning a request touches the locals of its worker only.
LEMMA BeginInv == ASSUME IInv, NEW w \in Workers, Begin(w) PROVE IInv'
  <1> USE DEF Begin, libpq, backend
  <1>1. SharedTypeOK'
    BY TypeSplit, BoundsAssumption DEF IInv, SharedTypeOK
  <1>2. LocalTypeOK'
    BY TypeSplit, BoundsAssumption, SMTT(30)
       DEF IInv, SharedTypeOK, LocalTypeOK, PcValues, WriteBudget, Codes
  <1>3. ConnectionInv'
    BY DEF IInv, ConnectionInv, IdleMeansDrained
  <1>4. QED
    BY <1>1, <1>2, <1>3, TypeSplitNext DEF IInv

\* Waiting for a busy connection parses, and reads nothing (db.c:84-91).
LEMMA SendBusyInv == ASSUME IInv, NEW w \in Workers, SendBusy(w) PROVE IInv'
  <1>1. SharedTypeOK'
    BY TypeSplit, ParseFacts DEF IInv, SharedTypeOK, SendBusy, backend
  <1>2. LocalTypeOK'
    <2>1. (\E c \in Codes : Fail(w, c)) \/ (\E l \in PcValues : Goto(w, l))
      BY DEF SendBusy, Codes, PcValues
    <2>2. LocalTypeOK /\ count' \in [Workers -> 0..WriteBudget]
      BY TypeSplit, SpendFacts DEF IInv, SendBusy
    <2>3. QED
      BY <2>1, <2>2, MoveFacts DEF LocalTypeOK, SendBusy
  <1>3. ConnectionInv'
    BY ParseKeepsConnection DEF SendBusy
  <1>4. QED
    BY <1>1, <1>2, <1>3, TypeSplitNext DEF IInv

\* A refused query leaves what is left to parse as it was (db.c:93-99).
LEMMA SendRefusedInv == ASSUME IInv, NEW w \in Workers, SendRefused(w) PROVE IInv'
  <1>1. PICK a \in AsyncValues : ParseInput(a) /\ async' = a
    BY DEF SendRefused
  <1>2. SharedTypeOK'
    BY <1>1, TypeSplit, ParseFacts DEF IInv, SharedTypeOK, SendRefused, backend
  <1>3. LocalTypeOK'
    BY TypeSplit, FailFacts, SMTT(30) DEF IInv, LocalTypeOK, SendRefused, Codes
  <1>4. ConnectionInv'
    BY <1>1, ParseKeepsConnection DEF SendRefused
  <1>5. QED
    BY <1>2, <1>3, <1>4, TypeSplitNext DEF IInv

(* PQsendQuery takes a query only from an idle parser, so on a drained      *)
(* connection: the query it delivers is followed by one answer alone.       *)
LEMMA SendQueryInv == ASSUME IInv, NEW w \in Workers, SendQuery(w) PROVE IInv'
  <1>1. PICK n \in 0..MaxOut :
          out' = n /\ IF n = 0 THEN Deliver(req[w]) ELSE UNCHANGED stream
    BY DEF SendQuery
  <1>2. req[w] \in 0..MaxRequests /\ SharedTypeOK /\ LocalTypeOK
    BY TypeSplit DEF IInv, LocalTypeOK
  <1>3. /\ parsed' \in Nat /\ parsed <= parsed' /\ parsed' <= read
        /\ parsed' = Len(stream)
    BY ParseFacts DEF SendQuery
  <1>4. /\ stream' \in Seq(Message)
        /\ Len(stream) <= Len(stream')
        /\ \A i \in 1..Len(stream') :
             i > Len(stream) => ((stream'[i].m = "ready") <=> (i = Len(stream')))
    <2>1. CASE n = 0
      BY <1>1, <1>2, <2>1, DeliverFacts
    <2>2. CASE n # 0
      BY <1>1, <1>2, <2>2 DEF SharedTypeOK
    <2>3. QED
      BY <2>1, <2>2
  <1>5. SharedTypeOK'
    BY <1>1, <1>2, <1>3, <1>4 DEF SharedTypeOK, SendQuery, AsyncValues
  <1>6. LocalTypeOK'
    BY <1>2, GotoFacts DEF LocalTypeOK, SendQuery, PcValues
  <1>7. ConnectionInv'
    BY <1>1, <1>2, <1>3, <1>4
       DEF ConnectionInv, IdleMeansDrained, SendQuery, SharedTypeOK
  <1>8. QED
    BY <1>5, <1>6, <1>7, TypeSplitNext DEF IInv

\* A turn of the flush loop delivers the query whole or not at all (db.c:101-113).
LEMMA FlushInv == ASSUME IInv, NEW w \in Workers, Flush(w) PROVE IInv'
  <1>1. SharedTypeOK'
    <2>1. SharedTypeOK
      BY TypeSplit DEF IInv
    <2>2. CASE UNCHANGED <<sock, out, stream>>
      BY <2>1, <2>2 DEF Flush, SharedTypeOK
    <2>3. CASE Push /\ UNCHANGED sock
      BY <2>1, <2>3, PushFacts DEF Flush, SharedTypeOK
    <2>4. CASE sock' = FALSE /\ out' = 0 /\ UNCHANGED stream
      <3>1. out' \in 0..MaxOut
        BY <2>4, BoundsAssumption
      <3>2. sock' \in BOOLEAN
        BY <2>4
      <3>3. QED
        BY <2>1, <2>4, <3>1, <3>2 DEF Flush, SharedTypeOK
    <2>5. QED
      BY <2>2, <2>3, <2>4 DEF Flush
  <1>2. LocalTypeOK'
    <2>1. (\E c \in Codes : Fail(w, c)) \/ (\E l \in PcValues : Goto(w, l))
      <3>1. 500 \in Codes /\ (IF count[w] = 1 THEN 429 ELSE 500) \in Codes
        BY DEF Codes
      <3>2. QED
        BY <3>1 DEF Flush, PcValues
    <2>2. LocalTypeOK /\ count' \in [Workers -> 0..WriteBudget]
      BY TypeSplit, SpendFacts DEF IInv, Flush
    <2>3. QED
      BY <2>1, <2>2, MoveFacts DEF LocalTypeOK, Flush
  <1>3. ConnectionInv'
    <2>1. CASE UNCHANGED <<sock, out, stream>>
      BY <2>1 DEF Flush, IInv, ConnectionInv, IdleMeansDrained
    <2>2. CASE Push /\ UNCHANGED sock
      BY <2>2, PushKeepsConnection DEF Flush
    <2>3. CASE sock' = FALSE /\ out' = 0 /\ UNCHANGED stream
      BY <2>3 DEF Flush, IInv, ConnectionInv, IdleMeansDrained
    <2>4. QED
      BY <2>1, <2>2, <2>3 DEF Flush
  <1>4. QED
    BY <1>1, <1>2, <1>3, TypeSplitNext DEF IInv

\* Leaving the flush loop changes no state of libpq (db.c:115-120).
LEMMA WrittenInv == ASSUME IInv, NEW w \in Workers, Written(w) PROVE IInv'
  <1>1. SharedTypeOK'
    BY TypeSplit DEF IInv, SharedTypeOK, Written, libpq, backend
  <1>2. LocalTypeOK'
    BY TypeSplit, FailFacts, GotoFacts
       DEF IInv, LocalTypeOK, Written, Codes, PcValues
  <1>3. ConnectionInv'
    BY DEF IInv, ConnectionInv, IdleMeansDrained, Written, libpq, backend
  <1>4. QED
    BY <1>1, <1>2, <1>3, TypeSplitNext DEF IInv

(* A wait for input that ends well: what ConsumeInput does to the socket.   *)
LEMMA ConsumeFacts ==
  ASSUME IInv, ConsumeInput
  PROVE  /\ Push /\ sock' \in BOOLEAN /\ (sock' => sock)
         /\ read' = emitted
  BY DEF ConsumeInput, Readable, IInv, TypeOK

(* The two outcomes of a wait, shared by AwaitReply and CheckWait.          *)
LEMMA WaitFacts ==
  ASSUME IInv, NEW w \in Workers, NEW l \in PcValues,
         \/ ConsumeInput /\ Goto(w, l)
         \/ ~Readable /\ Fail(w, 500) /\ UNCHANGED <<out, read, sock, stream>>,
         UNCHANGED <<async, cur, emitted, alive, nreq, req, single, count, res>>,
         UNCHANGED parsed \/ ParseInput("busy")
  PROVE  IInv'
  <1>1. SharedTypeOK /\ LocalTypeOK
    BY TypeSplit DEF IInv
  <1>2. parsed' \in Nat /\ parsed' <= read
    BY <1>1, ParseFacts DEF SharedTypeOK
  <1>3. SharedTypeOK'
    <2>1. CASE ConsumeInput
      BY <1>1, <1>2, <2>1, ConsumeFacts, PushFacts DEF SharedTypeOK
    <2>2. CASE UNCHANGED <<out, read, sock, stream>>
      BY <1>1, <1>2, <2>2 DEF SharedTypeOK
    <2>3. QED
      BY <2>1, <2>2
  <1>4. LocalTypeOK'
    BY <1>1, MoveFacts DEF LocalTypeOK, Codes
  <1>5. ConnectionInv'
    <2>1. CASE ConsumeInput
      BY <2>1, ConsumeFacts, PushKeepsConnection
    <2>2. CASE UNCHANGED <<out, read, sock, stream>>
      <3>1. CASE UNCHANGED parsed
        BY <2>2, <3>1 DEF IInv, ConnectionInv, IdleMeansDrained
      <3>2. CASE ParseInput("busy")
        <4>1. async = "busy"
          BY <3>2 DEF ParseInput
        <4>2. QED
          BY <2>2, <3>2, <4>1, ParseKeepsConnection DEF backend
      <3>3. QED
        BY <3>1, <3>2
    <2>3. QED
      BY <2>1, <2>2
  <1>6. QED
    BY <1>3, <1>4, <1>5, TypeSplitNext DEF IInv

\* The first wait of db_response reads, or fails without reading (db.c:133-138).
LEMMA AwaitReplyInv == ASSUME IInv, NEW w \in Workers, AwaitReply(w) PROVE IInv'
  BY WaitFacts DEF AwaitReply, PcValues

\* So does the wait before a result is looked at (db.c:146-154).
LEMMA CheckWaitInv == ASSUME IInv, NEW w \in Workers, CheckWait(w) PROVE IInv'
  BY WaitFacts DEF CheckWait, PcValues

\* PQgetResult, blocking, delivers the rest of a query or reads (db.c:144).
LEMMA GetBlocksInv == ASSUME IInv, NEW w \in Workers, GetBlocks(w) PROVE IInv'
  <1>1. SharedTypeOK /\ LocalTypeOK
    BY TypeSplit DEF IInv
  <1>2. parsed' \in Nat /\ parsed' <= read /\ async = "busy"
    BY ParseFacts DEF GetBlocks, ParseInput
  <1>3. CASE out > 0 /\ out' = 0 /\ Deliver(cur) /\ UNCHANGED read
    <2>1. Push
      BY <1>1, <1>3 DEF Push, SharedTypeOK
    <2>2. SharedTypeOK'
      BY <1>1, <1>2, <1>3, <2>1, PushFacts DEF SharedTypeOK, GetBlocks
    <2>3. ConnectionInv'
      BY <2>1, PushKeepsConnection DEF GetBlocks
    <2>4. QED
      BY <1>1, <2>2, <2>3, TypeSplitNext DEF IInv, LocalTypeOK, GetBlocks, local
  <1>4. CASE read' = emitted /\ UNCHANGED <<out, stream>>
    <2>1. SharedTypeOK'
      BY <1>1, <1>2, <1>4 DEF SharedTypeOK, GetBlocks
    <2>2. ConnectionInv'
      BY <1>1, <1>2, <1>4, ParseFacts
         DEF IInv, ConnectionInv, IdleMeansDrained, GetBlocks, SharedTypeOK
    <2>3. QED
      BY <1>1, <2>1, <2>2, TypeSplitNext DEF IInv, LocalTypeOK, GetBlocks, local
  <1>5. QED
    BY <1>3, <1>4 DEF GetBlocks

\* PQgetResult on a lost connection leaves it idle but closed (db.c:144).
LEMMA GetBrokenInv == ASSUME IInv, NEW w \in Workers, GetBroken(w) PROVE IInv'
  <1>1. SharedTypeOK /\ LocalTypeOK
    BY TypeSplit DEF IInv
  <1>2. /\ parsed' \in Nat /\ parsed <= parsed' /\ parsed' <= read
    BY ParseFacts DEF GetBroken
  <1>3. SharedTypeOK'
    <2>1. out' \in 0..MaxOut
      BY BoundsAssumption DEF GetBroken
    <2>2. sock' \in BOOLEAN
      BY DEF GetBroken
    <2>3. QED
      BY <1>1, <1>2, <2>1, <2>2 DEF SharedTypeOK, GetBroken, backend, AsyncValues
  <1>4. LocalTypeOK'
    <2>1. res' \in [Workers -> [q : 0..MaxRequests, m : ResultKind]]
      BY <1>1 DEF GetBroken, LocalTypeOK, ResultKind
    <2>2. Goto(w, "check") /\ "check" \in PcValues /\ UNCHANGED <<req, single, count>>
      BY DEF GetBroken, PcValues
    <2>3. QED
      BY <1>1, <2>1, <2>2, GotoFacts DEF LocalTypeOK
  <1>5. ConnectionInv'
    BY <1>1, <1>2
       DEF IInv, ConnectionInv, IdleMeansDrained, GetBroken, SharedTypeOK, backend
  <1>6. QED
    BY <1>3, <1>4, <1>5, TypeSplitNext DEF IInv

\* PQgetResult hands over the message parsed last (db.c:144).
LEMMA GetResultInv == ASSUME IInv, NEW w \in Workers, GetResult(w) PROVE IInv'
  <1>1. SharedTypeOK /\ LocalTypeOK
    BY TypeSplit DEF IInv
  <1>2. /\ parsed' \in Nat /\ parsed <= parsed' /\ parsed' <= read
        /\ parsed' > 0 /\ stream[parsed'].m \in ResultKind
    BY ParseFacts DEF GetResult
  <1>3. SharedTypeOK'
    BY <1>1, <1>2 DEF SharedTypeOK, GetResult, backend, AsyncValues
  <1>4. LocalTypeOK'
    <2>1. parsed' \in 1..Len(stream)
      BY <1>1, <1>2 DEF SharedTypeOK
    <2>2. stream[parsed'] \in Message
      BY <1>1, <2>1, ElementOfSeq DEF SharedTypeOK
    <2>3. stream[parsed'] \in [q : 0..MaxRequests, m : ResultKind]
      BY <1>2, <2>2 DEF Message
    <2>4. res' \in [Workers -> [q : 0..MaxRequests, m : ResultKind]]
      BY <1>1, <2>3 DEF GetResult, LocalTypeOK
    <2>5. Goto(w, "check") /\ "check" \in PcValues /\ UNCHANGED <<req, single, count>>
      BY DEF GetResult, PcValues
    <2>6. QED
      BY <1>1, <2>4, <2>5, GotoFacts DEF LocalTypeOK
  <1>5. ConnectionInv'
    BY ParseKeepsConnection DEF GetResult
  <1>6. QED
    BY <1>3, <1>4, <1>5, TypeSplitNext DEF IInv

\* PQgetResult returns null only when the answer is used up (db.c:144).
LEMMA GetNullInv == ASSUME IInv, NEW w \in Workers, GetNull(w) PROVE IInv'
  <1>1. SharedTypeOK /\ LocalTypeOK
    BY TypeSplit DEF IInv
  <1>2. SharedTypeOK'
    BY <1>1, ParseFacts DEF SharedTypeOK, GetNull, backend, AsyncValues
  <1>3. LocalTypeOK'
    <2>1. rep[w] \in Seq(Tokens) /\ 0 \in 0..MaxRequests
      BY <1>1, BoundsAssumption DEF LocalTypeOK
    <2>2. Closing(rep[w]) \in Seq(Tokens)
      BY <2>1, BodyFacts
    <2>3. <<Punct("error")>> \in Seq(Tokens)
      BY TokenFacts
    <2>4. 200 \in Codes /\ 400 \in Codes
      BY DEF Codes
    <2>5. /\ pc' \in [Workers -> PcValues]
          /\ rep' \in [Workers -> Seq(Tokens)]
          /\ rc' \in [Workers -> Codes]
      BY <1>1, <2>2, <2>3, <2>4, AnswerFacts DEF GetNull
    <2>6. QED
      BY <1>1, <2>5 DEF GetNull, LocalTypeOK
  <1>4. ConnectionInv'
    BY ParseKeepsConnection DEF GetNull
  <1>5. QED
    BY <1>2, <1>3, <1>4, TypeSplitNext DEF IInv

\* Turning a result into JSON parses the next message at most (db.c:156-246).
LEMMA CheckResultInv == ASSUME IInv, NEW w \in Workers, CheckResult(w) PROVE IInv'
  <1>1. SharedTypeOK /\ LocalTypeOK
    BY TypeSplit DEF IInv
  <1>2. PICK a \in AsyncValues : ParseInput(a) /\ async' = a
    BY DEF CheckResult
  <1>3. SharedTypeOK'
    BY <1>1, <1>2, ParseFacts DEF SharedTypeOK, CheckResult, backend
  <1>4. LocalTypeOK'
    <2>1. rep[w] \in Seq(Tokens) /\ res[w].q \in 0..MaxRequests
      BY <1>1 DEF LocalTypeOK
    <2>2. WithRow(rep[w], res[w].q) \in Seq(Tokens) /\ WithEnd(rep[w], single[w]) \in Seq(Tokens)
      BY <2>1, BodyFacts
    <2>3. /\ pc' \in [Workers -> PcValues]
          /\ rep' \in [Workers -> Seq(Tokens)]
          /\ rc' \in [Workers -> Codes]
      BY <1>1, <2>2, ZenonT(30) DEF CheckResult, Goto, LocalTypeOK, PcValues
    <2>4. QED
      BY <1>1, <2>3 DEF CheckResult, LocalTypeOK
  <1>5. ConnectionInv'
    BY <1>2, ParseKeepsConnection DEF CheckResult
  <1>6. QED
    BY <1>3, <1>4, <1>5, TypeSplitNext DEF IInv

\* The backend's own steps do not touch what libpq has read.
LEMMA BackendInv == ASSUME IInv, BackendEmit \/ BackendLost PROVE IInv'
  <1>1. SharedTypeOK /\ LocalTypeOK
    BY TypeSplit DEF IInv
  <1>2. SharedTypeOK'
    <2>1. CASE BackendEmit
      BY <1>1, <2>1 DEF SharedTypeOK, BackendEmit, libpq
    <2>2. CASE BackendLost
      <3>1. alive' \in BOOLEAN
        BY <2>2 DEF BackendLost
      <3>2. QED
        BY <1>1, <2>2, <3>1 DEF SharedTypeOK, BackendLost, libpq
    <2>3. QED
      BY <2>1, <2>2
  <1>3. UNCHANGED <<libpq, stream, local>>
    BY DEF BackendEmit, BackendLost
  <1>4. LocalTypeOK' /\ ConnectionInv'
    BY <1>1, <1>3 DEF libpq, local, LocalTypeOK, IInv, ConnectionInv, IdleMeansDrained
  <1>5. QED
    BY <1>2, <1>4, TypeSplitNext DEF IInv

\* Nothing changes if nothing happens.
LEMMA StutterInv == ASSUME IInv, UNCHANGED vars PROVE IInv'
  BY DEF vars, libpq, backend, local, IInv, TypeOK, ConnectionInv, IdleMeansDrained

(* Every step keeps the invariant.                                          *)
LEMMA StepInv == IInv /\ [Next]_vars => IInv'
  <1> SUFFICES ASSUME IInv, [Next]_vars PROVE IInv'
    OBVIOUS
  <1>1. ASSUME NEW w \in Workers, Begin(w) PROVE IInv'
    BY <1>1, BeginInv
  <1>2. ASSUME NEW w \in Workers, Step(w) PROVE IInv'
    BY <1>2, SendBusyInv, SendRefusedInv, SendQueryInv, FlushInv, WrittenInv,
       AwaitReplyInv, GetBlocksInv, GetBrokenInv, GetResultInv, GetNullInv,
       CheckWaitInv, CheckResultInv DEF Step
  <1>3. CASE BackendEmit \/ BackendLost
    BY <1>3, BackendInv
  <1>4. CASE UNCHANGED vars
    BY <1>4, StutterInv
  <1>5. QED
    BY <1>1, <1>2, <1>3, <1>4 DEF Next, Finished

-----------------------------------------------------------------------------
(* Type correctness and the state of the connection, for any workers,       *)
(* bounds and answers.                                                      *)
THEOREM Invariance == Spec => []IInv
  BY InitInv, StepInv, PTL DEF Spec

(* db_send and db_response keep every variable in its type.                 *)
THEOREM TypeCorrect == Spec => []TypeOK
  <1>1. IInv => TypeOK
    BY DEF IInv
  <1>2. QED
    BY <1>1, Invariance, PTL

(* Whatever requests timed out, failed or shared the connection before, a   *)
(* new query is only ever accepted on a drained connection (db.c:93-99).     *)
THEOREM IdleIsDrained == Spec => []IdleMeansDrained
  <1>1. IInv => IdleMeansDrained
    BY DEF IInv, ConnectionInv
  <1>2. QED
    BY <1>1, Invariance, PTL

(* The answers to different requests never mix in libpq: what is left to    *)
(* parse belongs to one answer and ends in its ReadyForQuery.               *)
THEOREM ConnectionIsConsistent == Spec => []ConnectionInv
  <1>1. IInv => ConnectionInv
    BY DEF IInv
  <1>2. QED
    BY <1>1, Invariance, PTL
-----------------------------------------------------------------------------
(* A connection that is stuck, for any threads that share it.  What keeps  *)
(* it so: only a thread inside db_response reads, and it does not leave    *)
(* while there is a message left that would end libpq's waiting, so that   *)
(* between requests PQisBusy and PQsendQuery find nothing to parse.        *)
Reading(w) == pc[w] \in {"get", "check", "after"}
Left       == \E i \in (parsed + 1)..read : stream[i].m # "part"
Attended   == async = "busy" /\ Left => \E w \in Workers : Reading(w)
AInv       == IInv /\ Attended

\* What a step makes of the threads.
LEMMA OneMoves ==
  ASSUME IInv, NEW w \in Workers
  PROVE  /\ \A c : Fail(w, c) => pc'[w] = "idle" /\ rc'[w] = c
         /\ \A c, r : Answer(w, c, r) => pc'[w] = "idle" /\ rc'[w] = c
         /\ \A l : Goto(w, l) => pc'[w] = l /\ rc'[w] = rc[w]
         /\ \A l, c, r : Goto(w, l) \/ Fail(w, c) \/ Answer(w, c, r) =>
              \A v \in Workers \ {w} : pc'[v] = pc[v] /\ rc'[v] = rc[v]
  BY DEF IInv, TypeOK, Fail, Answer, Goto

LEMMA ReadIsInStream ==
  ASSUME IInv
  PROVE  /\ parsed \in Nat /\ read \in Nat /\ Len(stream) \in Nat
         /\ read <= Len(stream)
  BY DEF IInv, TypeOK

\* Nothing new is left, and the readers go on.
LEMMA SameIsAttended ==
  ASSUME AInv, async' = async, parsed' = parsed, read' = read,
         \A i \in 1..Len(stream) : stream'[i] = stream[i],
         \A v \in Workers : Reading(v) => Reading(v)'
  PROVE  Attended'
<1>1. /\ parsed \in Nat /\ read \in Nat /\ Len(stream) \in Nat
      /\ read <= Len(stream)
  BY ReadIsInStream DEF AInv
<1>2. \A i \in (parsed + 1)..read : i \in 1..Len(stream)
  BY <1>1
<1>3. Left' => Left
  BY <1>2 DEF Left
<1> QED
  BY <1>3 DEF AInv, Attended

\* All there is has been parsed.
LEMMA NothingIsAttended == ASSUME IInv', parsed' = read' PROVE Attended'
<1>1. read' \in Nat
  BY DEF IInv, TypeOK
<1> QED
  BY <1>1 DEF Attended, Left

LEMMA SendIsAttended ==
  ASSUME AInv, IInv', NEW w \in Workers, SendBusy(w) \/ SendRefused(w) \/ SendQuery(w)
  PROVE  Attended'
<1>1. CASE async' # "busy"
  BY <1>1 DEF Attended
<1>2. CASE async' = "busy" /\ ~SendQuery(w)
  <2>1. ParseInput("busy") /\ read' = read
    BY <1>2 DEF SendBusy, SendRefused
  <2> QED
    BY <2>1, NothingIsAttended DEF ParseInput
<1>3. CASE SendQuery(w)
  <2>1. ParseInput("idle") /\ sock /\ read' = read
    BY <1>3 DEF SendQuery
  <2>2. parsed' = Len(stream) /\ parsed' <= read
    BY <2>1, ParseFacts DEF AInv
  <2>3. read \in Nat /\ Len(stream) \in Nat /\ read <= Len(stream)
    BY ReadIsInStream DEF AInv
  <2> QED
    BY <2>1, <2>2, <2>3, NothingIsAttended
<1> QED
  BY <1>1, <1>2, <1>3

\* A query on its way leaves what is there to read as it is.
LEMMA WriteIsAttended ==
  ASSUME AInv, NEW w \in Workers, Begin(w) \/ Flush(w) \/ Written(w)
  PROVE  Attended'
<1>1. ~Reading(w)
  BY DEF Begin, Flush, Written, Reading
<1>2. async' = async /\ parsed' = parsed /\ read' = read
  BY DEF Begin, Flush, Written, libpq
<1>3. \A v \in Workers \ {w} : pc'[v] = pc[v]
  <2>1. CASE Begin(w)
    BY <2>1 DEF AInv, IInv, TypeOK, Begin
  <2>2. CASE \E c, l : Goto(w, l) \/ Fail(w, c)
    BY <2>2, OneMoves DEF AInv
  <2> QED
    BY <2>1, <2>2 DEF Flush, Written
<1>4. \A i \in 1..Len(stream) : stream'[i] = stream[i]
  <2>1. CASE Push /\ IInv
    BY <2>1, PushFacts
  <2>2. CASE UNCHANGED stream
    BY <2>2
  <2> QED
    BY <2>1, <2>2 DEF AInv, Begin, Flush, Written, libpq, backend
<1> QED
  BY <1>1, <1>2, <1>3, <1>4, SameIsAttended DEF Reading

\* db_response reads as long as it is there to parse, and leaves after that.
LEMMA ReadIsAttended ==
  ASSUME AInv, IInv', NEW w \in Workers,
         AwaitReply(w) \/ CheckWait(w) \/ GetBlocks(w) \/ GetBroken(w) \/ GetResult(w)
           \/ GetNull(w) \/ CheckResult(w)
  PROVE  Attended'
<1>1. CASE Reading(w)'
  BY <1>1 DEF Attended
<1>2. CASE async' # "busy"
  BY <1>2 DEF Attended
<1>3. CASE AwaitReply(w) /\ ~Readable /\ Fail(w, 500) /\ UNCHANGED <<out, read, sock, stream>>
  <2>1. ~Reading(w) /\ async' = async /\ parsed' = parsed
    BY <1>3 DEF AwaitReply, Reading
  <2>2. \A v \in Workers \ {w} : pc'[v] = pc[v]
    BY <1>3, OneMoves DEF AInv
  <2> QED
    BY <1>3, <2>1, <2>2, SameIsAttended DEF Reading
<1>4. CASE CheckWait(w) /\ ~Readable /\ Fail(w, 500) /\ UNCHANGED <<out, read, sock, stream>>
  <2>1. ParseInput("busy") /\ read' = read
    BY <1>4 DEF CheckWait
  <2> QED
    BY <2>1, NothingIsAttended DEF ParseInput
<1>5. \A l \in {"get", "check"} : Goto(w, l) => Reading(w)'
  BY OneMoves DEF AInv, Reading
<1>6. GetBlocks(w) => Reading(w)'
  BY DEF GetBlocks, local, Reading
<1> QED
  BY <1>1, <1>2, <1>3, <1>4, <1>5, <1>6
  DEF AwaitReply, CheckWait, GetBroken, GetResult, GetNull, CheckResult

LEMMA StepAttended == AInv /\ [Next]_vars => AInv'
<1> SUFFICES ASSUME AInv, [Next]_vars PROVE AInv'
  OBVIOUS
<1>1. IInv'
  BY StepInv DEF AInv
<1>2. ASSUME NEW w \in Workers, Begin(w) \/ Step(w) PROVE Attended'
  BY <1>1, <1>2, SendIsAttended, WriteIsAttended, ReadIsAttended DEF Step
<1>3. CASE BackendEmit \/ BackendLost \/ UNCHANGED vars
  <2>1. /\ async' = async /\ parsed' = parsed /\ read' = read
        /\ stream' = stream /\ pc' = pc
    BY <1>3 DEF BackendEmit, BackendLost, vars, libpq, local, backend
  <2>2. \A v \in Workers : Reading(v) => Reading(v)'
    BY <2>1 DEF Reading
  <2>3. \A n \in 1..Len(stream) : stream'[n] = stream[n]
    BY <2>1
  <2> QED
    BY <1>1, <2>1, <2>2, <2>3, SameIsAttended DEF AInv
<1> QED
  BY <1>1, <1>2, <1>3 DEF AInv, Next, Finished

\* Where nobody reads, a query is not accepted unless libpq is idle.
LEMMA NotAccepted ==
  ASSUME AInv, Wedged, NEW w \in Workers, ParseInput("idle"), sock
  PROVE  FALSE
<1>1. async = "busy"
  BY DEF Wedged, ParseInput
<1>2. Left
  BY <1>1 DEF ParseInput, Left
<1>3. ~ \E v \in Workers : Reading(v)
  BY DEF Wedged, Reading
<1> QED
  BY <1>1, <1>2, <1>3 DEF AInv, Attended

LEMMA WedgedStays == ASSUME AInv, [Next]_vars PROVE StaysWedged
<1> SUFFICES ASSUME Wedged
             PROVE  Wedged' /\ \A w \in Workers : rc'[w] \in {rc[w], 0, 500}
  BY DEF StaysWedged
<1> DEFINE Ready == async = "idle" /\ sock
<1>1. \A v \in Workers : pc[v] \in {"idle", "send"}
  BY DEF Wedged
<1>2. ~Ready
  BY DEF Wedged
<1>3. ASSUME NEW w \in Workers, Begin(w) PROVE Wedged' /\ \A v \in Workers : rc'[v] \in {rc[v], 0, 500}
  <2>1. \A v \in Workers : pc'[v] \in {"idle", "send"} /\ rc'[v] \in {rc[v], 0}
    BY <1>1, <1>3 DEF Begin, AInv, IInv, TypeOK
  <2>2. ~Ready'
    BY <1>2, <1>3 DEF Begin, libpq
  <2> QED
    BY <2>1, <2>2 DEF Wedged
<1>4. ASSUME NEW w \in Workers, SendBusy(w) \/ SendRefused(w)
      PROVE  Wedged' /\ \A v \in Workers : rc'[v] \in {rc[v], 0, 500}
  <2>1. Goto(w, "send") \/ Fail(w, 500)
    BY <1>4 DEF SendBusy, SendRefused
  <2>2. \A v \in Workers \ {w} : pc'[v] = pc[v] /\ rc'[v] = rc[v]
    BY <2>1, OneMoves DEF AInv
  <2>3. pc'[w] \in {"idle", "send"} /\ rc'[w] \in {rc[w], 500}
    BY <2>1, OneMoves DEF AInv
  <2>4. ~Ready'
    BY <1>4 DEF SendBusy, SendRefused
  <2> QED
    BY <1>1, <2>2, <2>3, <2>4 DEF Wedged
<1>5. ASSUME NEW w \in Workers, Step(w), ~SendBusy(w), ~SendRefused(w) PROVE FALSE
  <2>1. SendQuery(w)
    BY <1>1, <1>5 DEF Step, Flush, Written, AwaitReply, GetBlocks, GetBroken, GetResult,
                      GetNull, CheckWait, CheckResult
  <2> QED
    BY <2>1, NotAccepted DEF SendQuery
<1>6. CASE BackendEmit \/ BackendLost \/ UNCHANGED vars
  <2>1. UNCHANGED <<async, sock, pc, rc>>
    BY <1>6 DEF BackendEmit, BackendLost, vars, libpq, local, backend
  <2> QED
    BY <2>1, <1>1, <1>2 DEF Wedged
<1> QED
  BY <1>3, <1>4, <1>5, <1>6 DEF Next, Finished

(* A session that is stuck stays stuck, whatever number of threads share   *)
(* it, and every answer is a 500 from then on, until the session ends      *)
(* (db.c:84-99).                                                           *)
THEOREM SessionIsWedgedForGood == Spec => WedgedForGood
<1>1. Init => AInv
  <2>1. ASSUME Init PROVE Attended
    BY <2>1 DEF Init, Attended
  <2> QED
    BY <2>1, InitInv DEF AInv
<1>2. AInv /\ [Next]_vars => AInv' /\ [StaysWedged]_vars
  BY StepAttended, WedgedStays
<1> QED
  BY <1>1, <1>2, PTL DEF Spec, WedgedForGood
-----------------------------------------------------------------------------
(***************************************************************************)
(* A session whose requests come one at a time: it implements QueryService,*)
(* its statuses fit its answers, and its bodies are its own answers' rows  *)
(* and, when an answer has one set of rows, framed as one array.           *)
(***************************************************************************)

(* The strengthening.  Between requests, and until the first input of its  *)
(* answer, a query has found nothing left to parse, so libpq can not leave *)
(* "busy"; and db_response comes to know of a closed connection only when  *)
(* there is nothing left to parse, or from the error that libpq makes.     *)
Quiet(w) ==
  /\ pc[w] \in {"flush", "await"} => async = "busy" /\ sock
  /\ pc[w] \in {"idle", "send", "flush", "await"} /\ async = "busy" => parsed = read

Closed(w) ==
  /\ pc[w] = "get" /\ ~sock => async = "busy" /\ parsed = read
  /\ pc[w] = "check" /\ ~sock =>
       (async = "busy" /\ parsed = read) \/ (async = "idle" /\ res[w].m = "error")
  /\ pc[w] = "after" /\ ~sock => async = "idle"

SInv(w) == IInv /\ Quiet(w) /\ Closed(w)

(* The service's variables, for one worker, and what a step may do to them. *)
Idle(w)  == pc[w] = "idle"
Stuck(w) == pc[w] \in {"idle", "send"} /\ ~(async = "idle" /\ sock)

Accepts(w)   == Idle(w) /\ ~Idle(w)' /\ rc'[w] = 0 /\ (Stuck(w)' <=> Stuck(w))
Completes(w) == ~Idle(w) /\ ~Stuck(w) /\ Idle(w)' /\ rc'[w] = 200 /\ ~Stuck(w)'
Rejects(w)   == ~Idle(w) /\ ~Stuck(w) /\ Idle(w)' /\ rc'[w] = 400
Fails(w)     == ~Idle(w) /\ Idle(w)' /\ rc'[w] \in {429, 500} /\ Stuck(w)'
GoesOn(w)    == (Idle(w)' <=> Idle(w)) /\ rc'[w] = rc[w] /\ (Stuck(w)' <=> Stuck(w))

Serves(w) == Accepts(w) \/ Completes(w) \/ Rejects(w) \/ Fails(w) \/ GoesOn(w)

Kept(w) == Quiet(w)' /\ Closed(w)' /\ Serves(w)

-----------------------------------------------------------------------------
\* Where nothing is left to parse, libpq stays busy.
LEMMA NothingToParse ==
  ASSUME IInv, async = "busy", parsed = read, NEW a, ParseInput(a)
  PROVE  a = "busy" /\ parsed' = read
  BY DEF IInv, TypeOK, ParseInput

\* While libpq is busy, what it has read is parsed.
LEMMA BusyParses ==
  ASSUME ParseInput("busy")
  PROVE  async = "busy" /\ parsed' = read
  BY DEF ParseInput

LEMMA NotBusyKeeps ==
  ASSUME async # "busy", NEW a, ParseInput(a)
  PROVE  a = async /\ parsed' = parsed
  BY DEF ParseInput

\* What the ends of a step make of a worker's own variables.
LEMMA Ends ==
  ASSUME IInv, NEW w \in Workers
  PROVE  /\ \A c : Fail(w, c) => pc'[w] = "idle" /\ rc'[w] = c
         /\ \A c, r : Answer(w, c, r) => pc'[w] = "idle" /\ rc'[w] = c
         /\ \A l : Goto(w, l) => pc'[w] = l /\ rc'[w] = rc[w]
  BY DEF IInv, TypeOK, Fail, Answer, Goto

-----------------------------------------------------------------------------
(* The actions of db_send.                                                 *)

LEMMA BeginServes == ASSUME NEW w \in Workers, SInv(w), Begin(w) PROVE Kept(w)
  <1>1. /\ pc[w] = "idle" /\ pc'[w] = "send" /\ rc'[w] = 0 /\ res' = res
        /\ async' = async /\ sock' = sock /\ parsed' = parsed /\ read' = read
    BY DEF Begin, SInv, IInv, TypeOK, libpq
  <1>2. QED
    BY <1>1 DEF Kept, SInv, Quiet, Closed, Serves, Accepts, Idle, Stuck

LEMMA SendBusyServes == ASSUME NEW w \in Workers, SInv(w), SendBusy(w) PROVE Kept(w)
  <1>1. /\ pc[w] = "send" /\ async = "busy" /\ async' = "busy"
        /\ sock' = sock /\ parsed' = read /\ read' = read
    BY BusyParses DEF SendBusy
  <1>2. (pc'[w] = "idle" /\ rc'[w] = 500) \/ (pc'[w] = "send" /\ rc'[w] = rc[w])
    BY Ends DEF SendBusy, SInv
  <1>3. QED
    BY <1>1, <1>2
    DEF Kept, Quiet, Closed, Serves, Fails, GoesOn, Idle, Stuck

LEMMA SendRefusedServes == ASSUME NEW w \in Workers, SInv(w), SendRefused(w) PROVE Kept(w)
  <1>1. /\ pc[w] = "send" /\ pc'[w] = "idle" /\ rc'[w] = 500 /\ read' = read
        /\ ParseInput(async')
    BY Ends DEF SendRefused, SInv
  <1>2. async' # "idle" \/ ~sock'
    BY DEF SendRefused
  <1>3. async' = "busy" => parsed' = read
    BY <1>1, BusyParses
  <1>4. QED
    BY <1>1, <1>2, <1>3
    DEF Kept, Quiet, Closed, Serves, Fails, Idle, Stuck

\* A query is accepted only where libpq is idle: nothing is left to parse.
LEMMA SendQueryServes == ASSUME NEW w \in Workers, SInv(w), SendQuery(w) PROVE Kept(w)
  <1>1. /\ pc[w] = "send" /\ sock /\ ParseInput("idle") /\ async' = "busy"
        /\ sock' = sock /\ read' = read /\ pc'[w] = "flush" /\ rc'[w] = rc[w]
    BY Ends DEF SendQuery, SInv
  <1>2. async # "busy"
    BY <1>1, NothingToParse DEF SInv, Quiet
  <1>3. async = "idle" /\ parsed' = parsed
    BY <1>1, <1>2, NotBusyKeeps
  <1>4. parsed = read
    BY <1>1, <1>3 DEF SInv, IInv, TypeOK, ConnectionInv, IdleMeansDrained
  <1>5. QED
    BY <1>1, <1>3, <1>4
    DEF Kept, Quiet, Closed, Serves, GoesOn, Idle, Stuck

LEMMA FlushServes == ASSUME NEW w \in Workers, SInv(w), Flush(w) PROVE Kept(w)
  <1>1. /\ pc[w] = "flush" /\ async' = async /\ parsed' = parsed /\ read' = read
        /\ async = "busy" /\ parsed = read
    BY DEF Flush, SInv, Quiet
  <1>2. \/ pc'[w] = "idle" /\ rc'[w] \in {429, 500}
        \/ pc'[w] = "flush" /\ rc'[w] = rc[w] /\ sock'
    <2>1. CASE \E c \in {429, 500} : Fail(w, c)
      BY <2>1, Ends DEF SInv
    <2>2. CASE sock /\ Goto(w, "flush") /\ UNCHANGED sock
      BY <2>2, Ends DEF SInv
    <2>3. QED
      BY <2>1, <2>2 DEF Flush
  <1>3. QED
    BY <1>1, <1>2
    DEF Kept, Quiet, Closed, Serves, Fails, GoesOn, Idle, Stuck

LEMMA WrittenServes == ASSUME NEW w \in Workers, SInv(w), Written(w) PROVE Kept(w)
  <1>1. /\ pc[w] = "flush" /\ async' = async /\ parsed' = parsed /\ read' = read
        /\ async = "busy" /\ parsed = read /\ sock' = sock /\ sock
    BY DEF Written, libpq, SInv, Quiet
  <1>2. (pc'[w] = "idle" /\ rc'[w] = 429) \/ (pc'[w] = "await" /\ rc'[w] = rc[w])
    BY Ends DEF Written, SInv
  <1>3. QED
    BY <1>1, <1>2
    DEF Kept, Quiet, Closed, Serves, Fails, GoesOn, Idle, Stuck

-----------------------------------------------------------------------------
(* The actions of db_response.                                             *)

\* Input is read, or the end of the connection is found when all was read.
LEMMA Consumed ==
  ASSUME IInv, ConsumeInput
  PROVE  ~sock' => read' = read
  <1>1. read \in Nat /\ emitted \in Nat /\ read <= emitted /\ read' = emitted
    BY DEF ConsumeInput, IInv, TypeOK
  <1>2. sock' <=> read < emitted
    BY DEF ConsumeInput
  <1>3. QED
    BY <1>1, <1>2

LEMMA AwaitReplyServes == ASSUME NEW w \in Workers, SInv(w), AwaitReply(w) PROVE Kept(w)
  <1>1. /\ pc[w] = "await" /\ async' = async /\ parsed' = parsed
        /\ async = "busy" /\ parsed = read
    BY DEF AwaitReply, SInv, Quiet
  <1>2. \/ pc'[w] = "get" /\ rc'[w] = rc[w] /\ (~sock' => read' = read)
        \/ pc'[w] = "idle" /\ rc'[w] = 500 /\ read' = read
    BY Ends, Consumed DEF AwaitReply, SInv
  <1>3. QED
    BY <1>1, <1>2
    DEF Kept, Quiet, Closed, Serves, Fails, GoesOn, Idle, Stuck

LEMMA CheckWaitServes == ASSUME NEW w \in Workers, SInv(w), CheckWait(w) PROVE Kept(w)
  <1>1. /\ pc[w] = "check" /\ async' = async /\ parsed' = read /\ async = "busy"
    BY BusyParses DEF CheckWait
  <1>2. \/ pc'[w] = "check" /\ rc'[w] = rc[w] /\ (~sock' => read' = read)
        \/ pc'[w] = "idle" /\ rc'[w] = 500 /\ read' = read
    BY Ends, Consumed DEF CheckWait, SInv
  <1>3. QED
    BY <1>1, <1>2
    DEF Kept, Quiet, Closed, Serves, Fails, GoesOn, Idle, Stuck

LEMMA GetBlocksServes == ASSUME NEW w \in Workers, SInv(w), GetBlocks(w) PROVE Kept(w)
  <1>1. /\ pc[w] \in {"get", "after"} /\ pc' = pc /\ rc' = rc /\ sock' = sock /\ sock
        /\ async' = async
    BY DEF GetBlocks, local, Broken
  <1>2. QED
    BY <1>1 DEF Kept, Quiet, Closed, Serves, GoesOn, Idle, Stuck

LEMMA GetBrokenServes == ASSUME NEW w \in Workers, SInv(w), GetBroken(w) PROVE Kept(w)
  <1>1. /\ pc[w] \in {"get", "after"} /\ async' = "idle" /\ ~sock'
        /\ pc'[w] = "check" /\ rc'[w] = rc[w]
    BY Ends DEF GetBroken, SInv
  <1>2. res'[w].m = "error"
    BY DEF GetBroken, SInv, IInv, TypeOK
  <1>3. QED
    BY <1>1, <1>2 DEF Kept, Quiet, Closed, Serves, GoesOn, Idle, Stuck

\* On a closed connection there is no result to get.
LEMMA GetResultServes == ASSUME NEW w \in Workers, SInv(w), GetResult(w) PROVE Kept(w)
  <1>1. /\ pc[w] \in {"get", "after"} /\ sock' = sock
        /\ pc'[w] = "check" /\ rc'[w] = rc[w]
    BY Ends DEF GetResult, SInv
  <1>2. sock
    <2> SUFFICES ASSUME ~sock PROVE FALSE
      OBVIOUS
    <2>1. ParseInput("ready")
      BY DEF GetResult
    <2>2. (async = "busy" /\ parsed = read) \/ async = "idle"
      BY <1>1 DEF SInv, Closed
    <2>3. QED
      BY <2>1, <2>2, NothingToParse, NotBusyKeeps DEF SInv
  <1>3. QED
    BY <1>1, <1>2 DEF Kept, Quiet, Closed, Serves, GoesOn, Idle, Stuck

\* A 200 is given on an open connection.
LEMMA GetNullServes == ASSUME NEW w \in Workers, SInv(w), GetNull(w) PROVE Kept(w)
  <1>1. /\ ParseInput("idle") /\ async' = "idle" /\ sock' = sock /\ pc'[w] = "idle"
        /\ \/ pc[w] = "get" /\ rc'[w] = 200
           \/ pc[w] = "after" /\ rc'[w] = 400
    BY Ends DEF GetNull, SInv
  <1>2. pc[w] = "get" => sock
    <2> SUFFICES ASSUME pc[w] = "get", ~sock PROVE FALSE
      OBVIOUS
    <2>1. async = "busy" /\ parsed = read
      BY DEF SInv, Closed
    <2>2. QED
      BY <1>1, <2>1, NothingToParse DEF SInv
  <1>3. QED
    BY <1>1, <1>2
    DEF Kept, Quiet, Closed, Serves, Completes, Rejects, Idle, Stuck

\* On a closed connection, only the error that libpq made is checked.
LEMMA CheckResultServes == ASSUME NEW w \in Workers, SInv(w), CheckResult(w) PROVE Kept(w)
  <1>1. /\ pc[w] = "check" /\ sock' = sock /\ async' # "busy" /\ ParseInput(async')
        /\ rc'[w] = rc[w] /\ pc'[w] \in {"get", "after"}
    BY Ends DEF CheckResult, SInv, IInv, TypeOK
  <1>2. ~sock => pc'[w] = "after" /\ async' = "idle"
    <2> SUFFICES ASSUME ~sock PROVE pc'[w] = "after" /\ async' = "idle"
      OBVIOUS
    <2>1. async = "idle" /\ res[w].m = "error"
      BY <1>1, NothingToParse DEF SInv, Closed
    <2>2. async' = "idle"
      BY <1>1, <2>1, NotBusyKeeps
    <2>3. pc'[w] = "after"
      BY <2>1, Ends DEF CheckResult, SInv
    <2>4. QED
      BY <2>2, <2>3
  <1>3. QED
    BY <1>1, <1>2 DEF Kept, Quiet, Closed, Serves, GoesOn, Idle, Stuck

-----------------------------------------------------------------------------
\* The backend, and the end, leave libpq and the worker as they are.
LEMMA OthersServe ==
  ASSUME NEW w \in Workers, SInv(w), BackendEmit \/ BackendLost \/ UNCHANGED vars
  PROVE  Kept(w)
  <1>1. /\ pc' = pc /\ rc' = rc /\ res' = res /\ async' = async /\ sock' = sock
        /\ parsed' = parsed /\ read' = read
    BY DEF BackendEmit, BackendLost, vars, libpq, local
  <1>2. QED
    BY <1>1 DEF Kept, SInv, Quiet, Closed, Serves, GoesOn, Idle, Stuck

\* Every step of a session with one worker.
LEMMA StepServes ==
  ASSUME NEW w, Workers = {w}, SInv(w), [Next]_vars
  PROVE  SInv(w)' /\ Serves(w)
  <1>1. Kept(w)
    <2>1. CASE Begin(w) \/ Step(w)
      BY <2>1, BeginServes, SendBusyServes, SendRefusedServes, SendQueryServes,
         FlushServes, WrittenServes, AwaitReplyServes, CheckWaitServes, GetBlocksServes,
         GetBrokenServes, GetResultServes, GetNullServes, CheckResultServes DEF Step
    <2>2. CASE BackendEmit \/ BackendLost \/ UNCHANGED vars
      BY <2>2, OthersServe
    <2>3. QED
      BY <2>1, <2>2 DEF Next, Finished
  <1>2. IInv'
    BY StepInv DEF SInv
  <1>3. QED
    BY <1>1, <1>2 DEF SInv, Kept

LEMMA InitServes ==
  ASSUME NEW w, Workers = {w}, Init
  PROVE  SInv(w)
  <1>1. IInv
    BY InitInv
  <1>2. Quiet(w) /\ Closed(w)
    BY DEF Init, Quiet, Closed
  <1>3. QED
    BY <1>1, <1>2 DEF SInv

-----------------------------------------------------------------------------
(* The service's variables as DbExchange maps them.                        *)
serving == \E w \in Workers : pc[w] # "idle"
conn    == IF Wedged THEN "stuck" ELSE "clean"
answer  == IF \E w \in Workers : rc[w] = 200 THEN "complete"
           ELSE IF \E w \in Workers : rc[w] = 400 THEN "rejected"
           ELSE IF \E w \in Workers : rc[w] # 0 THEN "failed" ELSE "none"

\* They are those of the one worker.
LEMMA Mapped ==
  ASSUME NEW w, Workers = {w}
  PROVE  /\ serving = ~Idle(w)
         /\ conn = IF Stuck(w) THEN "stuck" ELSE "clean"
         /\ answer = IF rc[w] = 200 THEN "complete" ELSE IF rc[w] = 400 THEN "rejected"
                     ELSE IF rc[w] # 0 THEN "failed" ELSE "none"
         /\ Wedged <=> Stuck(w)
  <1>1. serving = ~Idle(w)
    BY DEF serving, Idle
  <1>2. Wedged <=> Stuck(w)
    BY DEF Wedged, Stuck
  <1>3. conn = IF Stuck(w) THEN "stuck" ELSE "clean"
    BY <1>2 DEF conn
  <1>4. /\ (\E v \in Workers : rc[v] = 200) <=> rc[w] = 200
        /\ (\E v \in Workers : rc[v] = 400) <=> rc[w] = 400
        /\ (\E v \in Workers : rc[v] # 0) <=> rc[w] # 0
    OBVIOUS
  <1>5. answer = IF rc[w] = 200 THEN "complete" ELSE IF rc[w] = 400 THEN "rejected"
                 ELSE IF rc[w] # 0 THEN "failed" ELSE "none"
    BY <1>4 DEF answer
  <1>6. QED
    BY <1>1, <1>2, <1>3, <1>5

LEMMA MappedNext ==
  ASSUME NEW w, Workers = {w}
  PROVE  /\ serving' = ~Idle(w)'
         /\ conn' = IF Stuck(w)' THEN "stuck" ELSE "clean"
         /\ answer' = IF rc'[w] = 200 THEN "complete" ELSE IF rc'[w] = 400 THEN "rejected"
                      ELSE IF rc'[w] # 0 THEN "failed" ELSE "none"
         /\ Wedged' <=> Stuck(w)'
  <1>1. serving' = ~Idle(w)'
    BY DEF serving, Idle
  <1>2. Wedged' <=> Stuck(w)'
    BY DEF Wedged, Stuck
  <1>3. conn' = IF Stuck(w)' THEN "stuck" ELSE "clean"
    BY <1>2 DEF conn
  <1>4. /\ (\E v \in Workers : rc'[v] = 200) <=> rc'[w] = 200
        /\ (\E v \in Workers : rc'[v] = 400) <=> rc'[w] = 400
        /\ (\E v \in Workers : rc'[v] # 0) <=> rc'[w] # 0
    OBVIOUS
  <1>5. answer' = IF rc'[w] = 200 THEN "complete" ELSE IF rc'[w] = 400 THEN "rejected"
                 ELSE IF rc'[w] # 0 THEN "failed" ELSE "none"
    BY <1>4 DEF answer
  <1>6. QED
    BY <1>1, <1>2, <1>3, <1>5

\* A step of the session is one of the service.
ServiceStep ==
  \/ /\ ~serving /\ serving' = TRUE /\ answer' = "none" /\ conn' = conn
  \/ /\ serving /\ conn = "clean" /\ serving' = FALSE
     /\ answer' = "complete" /\ conn' = conn
  \/ /\ serving /\ conn = "clean" /\ serving' = FALSE
     /\ answer' = "rejected" /\ conn' \in {"clean", "stuck"}
  \/ serving /\ serving' = FALSE /\ answer' = "failed" /\ conn' = "stuck"
  \/ serving' = serving /\ conn' = conn /\ answer' = answer

LEMMA ServesIsService ==
  ASSUME NEW w, Workers = {w}, Serves(w)
  PROVE  ServiceStep
  <1> DEFINE Answers(c) == IF c = 200 THEN "complete" ELSE IF c = 400 THEN "rejected"
                           ELSE IF c # 0 THEN "failed" ELSE "none"
  <1>1. /\ Idle(w) => serving = FALSE
        /\ ~Idle(w) => serving = TRUE
        /\ Idle(w)' => serving' = FALSE
        /\ ~Idle(w)' => serving' = TRUE
    BY Mapped, MappedNext, ZenonT(30)
  <1>2. /\ Stuck(w) => conn = "stuck"
        /\ ~Stuck(w) => conn = "clean"
        /\ Stuck(w)' => conn' = "stuck"
        /\ ~Stuck(w)' => conn' = "clean"
    BY Mapped, MappedNext
  <1>3. answer = Answers(rc[w]) /\ answer' = Answers(rc'[w])
    BY Mapped, MappedNext
  <1>4. /\ Answers(0) = "none" /\ Answers(200) = "complete" /\ Answers(400) = "rejected"
        /\ Answers(429) = "failed" /\ Answers(500) = "failed"
    OBVIOUS
  <1> HIDE DEF Answers
  <1>5. CASE Accepts(w)
    <2>1. serving = FALSE /\ serving' = TRUE
      BY <1>1, <1>5 DEF Accepts
    <2>2. answer' = "none"
      BY <1>3, <1>4, <1>5 DEF Accepts
    <2>3. conn' = conn
      BY <1>2, <1>5 DEF Accepts
    <2>4. QED
      BY <2>1, <2>2, <2>3 DEF ServiceStep
  <1>6. CASE Completes(w)
    <2>1. serving = TRUE /\ serving' = FALSE
      BY <1>1, <1>6 DEF Completes
    <2>2. answer' = "complete"
      BY <1>3, <1>4, <1>6 DEF Completes
    <2>3. conn = "clean" /\ conn' = "clean"
      BY <1>2, <1>6 DEF Completes
    <2>4. QED
      BY <2>1, <2>2, <2>3 DEF ServiceStep
  <1>7. CASE Rejects(w)
    <2>1. serving = TRUE /\ serving' = FALSE
      BY <1>1, <1>7 DEF Rejects
    <2>2. answer' = "rejected"
      BY <1>3, <1>4, <1>7 DEF Rejects
    <2>3. conn = "clean" /\ conn' \in {"clean", "stuck"}
      BY <1>2, <1>7 DEF Rejects
    <2>4. QED
      BY <2>1, <2>2, <2>3 DEF ServiceStep
  <1>8. CASE Fails(w)
    <2>1. serving = TRUE /\ serving' = FALSE
      BY <1>1, <1>8 DEF Fails
    <2>2. answer' = "failed"
      BY <1>3, <1>4, <1>8 DEF Fails
    <2>3. conn' = "stuck"
      BY <1>2, <1>8 DEF Fails
    <2>4. QED
      BY <2>1, <2>2, <2>3 DEF ServiceStep
  <1>9. CASE GoesOn(w)
    <2>1. serving' = serving /\ conn' = conn /\ answer' = answer
      BY <1>1, <1>2, <1>3, <1>9 DEF GoesOn
    <2>2. QED
      BY <2>1 DEF ServiceStep
  <1>10. QED
    BY <1>5, <1>6, <1>7, <1>8, <1>9 DEF Serves

(* The session implements QueryService, whose requests complete, are       *)
(* rejected or fail, and only fail after the first that did (db.c:77-253). *)
THEOREM SessionImplementsService ==
  ASSUME NEW w, Workers = {w}
  PROVE  Spec => ImplementsService
  <1>1. Init => Service!Init
    BY DEF Init, Service!Init, Wedged
  <1>2. SInv(w) /\ [Next]_vars =>
          SInv(w)' /\ [Service!Next]_<<serving, conn, answer>>
    <2> SUFFICES ASSUME SInv(w), [Next]_vars
                 PROVE  SInv(w)' /\ [Service!Next]_<<serving, conn, answer>>
      OBVIOUS
    <2>1. SInv(w)' /\ Serves(w)
      BY StepServes
    <2>2. QED
      BY <2>1, ServesIsService
      DEF ServiceStep, Service!Next, Service!Accept, Service!Complete, Service!Reject,
          Service!Fail, serving, conn, answer
  <1>3. Init => SInv(w)
    BY InitServes
  <1>4. QED
    BY <1>1, <1>2, <1>3, PTL DEF Spec, ImplementsService, Service!Spec, serving, conn, answer

-----------------------------------------------------------------------------
(* What a status says of the answer.  The strengthening: messages carry    *)
(* the request in hand from its query on; an error is the last result of   *)
(* its answer; none of the request's own was passed over; and once one was *)
(* seen there is nothing left to take but the end of the answer.           *)
Untaken(i) == i > parsed \/ (i = parsed /\ async \in {"ready", "copy"})
Errs(w)    == {i \in 1..Len(stream) : stream[i].q = req[w] /\ stream[i].m = "error"}
Waits(w)   == pc[w] \in {"flush", "await", "get", "check", "after"}

ErrorsEnd ==
  \A i \in 1..Len(stream) :
    stream[i].m = "error" => i + 1 <= Len(stream) /\ stream[i + 1].m = "ready"
CopyIsTold ==
  async \in {"ready", "copy"} => ((async = "copy") <=> (stream[parsed].m = "copy"))
Numbered(w) ==
  /\ req[w] = nreq /\ cur <= nreq
  /\ \A i \in 1..Len(stream) : stream[i].q <= nreq
Shared(w) == ErrorsEnd /\ CopyIsTold /\ Numbered(w)

Mine(w) ==
  /\ pc[w] # "idle" => rc[w] = 0
  /\ pc[w] = "send" => \A i \in 1..Len(stream) : stream[i].q # req[w]
  /\ Waits(w) => cur = req[w] /\ \A i \in 1..Len(stream) : Untaken(i) => stream[i].q = req[w]

\* No error of its own was taken, though one may be ready.
Clear(w) == \A i \in Errs(w) : i > parsed \/ (i = parsed /\ async = "ready")

\* One was, and only the end of the answer is left.
Refused(w) ==
  sock => Errs(w) # {} /\ (async = "idle" \/ (async = "busy" /\ parsed + 1 = Len(stream)))
Copying == sock => async = "copy"

Told(w) ==
  /\ pc[w] \in {"flush", "await", "get"} => Clear(w)
  /\ pc[w] = "check" /\ res[w].m \in {"row", "empty", "done", "command"} => Clear(w)
  /\ pc[w] = "check" /\ res[w].m = "error" => Refused(w)
  /\ pc[w] = "check" /\ res[w].m = "copy" => Copying
  /\ pc[w] = "after" => Refused(w) \/ Copying

Matches(w) ==
  /\ rc[w] = 200 => Errs(w) = {}
  /\ rc[w] = 400 => rep[w] = <<Punct("error")>> /\ (~sock \/ Errs(w) # {})

Report(w) == Mine(w) /\ Told(w) /\ Matches(w)
TInv(w) == SInv(w) /\ Shared(w) /\ Report(w)

\* What parsing passes by.
LEMMA ParsePasses ==
  ASSUME IInv, CopyIsTold, NEW a, ParseInput(a)
  PROVE  /\ parsed' \in Nat /\ parsed <= parsed' /\ parsed' <= Len(stream)
         /\ a \in AsyncValues
         /\ a \in {"ready", "copy"} => ((a = "copy") <=> (stream[parsed'].m = "copy"))
         /\ \A i \in (parsed + 1)..parsed' :
              stream[i].m = "error" => a = "ready" /\ i = parsed'
         /\ async # "busy" => a = async /\ parsed' = parsed
         /\ async = "busy" /\ a = "idle" => parsed' = Len(stream)
         /\ async = "busy" /\ a # "busy" => parsed' > parsed
         /\ async = "busy" /\ parsed + 1 = Len(stream) =>
              a = "idle" \/ (a = "busy" /\ parsed' = parsed)
<1>1. /\ parsed \in Nat /\ read \in Nat /\ emitted \in Nat /\ Len(stream) \in Nat
      /\ parsed <= read /\ read <= Len(stream)
  BY DEF IInv, TypeOK
<1>2. \A i \in 1..Len(stream) : i > parsed => ((stream[i].m = "ready") <=> (i = Len(stream)))
  BY DEF IInv, ConnectionInv
<1>3. CASE async # "busy"
  <2>1. a = async /\ parsed' = parsed
    BY <1>3, NotBusyKeeps
  <2> QED
    BY <1>1, <1>3, <2>1 DEF CopyIsTold, IInv, TypeOK
<1>4. CASE async = "busy" /\ a = "busy" /\ parsed' = read
           /\ \A i \in (parsed + 1)..read : stream[i].m = "part"
  <2>1. parsed + 1 = Len(stream) => parsed' = parsed
    BY <1>1, <1>2, <1>4
  <2> QED
    BY <1>1, <1>4, <2>1 DEF AsyncValues
<1>5. ASSUME async = "busy", NEW p \in (parsed + 1)..read,
             stream[p].m # "part", parsed' = p,
             \A i \in (parsed + 1)..(p - 1) : stream[i].m = "part",
             a = CASE stream[p].m = "ready" -> "idle"
                   [] stream[p].m = "copy"  -> "copy"
                   [] OTHER -> "ready"
      PROVE  /\ parsed' \in Nat /\ parsed <= parsed' /\ parsed' <= Len(stream)
             /\ a \in AsyncValues
             /\ a \in {"ready", "copy"} => ((a = "copy") <=> (stream[parsed'].m = "copy"))
             /\ \A i \in (parsed + 1)..parsed' :
                  stream[i].m = "error" => a = "ready" /\ i = parsed'
             /\ a = "idle" => parsed' = Len(stream)
             /\ parsed' > parsed
             /\ parsed + 1 = Len(stream) => a = "idle"
  <2>1. (a = "idle" /\ stream[p].m = "ready") \/ (a = "copy" /\ stream[p].m = "copy")
          \/ (a = "ready" /\ stream[p].m \notin {"ready", "copy"})
    BY <1>5
  <2>2. p \in 1..Len(stream) /\ p > parsed /\ p \in Nat
    BY <1>1
  <2>3. (stream[p].m = "ready") <=> (p = Len(stream))
    BY <1>2, <2>2
  <2>4. \A i \in (parsed + 1)..p : stream[i].m = "error" => i = p
    BY <1>1, <1>5
  <2> QED
    BY <1>1, <1>5, <2>1, <2>2, <2>3, <2>4 DEF AsyncValues
<1> QED
  BY <1>3, <1>4, <1>5 DEF ParseInput

\* An answer is put at the end of the stream, as answers are.
Grown(q) ==
  /\ stream' \in Seq(Message) /\ Len(stream) <= Len(stream')
  /\ \A i \in 1..Len(stream) : stream'[i] = stream[i]
  /\ \A i \in 1..Len(stream') : i > Len(stream) => stream'[i].q = q
  /\ ErrorsEnd'

LEMMA SameIsGrown ==
  ASSUME IInv, ErrorsEnd, stream' = stream, NEW q
  PROVE  Grown(q)
<1>1. stream \in Seq(Message) /\ Len(stream) \in Nat
  BY DEF IInv, TypeOK, Message
<1> QED
  BY <1>1 DEF Grown, ErrorsEnd

LEMMA DeliverGrows ==
  ASSUME IInv, ErrorsEnd, NEW q \in 0..MaxRequests, Deliver(q)
  PROVE  Grown(q)
<1>1. stream \in Seq(Message)
  BY DEF IInv, TypeOK, Message
<1>2. CASE stream' = stream
  BY <1>2, SameIsGrown
<1>3. ASSUME NEW s \in Replies, stream' = stream \o [i \in 1..Len(s) |-> [q |-> q, m |-> s[i]]]
      PROVE  Grown(q)
  <2>1. WellEnded(s) /\ s \in Seq(Kind) /\ Len(s) \in Nat
    BY RepliesAssumption DEF WellEnded
  <2> DEFINE t == [i \in 1..Len(s) |-> [q |-> q, m |-> s[i]]]
  <2>2. t \in Seq(Message) /\ Len(t) = Len(s)
    BY <2>1 DEF Message
  <2>3. \A i \in 1..Len(s) : t[i].q = q /\ t[i].m = s[i]
    OBVIOUS
  <2>4. stream' = stream \o t
    BY <1>3
  <2> HIDE DEF t
  <2>5. /\ stream' \in Seq(Message) /\ Len(stream') = Len(stream) + Len(s)
        /\ Len(stream) \in Nat
        /\ \A i \in 1..(Len(stream) + Len(s)) :
             stream'[i] = IF i <= Len(stream) THEN stream[i] ELSE t[i - Len(stream)]
    <3>1. /\ stream \o t \in Seq(Message)
          /\ Len(stream \o t) = Len(stream) + Len(t)
          /\ \A i \in 1..(Len(stream) + Len(t)) :
               (stream \o t)[i] = IF i <= Len(stream) THEN stream[i] ELSE t[i - Len(stream)]
      BY <1>1, <2>2, ConcatProperties, Zenon
    <3>2. Len(stream) \in Nat
      BY <1>1
    <3> QED
      BY <2>2, <2>4, <3>1, <3>2, Zenon
  <2>6. \A i \in 1..Len(stream) : stream'[i] = stream[i]
    BY <2>1, <2>5
  <2>7. \A i \in 1..Len(stream') : i > Len(stream) =>
          stream'[i] = t[i - Len(stream)] /\ i - Len(stream) \in 1..Len(s)
    BY <2>1, <2>5
  <2>8. \A i \in 1..Len(stream) :
          stream'[i].m = "error" => i + 1 <= Len(stream') /\ stream'[i + 1].m = "ready"
    BY <2>1, <2>5, <2>6 DEF ErrorsEnd
  <2>9. ASSUME NEW i \in 1..Len(stream'), i > Len(stream), stream'[i].m = "error"
        PROVE  i + 1 <= Len(stream') /\ stream'[i + 1].m = "ready"
    <3> DEFINE k == i - Len(stream)
    <3>1. k \in 1..Len(s) /\ s[k] = "error"
      BY <2>3, <2>7, <2>9
    <3>2. k + 1 = Len(s) /\ s[k + 1] = "ready" /\ k + 1 \in 1..Len(s)
      BY <2>1, <3>1, SMTT(30) DEF WellEnded
    <3>3. i + 1 \in 1..Len(stream') /\ i + 1 > Len(stream) /\ (i + 1) - Len(stream) = k + 1
      BY <2>1, <2>5, <3>2, <2>9
    <3>4. stream'[i + 1] = t[k + 1]
      BY <2>7, <3>3
    <3> QED
      BY <2>3, <3>2, <3>3, <3>4, <2>5
  <2>10. ErrorsEnd'
    BY <2>5, <2>8, <2>9 DEF ErrorsEnd
  <2> QED
    BY <2>3, <2>5, <2>6, <2>7, <2>10 DEF Grown
<1> QED
  BY <1>2, <1>3 DEF Deliver

LEMMA PushGrows ==
  ASSUME IInv, ErrorsEnd, Push
  PROVE  Grown(cur) /\ (out = 0 => stream' = stream)
<1>1. cur \in 0..MaxRequests /\ out \in Nat
  BY DEF IInv, TypeOK
<1> QED
  BY <1>1, DeliverGrows, SameIsGrown DEF Push

\* While something is unsent, there is nothing to parse.
LEMMA UnsentIsAll == ASSUME IInv, out > 0 PROVE parsed = Len(stream)
  BY DEF IInv, ConnectionInv

-----------------------------------------------------------------------------
\* A failed request is reported as such.
LEMMA FailureReports ==
  ASSUME NEW w \in Workers, pc'[w] = "idle", rc'[w] \in {429, 500}
  PROVE  Report(w)'
  BY DEF Report, Mine, Told, Matches, Waits

\* What of the shared part a step keeps that only parses.
LEMMA ParseKeepsShared ==
  ASSUME NEW w \in Workers, TInv(w), NEW a, ParseInput(a), async' = a \/ async' = "busy",
         UNCHANGED <<stream, cur, nreq, req>>
  PROVE  Shared(w)'
  BY ParsePasses DEF TInv, SInv, Shared, ErrorsEnd, CopyIsTold, Numbered

LEMMA BeginReports == ASSUME NEW w \in Workers, TInv(w), Begin(w) PROVE Shared(w)' /\ Report(w)'
<1>1. /\ stream' = stream /\ cur' = cur /\ async' = async /\ parsed' = parsed
      /\ nreq' = nreq + 1 /\ req'[w] = nreq + 1 /\ rc'[w] = 0 /\ pc'[w] = "send"
  BY DEF Begin, TInv, SInv, IInv, TypeOK, libpq, backend
<1>2. nreq \in Nat /\ cur \in Nat /\ \A i \in 1..Len(stream) : stream[i].q \in Nat
  <2>1. stream \in Seq(Message)
    BY DEF TInv, SInv, IInv, TypeOK, Message
  <2>2. \A i \in 1..Len(stream) : stream[i] \in Message
    BY <2>1
  <2>3. nreq \in Nat /\ cur \in Nat
    BY BoundsAssumption DEF TInv, SInv, IInv, TypeOK
  <2> QED
    BY <2>2, <2>3, BoundsAssumption DEF Message
<1>3. Shared(w)'
  BY <1>1, <1>2 DEF TInv, Shared, ErrorsEnd, CopyIsTold, Numbered
<1>4. \A i \in 1..Len(stream) : stream[i].q # req'[w]
  BY <1>1, <1>2 DEF TInv, Shared, Numbered
<1> QED
  BY <1>1, <1>3, <1>4 DEF Report, Mine, Told, Matches, Waits

LEMMA SendBusyReports ==
  ASSUME NEW w \in Workers, TInv(w), SendBusy(w) PROVE Shared(w)' /\ Report(w)'
<1>1. /\ ParseInput("busy") /\ async' = "busy" /\ pc[w] = "send"
      /\ stream' = stream /\ cur' = cur /\ nreq' = nreq /\ req' = req
  BY DEF SendBusy, backend
<1>2. Shared(w)'
  BY <1>1, ParseKeepsShared
<1>3. (pc'[w] = "idle" /\ rc'[w] = 500) \/ (pc'[w] = "send" /\ rc'[w] = rc[w])
  BY Ends DEF SendBusy, TInv, SInv
<1>4. CASE pc'[w] = "send" /\ rc'[w] = rc[w]
  <2>1. rc[w] = 0 /\ \A i \in 1..Len(stream) : stream[i].q # req[w]
    BY <1>1 DEF TInv, Report, Mine
  <2>2. Mine(w)'
    BY <1>1, <1>4, <2>1 DEF Mine, Waits
  <2>3. Told(w)' /\ Matches(w)'
    BY <1>4, <2>1 DEF Told, Matches
  <2> QED
    BY <1>2, <2>2, <2>3 DEF Report
<1> QED
  BY <1>2, <1>3, <1>4, FailureReports

LEMMA SendRefusedReports ==
  ASSUME NEW w \in Workers, TInv(w), SendRefused(w) PROVE Shared(w)' /\ Report(w)'
<1>1. /\ ParseInput(async') /\ stream' = stream /\ cur' = cur /\ nreq' = nreq /\ req' = req
  BY DEF SendRefused, backend
<1>2. pc'[w] = "idle" /\ rc'[w] = 500
  BY Ends DEF SendRefused, TInv, SInv
<1> QED
  BY <1>1, <1>2, ParseKeepsShared, FailureReports

LEMMA SendQueryReports ==
  ASSUME NEW w \in Workers, TInv(w), SendQuery(w) PROVE Shared(w)' /\ Report(w)'
<1>1. /\ pc[w] = "send" /\ ParseInput("idle") /\ async' = "busy" /\ cur' = req[w]
      /\ nreq' = nreq /\ req' = req /\ pc'[w] = "flush" /\ rc'[w] = rc[w]
      /\ Deliver(req[w]) \/ stream' = stream
  BY Ends DEF SendQuery, TInv, SInv
<1>2. req[w] \in 0..MaxRequests /\ Len(stream) \in Nat
  BY DEF TInv, SInv, IInv, TypeOK
<1>3. Grown(req[w])
  BY <1>1, <1>2, DeliverGrows, SameIsGrown DEF TInv, SInv, Shared
<1>4. async = "idle" /\ parsed' = Len(stream)
  BY <1>1, NothingToParse, NotBusyKeeps
  DEF TInv, SInv, Quiet, IInv, ConnectionInv, IdleMeansDrained, SendQuery
<1>5. \A i \in 1..Len(stream') :
        stream'[i].q <= nreq /\ (i <= Len(stream) => stream'[i].q # req[w])
          /\ (i > Len(stream) => stream'[i].q = req[w])
  BY <1>1, <1>2, <1>3 DEF Grown, TInv, Shared, Numbered, Report, Mine, IInv, TypeOK
<1>6. Shared(w)'
  BY <1>1, <1>2, <1>3, <1>5 DEF Grown, TInv, Shared, Numbered, CopyIsTold
<1>7. Mine(w)'
  BY <1>1, <1>2, <1>4, <1>5 DEF Mine, TInv, Report, Untaken
<1>8. Clear(w)'
  BY <1>1, <1>2, <1>4, <1>5 DEF Clear, Errs
<1>9. Told(w)' /\ Matches(w)'
  BY <1>1, <1>7, <1>8 DEF Told, Matches, Mine
<1> QED
  BY <1>6, <1>7, <1>9 DEF Report

\* While libpq is busy, all that can be added is the answer asked for, and
\* what is parsed holds no result.
LEMMA BusyReports ==
  ASSUME NEW w \in Workers, TInv(w), Waits(w), Grown(cur), out = 0 => stream' = stream,
         async = "busy", async' = "busy", parsed' = parsed \/ ParseInput("busy"),
         UNCHANGED <<cur, nreq, req, res>>, sock' => sock, rc'[w] = rc[w],
         pc'[w] = pc[w] \/ {pc[w], pc'[w]} \subseteq {"flush", "await", "get"}
  PROVE  Shared(w)' /\ Report(w)'
<1>1. /\ parsed \in Nat /\ out \in Nat /\ Len(stream) \in Nat /\ parsed <= Len(stream)
      /\ Len(stream') \in Nat /\ Len(stream) <= Len(stream')
  BY DEF TInv, SInv, IInv, TypeOK, Grown
<1>2. /\ parsed' \in Nat /\ parsed <= parsed' /\ parsed' <= Len(stream)
      /\ \A i \in (parsed + 1)..parsed' : stream[i].m # "error"
      /\ parsed + 1 = Len(stream) => parsed' = parsed
  <2>1. CASE parsed' = parsed
    BY <1>1, <2>1
  <2>2. CASE ParseInput("busy")
    BY <1>1, <2>2, ParsePasses DEF TInv, SInv, Shared
  <2> QED
    BY <2>1, <2>2
<1>3. \A i \in 1..Len(stream') :
        /\ i <= Len(stream) => i \in 1..Len(stream) /\ stream'[i] = stream[i]
        /\ i > Len(stream) => stream'[i].q = cur /\ i > parsed'
  BY <1>1, <1>2 DEF Grown
<1>4. \A i \in 1..Len(stream') : i <= Len(stream) \/ i > Len(stream)
  BY <1>1
<1>5. cur = req[w] /\ rc[w] = 0 /\ cur <= nreq
  BY DEF TInv, Report, Mine, Waits, Shared, Numbered
<1>6. \A i \in 1..Len(stream') : stream'[i].q <= nreq
  BY <1>3, <1>4, <1>5 DEF TInv, Shared, Numbered
<1>7. Shared(w)'
  BY <1>6 DEF Grown, TInv, Shared, Numbered, CopyIsTold
<1>8. Mine(w)'
  <2>1. \A i \in 1..Len(stream') : i > parsed' => stream'[i].q = req[w]
    BY <1>1, <1>2, <1>3, <1>4, <1>5 DEF TInv, Report, Mine, Untaken
  <2> QED
    BY <1>1, <1>5, <2>1 DEF Mine, Untaken, Waits
<1>9. Clear(w) => Clear(w)'
  <2> SUFFICES ASSUME Clear(w), NEW i \in Errs(w)' PROVE i > parsed'
    BY DEF Clear
  <2>1. i \in 1..Len(stream') /\ stream'[i].q = req[w] /\ stream'[i].m = "error" /\ i \in Nat
    BY DEF Errs
  <2>2. CASE i <= Len(stream)
    <3>1. i \in Errs(w)
      BY <1>3, <2>1, <2>2 DEF Errs
    <3>2. i > parsed
      BY <3>1 DEF Clear
    <3> QED
      BY <1>1, <1>2, <2>1, <3>1, <3>2 DEF Errs
  <2> QED
    BY <1>3, <1>4, <2>1, <2>2
<1>10. Refused(w) => Refused(w)'
  <2> SUFFICES ASSUME Refused(w), sock
               PROVE  Errs(w)' # {} /\ parsed' + 1 = Len(stream')
    BY DEF Refused
  <2>1. Errs(w) # {} /\ parsed + 1 = Len(stream)
    BY DEF Refused
  <2>2. out = 0
    BY <1>1, <2>1, UnsentIsAll DEF TInv, SInv
  <2> QED
    BY <1>2, <2>1, <2>2 DEF Errs
<1>11. Copying => Copying'
  BY DEF Copying
<1>12. Told(w)'
  BY <1>9, <1>10, <1>11 DEF TInv, Report, Told
<1> QED
  BY <1>5, <1>7, <1>8, <1>12 DEF Report, Matches

LEMMA FlushReports == ASSUME NEW w \in Workers, TInv(w), Flush(w) PROVE Shared(w)' /\ Report(w)'
<1>1. /\ pc[w] = "flush" /\ async = "busy" /\ async' = async /\ parsed' = parsed
      /\ UNCHANGED <<cur, nreq, req, res>>
  BY DEF Flush, TInv, SInv, Quiet
<1>2. \/ (\E c \in {429, 500} : Fail(w, c)) /\ UNCHANGED stream
      \/ sock /\ Push /\ Goto(w, "flush") /\ UNCHANGED sock
  BY DEF Flush
<1>3. Grown(cur) /\ (out = 0 => stream' = stream)
  BY <1>2, PushGrows, SameIsGrown DEF TInv, SInv, Shared
<1>4. CASE \E c \in {429, 500} : Fail(w, c)
  <2>1. pc'[w] = "idle" /\ rc'[w] \in {429, 500}
    BY <1>4, Ends DEF TInv, SInv
  <2>2. \A i \in 1..Len(stream') : stream'[i].q <= nreq
    <3>1. /\ \A i \in 1..Len(stream) : stream[i].q <= nreq
          /\ cur <= nreq
      BY DEF TInv, Shared, Numbered
    <3>2. stream \in Seq(Message) /\ nreq \in Nat
      BY DEF TInv, SInv, IInv, TypeOK, Message
    <3> QED
      BY <1>3, <3>1, <3>2 DEF Grown
  <2> QED
    BY <1>1, <1>3, <2>1, <2>2, FailureReports
    DEF Grown, TInv, Shared, Numbered, CopyIsTold
<1>5. CASE Push /\ Goto(w, "flush") /\ UNCHANGED sock
  <2>1. pc'[w] = "flush" /\ rc'[w] = rc[w]
    BY <1>5, Ends DEF TInv, SInv
  <2> QED
    BY <1>1, <1>3, <1>5, <2>1, BusyReports DEF Waits
<1> QED
  BY <1>2, <1>4, <1>5

LEMMA WrittenReports ==
  ASSUME NEW w \in Workers, TInv(w), Written(w) PROVE Shared(w)' /\ Report(w)'
<1>1. /\ pc[w] = "flush" /\ async = "busy" /\ UNCHANGED <<libpq, backend, nreq, req, res>>
  BY DEF Written, TInv, SInv, Quiet
<1>2. (pc'[w] = "idle" /\ rc'[w] = 429) \/ (pc'[w] = "await" /\ rc'[w] = rc[w])
  BY Ends DEF Written, TInv, SInv
<1>3. CASE pc'[w] = "idle" /\ rc'[w] = 429
  BY <1>1, <1>3, FailureReports
  DEF TInv, Shared, ErrorsEnd, CopyIsTold, Numbered, libpq, backend
<1>4. CASE pc'[w] = "await" /\ rc'[w] = rc[w]
  <2>1. Grown(cur)
    BY <1>1, SameIsGrown DEF TInv, SInv, Shared, backend
  <2> QED
    BY <1>1, <1>4, <2>1, BusyReports DEF libpq, backend, Waits
<1> QED
  BY <1>2, <1>3, <1>4

LEMMA AwaitReplyReports ==
  ASSUME NEW w \in Workers, TInv(w), AwaitReply(w) PROVE Shared(w)' /\ Report(w)'
<1>1. /\ pc[w] = "await" /\ async = "busy" /\ async' = async /\ parsed' = parsed
      /\ UNCHANGED <<cur, nreq, req, res>>
  BY DEF AwaitReply, TInv, SInv, Quiet
<1>2. CASE ConsumeInput /\ Goto(w, "get")
  <2>1. Push /\ sock /\ pc'[w] = "get" /\ rc'[w] = rc[w]
    BY <1>2, Ends DEF ConsumeInput, Readable, TInv, SInv
  <2>2. Grown(cur) /\ (out = 0 => stream' = stream)
    BY <2>1, PushGrows DEF TInv, SInv, Shared
  <2> QED
    BY <1>1, <2>1, <2>2, BusyReports DEF Waits
<1>3. CASE Fail(w, 500) /\ stream' = stream
  <2>1. pc'[w] = "idle" /\ rc'[w] = 500
    BY <1>3, Ends DEF TInv, SInv
  <2> QED
    BY <1>1, <1>3, <2>1, FailureReports, ZenonT(30) DEF TInv, Shared, ErrorsEnd, CopyIsTold, Numbered
<1> QED
  BY <1>2, <1>3 DEF AwaitReply

LEMMA CheckWaitReports ==
  ASSUME NEW w \in Workers, TInv(w), CheckWait(w) PROVE Shared(w)' /\ Report(w)'
<1>1. /\ pc[w] = "check" /\ ParseInput("busy") /\ async = "busy" /\ async' = async
      /\ UNCHANGED <<cur, nreq, req, res>>
  BY BusyParses DEF CheckWait
<1>2. CASE ConsumeInput /\ Goto(w, "check")
  <2>1. Push /\ sock /\ pc'[w] = "check" /\ rc'[w] = rc[w]
    BY <1>2, Ends DEF ConsumeInput, Readable, TInv, SInv
  <2>2. Grown(cur) /\ (out = 0 => stream' = stream)
    BY <2>1, PushGrows DEF TInv, SInv, Shared
  <2> QED
    BY <1>1, <2>1, <2>2, BusyReports DEF Waits
<1>3. CASE Fail(w, 500) /\ stream' = stream
  <2>1. pc'[w] = "idle" /\ rc'[w] = 500
    BY <1>3, Ends DEF TInv, SInv
  <2> QED
    BY <1>1, <1>3, <2>1, FailureReports, ParseKeepsShared
<1> QED
  BY <1>2, <1>3 DEF CheckWait

LEMMA GetBlocksReports ==
  ASSUME NEW w \in Workers, TInv(w), GetBlocks(w) PROVE Shared(w)' /\ Report(w)'
<1>1. /\ pc[w] \in {"get", "after"} /\ ParseInput("busy") /\ async = "busy" /\ async' = async
      /\ UNCHANGED <<cur, nreq, req, res, sock, pc, rc>>
  BY BusyParses DEF GetBlocks, local
<1>2. (out > 0 /\ Deliver(cur)) \/ stream' = stream
  BY DEF GetBlocks
<1>3. cur \in 0..MaxRequests /\ out \in Nat
  BY DEF TInv, SInv, IInv, TypeOK
<1>4. Grown(cur) /\ (out = 0 => stream' = stream)
  BY <1>2, <1>3, DeliverGrows, SameIsGrown DEF TInv, SInv, Shared
<1> QED
  BY <1>1, <1>4, BusyReports DEF Waits

-----------------------------------------------------------------------------
(* The steps that take a result.                                           *)

\* What parsing leaves to take is the request's own.
LEMMA ParseKeepsMine ==
  ASSUME NEW w \in Workers, TInv(w), Waits(w), NEW a, ParseInput(a)
  PROVE  \A i \in 1..Len(stream) :
           i > parsed' \/ (i = parsed' /\ a \in {"ready", "copy"}) => stream[i].q = req[w]
<1>1. parsed \in Nat /\ parsed' \in Nat /\ parsed <= parsed'
  BY ParsePasses DEF TInv, SInv, Shared, IInv, TypeOK
<1>2. async = "busy" /\ a # "busy" => parsed' > parsed
  BY <1>1, ParsePasses DEF TInv, SInv, Shared
<1>3. async # "busy" => a = async /\ parsed' = parsed
  BY NotBusyKeeps
<1> QED
  BY <1>1, <1>2, <1>3 DEF TInv, Report, Mine, Untaken

LEMMA GetBrokenReports ==
  ASSUME NEW w \in Workers, TInv(w), GetBroken(w) PROVE Shared(w)' /\ Report(w)'
<1>1. PICK a : ParseInput(a)
  BY DEF GetBroken
<1>2. /\ pc[w] \in {"get", "after"} /\ async' = "idle" /\ ~sock' /\ pc'[w] = "check"
      /\ rc'[w] = rc[w] /\ res'[w].m = "error" /\ UNCHANGED <<cur, stream, nreq, req>>
  BY Ends DEF GetBroken, backend, TInv, SInv, IInv, TypeOK
<1>3. Shared(w)'
  BY <1>2 DEF TInv, Shared, ErrorsEnd, CopyIsTold, Numbered
<1>4. \A i \in 1..Len(stream) : i > parsed' => stream[i].q = req[w]
  BY <1>1, <1>2, ParseKeepsMine DEF Waits
<1>5. Mine(w)'
  BY <1>2, <1>4 DEF Mine, TInv, Report, Untaken, Waits
<1> QED
  BY <1>2, <1>3, <1>5 DEF Report, Mine, Told, Matches, Refused

LEMMA GetResultReports ==
  ASSUME NEW w \in Workers, TInv(w), GetResult(w) PROVE Shared(w)' /\ Report(w)'
<1>1. /\ pc[w] \in {"get", "after"} /\ pc'[w] = "check" /\ rc'[w] = rc[w]
      /\ res'[w] = stream[parsed'] /\ UNCHANGED <<cur, stream, nreq, req, sock>>
  BY Ends DEF GetResult, backend, TInv, SInv, IInv, TypeOK
<1>2. Waits(w) /\ rc[w] = 0 /\ cur = req[w]
  BY <1>1 DEF Waits, TInv, Report, Mine
<1>3. parsed \in Nat /\ Len(stream) \in Nat
  BY DEF TInv, SInv, IInv, TypeOK
<1>4. CASE ParseInput("ready") /\ async' = "busy"
  <2>1. /\ parsed' \in Nat /\ parsed <= parsed' /\ parsed' <= Len(stream)
        /\ stream[parsed'].m # "copy"
        /\ \A i \in (parsed + 1)..parsed' : stream[i].m = "error" => i = parsed'
        /\ async # "busy" => async = "ready" /\ parsed' = parsed
    BY <1>4, ParsePasses DEF TInv, SInv, Shared
  <2>2. parsed' \in 1..Len(stream)
    BY <1>4, <2>1, ParseFacts DEF TInv, SInv
  <2>3. \A i \in 1..Len(stream) : i >= parsed' => stream[i].q = req[w]
    BY <1>2, <1>3, <1>4, <2>1, ParseKeepsMine
  <2>4. Shared(w)'
    BY <1>1, <1>4, ParseKeepsShared
  <2>5. Mine(w)'
    BY <1>1, <1>2, <1>3, <1>4, <2>1, <2>3 DEF Mine, Untaken, Waits
  <2>6. pc[w] = "get"
    <3> SUFFICES ASSUME pc[w] = "after" PROVE FALSE
      BY <1>1
    <3>1. sock
      BY <1>4, NotBusyKeeps DEF TInv, SInv, Closed
    <3>2. Refused(w) \/ Copying
      BY DEF TInv, Report, Told
    <3>3. async = "idle" \/ (async = "busy" /\ parsed + 1 = Len(stream)) \/ async = "copy"
      BY <3>1, <3>2 DEF Refused, Copying
    <3> QED
      BY <1>4, <3>3, ParsePasses DEF TInv, SInv, Shared
  <2>7. Clear(w)
    BY <2>6 DEF TInv, Report, Told
  <2>8. CASE res'[w].m = "error"
    <3>1. parsed' \in Errs(w)'
      BY <1>1, <2>2, <2>3, <2>8 DEF Errs
    <3>2. parsed' + 1 \in 1..Len(stream) /\ stream[parsed' + 1].m = "ready"
      <4>1. ErrorsEnd /\ stream[parsed'].m = "error"
        BY <1>1, <2>8 DEF TInv, Shared
      <4>2. PICK n : n = parsed'
        OBVIOUS
      <4>3. n \in 1..Len(stream) /\ stream[n].m = "error"
        BY <2>2, <4>1, <4>2
      <4>4. n + 1 <= Len(stream) /\ stream[n + 1].m = "ready"
        BY <4>1, <4>3 DEF ErrorsEnd
      <4>5. n + 1 \in 1..Len(stream)
        BY <1>3, <4>3, <4>4
      <4> QED
        BY <4>2, <4>4, <4>5
    <3>3. parsed' + 1 = Len(stream)
      BY <1>3, <2>1, <3>2 DEF TInv, SInv, IInv, ConnectionInv
    <3>4. Refused(w)'
      BY <1>1, <1>4, <3>1, <3>3 DEF Refused
    <3> QED
      BY <1>1, <1>2, <2>4, <2>5, <2>8, <3>4 DEF Report, Told, Matches
  <2>9. CASE res'[w].m # "error"
    <3>1. \A i \in Errs(w) : i > parsed'
      <4> SUFFICES ASSUME NEW i \in Errs(w), ~(i > parsed') PROVE FALSE
        OBVIOUS
      <4>1. i \in 1..Len(stream) /\ stream[i].m = "error"
        BY DEF Errs
      <4>2. i # parsed'
        BY <1>1, <2>9, <4>1
      <4>3. ~(i > parsed)
        BY <1>3, <2>1, <4>1, <4>2
      <4>4. i = parsed /\ async = "ready"
        BY <2>7, <4>3 DEF Clear
      <4> QED
        BY <2>1, <4>2, <4>4
    <3>2. Clear(w)'
      BY <1>1, <3>1 DEF Clear, Errs
    <3> QED
      BY <1>1, <1>2, <2>1, <2>4, <2>5, <2>9, <3>2 DEF Report, Told, Matches
  <2> QED
    BY <2>8, <2>9
<1>5. CASE sock /\ ParseInput("copy") /\ async' = "copy"
  <2>1. res'[w].m = "copy"
    BY <1>1, <1>5, ParsePasses DEF TInv, SInv, Shared
  <2>2. Shared(w)'
    BY <1>1, <1>5, ParseKeepsShared
  <2>3. Mine(w)'
    BY <1>1, <1>2, <1>5, ParseKeepsMine DEF Mine, Untaken, Waits
  <2> QED
    BY <1>1, <1>2, <1>5, <2>1, <2>2, <2>3 DEF Report, Told, Matches, Copying
<1> QED
  BY <1>4, <1>5 DEF GetResult

LEMMA GetNullReports ==
  ASSUME NEW w \in Workers, TInv(w), GetNull(w) PROVE Shared(w)' /\ Report(w)'
<1>1. /\ ParseInput("idle") /\ async' = "idle" /\ pc'[w] = "idle"
      /\ UNCHANGED <<cur, stream, nreq, req, sock>>
      /\ \/ pc[w] = "get" /\ rc'[w] = 200
         \/ pc[w] = "after" /\ rc'[w] = 400 /\ rep'[w] = <<Punct("error")>>
  <2>1. \A c, r : Answer(w, c, r) => pc'[w] = "idle" /\ rc'[w] = c /\ rep'[w] = r
    BY DEF Answer, TInv, SInv, IInv, TypeOK
  <2> QED
    BY <2>1 DEF GetNull, backend
<1>2. /\ parsed \in Nat /\ Len(stream) \in Nat /\ parsed' <= Len(stream) /\ parsed' \in Nat
      /\ \A i \in (parsed + 1)..parsed' : stream[i].m # "error"
      /\ async # "busy" => async = "idle" /\ parsed' = parsed
      /\ async = "busy" => parsed' = Len(stream)
  <2>1. parsed \in Nat /\ Len(stream) \in Nat
    BY DEF TInv, SInv, IInv, TypeOK
  <2> QED
    BY <1>1, <2>1, ParsePasses DEF TInv, SInv, Shared
<1>3. CASE pc[w] = "get"
  <2>1. sock
    <3> SUFFICES ASSUME ~sock PROVE FALSE
      OBVIOUS
    <3>1. async = "busy" /\ parsed = read
      BY <1>3 DEF TInv, SInv, Closed
    <3> QED
      BY <1>1, <3>1, NothingToParse DEF TInv, SInv
  <2>2. parsed' = Len(stream)
    BY <1>2, <2>1 DEF TInv, SInv, IInv, ConnectionInv, IdleMeansDrained
  <2>3. Clear(w)
    BY <1>3 DEF TInv, Report, Told
  <2>4. Errs(w) = {}
    <3> SUFFICES ASSUME NEW i \in Errs(w) PROVE FALSE
      OBVIOUS
    <3>1. i \in 1..Len(stream) /\ stream[i].m = "error"
      BY DEF Errs
    <3>2. i > parsed
      BY <1>2, <2>3 DEF Clear
    <3> QED
      BY <1>2, <2>2, <3>1, <3>2
  <2>5. Matches(w)'
    BY <1>1, <1>3, <2>4 DEF Matches, Errs
  <2> QED
    BY <1>1, <2>5, ParseKeepsShared DEF Report, Mine, Told, Waits
<1>4. CASE pc[w] = "after"
  <2>1. ~sock \/ Errs(w) # {}
    BY <1>2, <1>4 DEF TInv, Report, Told, Refused, Copying
  <2>2. Matches(w)'
    BY <1>1, <1>4, <2>1 DEF Matches, Errs
  <2> QED
    BY <1>1, <2>2, ParseKeepsShared DEF Report, Mine, Told, Waits
<1> QED
  BY <1>1, <1>3, <1>4

LEMMA CheckResultReports ==
  ASSUME NEW w \in Workers, TInv(w), CheckResult(w) PROVE Shared(w)' /\ Report(w)'
<1>1. /\ pc[w] = "check" /\ ParseInput(async') /\ async' # "busy"
      /\ UNCHANGED <<cur, stream, nreq, req, sock>>
      /\ rc'[w] = rc[w]
      /\ \/ res[w].m \in {"row", "empty", "done", "command"} /\ pc'[w] = "get"
         \/ res[w].m \in {"error", "copy"} /\ pc'[w] = "after"
  BY Ends DEF CheckResult, backend, TInv, SInv, IInv, TypeOK
<1>2. Waits(w) /\ rc[w] = 0 /\ cur = req[w]
  BY <1>1 DEF Waits, TInv, Report, Mine
<1>3. Shared(w)'
  BY <1>1, ParseKeepsShared
<1>4. Mine(w)'
  BY <1>1, <1>2, ParseKeepsMine DEF Mine, Untaken, Waits
<1>5. /\ parsed \in Nat /\ parsed' \in Nat /\ Len(stream) \in Nat
      /\ \A i \in (parsed + 1)..parsed' : stream[i].m = "error" => async' = "ready" /\ i = parsed'
      /\ async # "busy" => async' = async /\ parsed' = parsed
      /\ async = "busy" /\ parsed + 1 = Len(stream) => async' = "idle"
  BY <1>1, ParsePasses, SMTT(30) DEF TInv, SInv, Shared, IInv, TypeOK
<1>6. CASE res[w].m \in {"row", "empty", "done", "command"} /\ pc'[w] = "get"
  <2>1. Clear(w)
    BY <1>1, <1>6 DEF TInv, Report, Told
  <2>2. ASSUME NEW i \in Errs(w) PROVE i > parsed' \/ (i = parsed' /\ async' = "ready")
    <3>1. i \in 1..Len(stream) /\ stream[i].m = "error"
      BY DEF Errs
    <3>2. CASE i > parsed
      BY <1>5, <3>1, <3>2
    <3>3. CASE i = parsed /\ async = "ready"
      BY <1>5, <3>3
    <3> QED
      BY <2>1, <3>2, <3>3 DEF Clear
  <2>3. Clear(w)'
    BY <1>1, <2>2 DEF Clear, Errs
  <2> QED
    BY <1>2, <1>1, <1>3, <1>4, <1>6, <2>3 DEF Report, Told, Matches
<1>7. CASE res[w].m \in {"error", "copy"} /\ pc'[w] = "after"
  <2>1. Refused(w) \/ Copying
    BY <1>1, <1>7 DEF TInv, Report, Told
  <2>2. Refused(w) => Refused(w)'
    BY <1>1, <1>5 DEF Refused, Errs
  <2>3. Copying => Copying'
    BY <1>1, <1>5 DEF Copying
  <2> QED
    BY <1>1, <1>2, <1>3, <1>4, <1>7, <2>1, <2>2, <2>3 DEF Report, Told, Matches
<1> QED
  BY <1>1, <1>6, <1>7

LEMMA OthersReport ==
  ASSUME NEW w \in Workers, TInv(w), BackendEmit \/ BackendLost \/ UNCHANGED vars
  PROVE  Shared(w)' /\ Report(w)'
<1>1. UNCHANGED <<async, sock, cur, parsed, stream, nreq, pc, req, res, rep, rc>>
  BY DEF BackendEmit, BackendLost, vars, libpq, backend, local
<1>2. Shared(w)'
  BY <1>1 DEF TInv, Shared, ErrorsEnd, CopyIsTold, Numbered
<1>3. Mine(w)' /\ Matches(w)'
  BY <1>1 DEF TInv, Report, Mine, Matches, Waits, Untaken, Errs
<1>4. Told(w)'
  BY <1>1 DEF TInv, Report, Told, Clear, Refused, Copying, Errs
<1> QED
  BY <1>2, <1>3, <1>4 DEF Report

LEMMA StepReports ==
  ASSUME NEW w, Workers = {w}, TInv(w), [Next]_vars
  PROVE  TInv(w)'
<1>1. SInv(w)'
  BY StepServes DEF TInv
<1>2. CASE Begin(w) \/ Step(w)
  BY <1>1, <1>2, BeginReports, SendBusyReports, SendRefusedReports, SendQueryReports,
     FlushReports, WrittenReports, AwaitReplyReports, CheckWaitReports, GetBlocksReports,
     GetBrokenReports, GetResultReports, GetNullReports, CheckResultReports DEF Step, TInv
<1>3. CASE BackendEmit \/ BackendLost \/ UNCHANGED vars
  BY <1>1, <1>3, OthersReport DEF TInv
<1> QED
  BY <1>2, <1>3 DEF Next, Finished

LEMMA InitReports == ASSUME NEW w, Workers = {w}, Init PROVE TInv(w)
<1>1. SInv(w)
  BY InitServes
<1>2. Shared(w)
  BY DEF Init, Shared, ErrorsEnd, CopyIsTold, Numbered
<1>3. Report(w)
  BY DEF Init, Report, Mine, Told, Matches, Waits
<1> QED
  BY <1>1, <1>2, <1>3 DEF TInv

(* With one request at a time, a statement that the backend refused, even  *)
(* after some of its rows, is never answered 200, and a 400 is the error   *)
(* alone and one of this statement or of a lost connection (db.c:163-175). *)
THEOREM StatusesMatchAnswers ==
  ASSUME NEW w, Workers = {w}
  PROVE  Spec => []StatusMatchesAnswer
<1>1. Init => TInv(w)
  BY InitReports
<1>2. TInv(w) /\ [Next]_vars => TInv(w)'
  BY StepReports
<1>3. TInv(w) => StatusMatchesAnswer
  BY DEF TInv, Report, Matches, Errs, StatusMatchesAnswer, Own
<1> QED
  BY <1>1, <1>2, <1>3, PTL DEF Spec

-----------------------------------------------------------------------------
(* Bodies.  The strengthening: until the answer is over, the body holds as  *)
(* many rows as the request has taken from the stream, but for the one in   *)
(* hand; all of them are its own; and its last character is never a row, so *)
(* that the blank which ends the rows replaces a comma.                     *)
Rows(w)  == {i \in 1..Len(stream) : stream[i].q = req[w] /\ stream[i].m = "row"}
Taken(w) == {i \in Rows(w) : ~(i > parsed \/ (i = parsed /\ async = "ready"))}
InHand(w) == IF pc[w] = "check" /\ res[w].m = "row" THEN 1 ELSE 0

Counting(w) ==
  \/ pc[w] \in {"flush", "await", "get"}
  \/ pc[w] = "check" /\ res[w].m \in {"row", "done", "command", "empty"}

OwnRows(r, q) ==
  /\ \A i \in Items(r) : r[i].q = q
  /\ Items(r) # {} => r[Len(r)].t # "row"

Body(w) ==
  /\ OwnRows(rep[w], req[w])
  /\ pc[w] = "send" => rep[w] = <<>>
  /\ pc[w] = "check" /\ res[w].m = "row" => res[w].q = req[w]
  /\ Counting(w) => Cardinality(Items(rep[w])) + InHand(w) = Cardinality(Taken(w))
  /\ rc[w] = 200 => Cardinality(Items(rep[w])) = Cardinality(Rows(w))

(* single_row_mode is set once the body has rows, and until a request is    *)
(* answered its body is empty or has a row.                                 *)
Flag(w) ==
  /\ Items(rep[w]) # {} => single[w]
  /\ pc[w] # "idle" => rep[w] = <<>> \/ Items(rep[w]) # {}

BInv(w) == TInv(w) /\ Body(w) /\ Flag(w)

LEMMA NoItems == Items(<<>>) = {} /\ \A q : OwnRows(<<>>, q)
  BY DEF Items, OwnRows

LEMMA ItemsAreFinite ==
  ASSUME NEW r \in Seq(Tokens)
  PROVE  IsFiniteSet(Items(r)) /\ Cardinality(Items(r)) \in Nat
<1>1. Len(r) \in Nat /\ IsFiniteSet(1..Len(r))
  BY FS_Interval
<1>2. IsFiniteSet(Items(r))
  BY <1>1, FS_Subset DEF Items
<1> QED
  BY <1>2, FS_CardinalityType

\* A token that is no row.
LEMMA AppendItems ==
  ASSUME NEW r \in Seq(Tokens), NEW q, OwnRows(r, q), NEW t, t # "row"
  PROVE  Items(Append(r, Punct(t))) = Items(r) /\ OwnRows(Append(r, Punct(t)), q)
<1>1. /\ Len(Append(r, Punct(t))) = Len(r) + 1 /\ Len(r) \in Nat
      /\ \A i \in 1..Len(r) : Append(r, Punct(t))[i] = r[i]
      /\ Append(r, Punct(t))[Len(r) + 1] = Punct(t)
  OBVIOUS
<1>2. Punct(t).t # "row"
  BY DEF Punct, Tok
<1> QED
  BY <1>1, <1>2 DEF Items, OwnRows

\* A row and its comma.
LEMMA RowItems ==
  ASSUME NEW r \in Seq(Tokens), NEW q \in 0..MaxRequests, OwnRows(r, q)
  PROVE  /\ Cardinality(Items(WithRow(r, q))) = Cardinality(Items(r)) + 1
         /\ OwnRows(WithRow(r, q), q)
<1> DEFINE b == IF Items(r) = {} THEN Append(r, Punct("open")) ELSE r
<1> DEFINE c == WithRow(r, q)
<1>1. Tok("row", q) \in Tokens /\ Punct("comma") \in Tokens /\ Punct("open") \in Tokens
  BY BoundsAssumption DEF Tok, Punct, Tokens
<1>2. b \in Seq(Tokens) /\ Items(b) = Items(r) /\ OwnRows(b, q)
  BY <1>1, AppendItems
<1>3. c = b \o <<Tok("row", q), Punct("comma")>>
  BY DEF WithRow
<1> HIDE DEF b, c
<1>4. /\ Len(c) = Len(b) + 2 /\ Len(b) \in Nat
      /\ \A i \in 1..Len(b) : c[i] = b[i]
      /\ c[Len(b) + 1] = Tok("row", q) /\ c[Len(b) + 2] = Punct("comma")
  BY <1>1, <1>2, <1>3
<1>5. Tok("row", q).t = "row" /\ Tok("row", q).q = q /\ Punct("comma").t # "row"
  BY DEF Tok, Punct
<1>6. Items(c) = Items(b) \cup {Len(b) + 1} /\ (Len(b) + 1) \notin Items(b)
  BY <1>4, <1>5 DEF Items
<1>7. Cardinality(Items(c)) = Cardinality(Items(b)) + 1
  BY <1>2, <1>6, ItemsAreFinite, FS_AddElement
<1>8. OwnRows(c, q)
  BY <1>2, <1>4, <1>5, <1>6 DEF OwnRows, Items
<1> QED
  BY <1>2, <1>7, <1>8 DEF c

\* The blank at the end of the rows.
LEMMA EndItems ==
  ASSUME NEW r \in Seq(Tokens), NEW q, OwnRows(r, q), NEW f,
         r = <<>> \/ Items(r) # {}
  PROVE  Items(WithEnd(r, f)) = Items(r) /\ OwnRows(WithEnd(r, f), q)
<1>1. CASE ~(f /\ r # <<>>)
  BY <1>1 DEF WithEnd
<1>2. CASE f /\ r # <<>>
  <2>1. Len(r) \in Nat /\ Len(r) \in 1..Len(r)
    BY <1>2
  <2>2. /\ WithEnd(r, f) = [r EXCEPT ![Len(r)] = Punct("blank")]
        /\ Punct("blank").t # "row"
    BY <1>2 DEF WithEnd, Punct, Tok
  <2>3. /\ Len(WithEnd(r, f)) = Len(r) /\ WithEnd(r, f)[Len(r)] = Punct("blank")
        /\ \A i \in 1..Len(r) : i # Len(r) => WithEnd(r, f)[i] = r[i]
    BY <2>1, <2>2
  <2>4. r[Len(r)].t # "row"
    BY <1>2 DEF OwnRows
  <2> QED
    BY <2>1, <2>2, <2>3, <2>4 DEF Items, OwnRows
<1> QED
  BY <1>1, <1>2

\* A failed request has whatever rows it had.
LEMMA FailureBody ==
  ASSUME NEW w \in Workers, IInv, Body(w), NEW c \in {429, 500}, Fail(w, c), req' = req
  PROVE  Body(w)'
<1>1. rep[w] \in Seq(Tokens) /\ pc'[w] = "idle" /\ rc'[w] = c
      /\ rep'[w] = Append(rep[w], Punct("error"))
  BY DEF IInv, TypeOK, Fail, Answer
<1>2. OwnRows(rep'[w], req'[w])
  BY <1>1, AppendItems DEF Body
<1> QED
  BY <1>1, <1>2 DEF Body, Counting

\* Parsing passes no row by.
LEMMA ParsePassesRows ==
  ASSUME IInv, NEW a, ParseInput(a)
  PROVE  \A i \in (parsed + 1)..parsed' : stream[i].m = "row" => a = "ready" /\ i = parsed'
<1>1. parsed \in Nat /\ read \in Nat
  BY DEF IInv, TypeOK
<1> QED
  BY <1>1 DEF ParseInput

LEMMA BeginBody == ASSUME NEW w \in Workers, BInv(w), Begin(w) PROVE Body(w)'
<1>1. pc'[w] = "send" /\ rc'[w] = 0 /\ rep'[w] = <<>>
  BY DEF Begin, BInv, TInv, SInv, IInv, TypeOK
<1> QED
  BY <1>1, NoItems DEF Body, Counting

LEMMA SendBody ==
  ASSUME NEW w \in Workers, BInv(w), SendBusy(w) \/ SendRefused(w) PROVE Body(w)'
<1>1. pc[w] = "send" /\ req' = req /\ (Goto(w, "send") \/ Fail(w, 500))
  BY DEF SendBusy, SendRefused
<1>2. CASE Goto(w, "send")
  <2>1. pc'[w] = "send" /\ rc'[w] = 0 /\ rep' = rep
    BY <1>1, <1>2 DEF Goto, BInv, TInv, SInv, IInv, TypeOK, Report, Mine
  <2> QED
    BY <1>1, <2>1 DEF BInv, Body, Counting
<1>3. CASE Fail(w, 500)
  BY <1>1, <1>3, FailureBody DEF BInv, TInv, SInv
<1> QED
  BY <1>1, <1>2, <1>3

LEMMA SendQueryBody == ASSUME NEW w \in Workers, BInv(w), SendQuery(w) PROVE Body(w)'
<1>1. /\ pc[w] = "send" /\ ParseInput("idle") /\ async' = "busy"
      /\ req' = req /\ pc'[w] = "flush" /\ rc'[w] = 0 /\ rep' = rep
      /\ Deliver(req[w]) \/ stream' = stream
  BY DEF SendQuery, Goto, BInv, TInv, SInv, IInv, TypeOK, Report, Mine
<1>2. req[w] \in 0..MaxRequests /\ Len(stream) \in Nat
  BY DEF BInv, TInv, SInv, IInv, TypeOK
<1>3. Grown(req[w])
  BY <1>1, <1>2, DeliverGrows, SameIsGrown DEF BInv, TInv, SInv, Shared
<1>4. parsed' = Len(stream)
  BY <1>1, NothingToParse, NotBusyKeeps
  DEF BInv, TInv, SInv, Quiet, IInv, ConnectionInv, IdleMeansDrained, SendQuery
<1>5. \A i \in 1..Len(stream) : stream'[i].q # req[w]
  BY <1>1, <1>3 DEF Grown, BInv, TInv, Report, Mine
<1>6. Taken(w)' = {}
  BY <1>1, <1>2, <1>4, <1>5 DEF Taken, Rows
<1>7. rep'[w] = <<>>
  BY <1>1 DEF BInv, Body
<1>8. Cardinality(Items(rep'[w])) = 0 /\ Cardinality(Taken(w)') = 0
  BY <1>6, <1>7, NoItems, FS_EmptySet
<1>9. OwnRows(rep'[w], req'[w])
  BY <1>7, NoItems
<1> QED
  BY <1>1, <1>8, <1>9 DEF Body, Counting, InHand

\* While libpq stays busy, nothing is taken and nothing is written.
LEMMA BusyBody ==
  ASSUME NEW w \in Workers, BInv(w), Waits(w), Grown(cur), async = "busy", async' = "busy",
         parsed' = parsed \/ ParseInput("busy"), UNCHANGED <<req, res>>,
         rc'[w] = rc[w], rep'[w] = rep[w],
         pc'[w] = pc[w] \/ {pc[w], pc'[w]} \subseteq {"flush", "await", "get"}
  PROVE  Body(w)'
<1>1. /\ parsed \in Nat /\ parsed <= Len(stream) /\ Len(stream) \in Nat
      /\ Len(stream') \in Nat /\ Len(stream) <= Len(stream') /\ rc'[w] = 0
  BY DEF BInv, TInv, SInv, IInv, TypeOK, Grown, Report, Mine, Waits
<1>2. /\ parsed' \in Nat /\ parsed <= parsed' /\ parsed' <= Len(stream)
      /\ \A i \in (parsed + 1)..parsed' : stream[i].m # "row"
  <2>1. CASE parsed' = parsed
    BY <1>1, <2>1
  <2>2. CASE ParseInput("busy")
    BY <1>1, <2>2, ParsePasses, ParsePassesRows DEF BInv, TInv, SInv, Shared
  <2> QED
    BY <2>1, <2>2
<1>3. \A i \in 1..Len(stream) : i \in 1..Len(stream') /\ stream'[i] = stream[i]
  BY <1>1 DEF Grown
<1>4. ASSUME NEW i \in Nat PROVE i \in Taken(w)' <=> i \in Taken(w)
  <2>1. i \in Taken(w)' <=> /\ i \in 1..Len(stream') /\ i <= parsed'
                            /\ stream'[i].q = req[w] /\ stream'[i].m = "row"
    BY <1>2 DEF Taken, Rows
  <2>2. i \in Taken(w) <=> /\ i \in 1..Len(stream) /\ i <= parsed
                           /\ stream[i].q = req[w] /\ stream[i].m = "row"
    BY <1>1 DEF Taken, Rows
  <2>3. CASE i \in 1..Len(stream)
    <3>1. i \in (parsed + 1)..parsed' \/ (i <= parsed' <=> i <= parsed)
      BY <1>1, <1>2
    <3>2. stream'[i] = stream[i] /\ i \in 1..Len(stream')
      BY <1>3, <2>3
    <3> QED
      BY <1>2, <2>1, <2>2, <2>3, <3>1, <3>2
  <2>4. CASE i \notin 1..Len(stream)
    BY <1>1, <1>2, <2>1, <2>2, <2>4
  <2> QED
    BY <2>3, <2>4
<1>5. Taken(w)' = Taken(w)
  <2>1. Taken(w) \subseteq Nat /\ Taken(w)' \subseteq Nat
    BY DEF Taken, Rows
  <2> QED
    BY <1>4, <2>1
<1>6. (Counting(w)' <=> Counting(w)) /\ InHand(w)' = InHand(w)
  BY DEF Counting, InHand
<1> QED
  BY <1>1, <1>5, <1>6 DEF BInv, Body, Waits

LEMMA FlushBody ==
  ASSUME NEW w \in Workers, BInv(w), Flush(w) \/ Written(w) PROVE Body(w)'
<1>1. pc[w] = "flush" /\ async = "busy" /\ async' = async /\ parsed' = parsed /\ req' = req /\ res' = res
  BY DEF Flush, Written, libpq, BInv, TInv, SInv, Quiet
<1>2. \/ \E c \in {429, 500} : Fail(w, c)
      \/ /\ Push \/ stream' = stream
         /\ \E l \in {"flush", "await"} : Goto(w, l)
  BY DEF Flush, Written, backend
<1>3. CASE \E c \in {429, 500} : Fail(w, c)
  BY <1>1, <1>3, FailureBody DEF BInv, TInv, SInv
<1>4. ASSUME Push \/ stream' = stream, NEW l \in {"flush", "await"}, Goto(w, l) PROVE Body(w)'
  <2>1. pc'[w] = l /\ rc' = rc /\ rep' = rep
    BY <1>4 DEF Goto, BInv, TInv, SInv, IInv, TypeOK
  <2>2. Grown(cur)
    BY <1>4, PushGrows, SameIsGrown DEF BInv, TInv, SInv, Shared
  <2> QED
    BY <1>1, <2>1, <2>2, BusyBody DEF Waits
<1> QED
  BY <1>2, <1>3, <1>4

LEMMA WaitBody ==
  ASSUME NEW w \in Workers, BInv(w), AwaitReply(w) \/ CheckWait(w) PROVE Body(w)'
<1>1. /\ pc[w] \in {"await", "check"} /\ async = "busy" /\ async' = async /\ req' = req
      /\ res' = res /\ (parsed' = parsed \/ ParseInput("busy"))
  BY BusyParses DEF AwaitReply, CheckWait, BInv, TInv, SInv, Quiet
<1>2. \/ Fail(w, 500)
      \/ /\ ConsumeInput
         /\ \/ pc[w] = "await" /\ Goto(w, "get")
            \/ pc[w] = "check" /\ Goto(w, "check")
  BY DEF AwaitReply, CheckWait
<1>3. CASE Fail(w, 500)
  BY <1>1, <1>3, FailureBody DEF BInv, TInv, SInv
<1>4. ASSUME ConsumeInput, \/ pc[w] = "await" /\ Goto(w, "get")
                           \/ pc[w] = "check" /\ Goto(w, "check")
      PROVE  Body(w)'
  <2>1. /\ rc' = rc /\ rep' = rep
        /\ pc'[w] = pc[w] \/ {pc[w], pc'[w]} \subseteq {"flush", "await", "get"}
    BY <1>4 DEF Goto, BInv, TInv, SInv, IInv, TypeOK
  <2>2. Grown(cur)
    BY <1>4, PushGrows DEF ConsumeInput, BInv, TInv, SInv, Shared
  <2> QED
    BY <1>1, <2>1, <2>2, BusyBody DEF Waits
<1> QED
  BY <1>2, <1>3, <1>4

LEMMA GetBlocksBody == ASSUME NEW w \in Workers, BInv(w), GetBlocks(w) PROVE Body(w)'
<1>1. /\ pc[w] \in {"get", "after"} /\ ParseInput("busy") /\ async = "busy" /\ async' = async
      /\ UNCHANGED <<req, res, pc, rc, rep>>
  BY BusyParses DEF GetBlocks, local
<1>2. Deliver(cur) \/ stream' = stream
  BY DEF GetBlocks
<1>3. cur \in 0..MaxRequests
  BY DEF BInv, TInv, SInv, IInv, TypeOK
<1>4. Grown(cur)
  BY <1>2, <1>3, DeliverGrows, SameIsGrown DEF BInv, TInv, SInv, Shared
<1> QED
  BY <1>1, <1>4, BusyBody DEF Waits

LEMMA GetBrokenBody == ASSUME NEW w \in Workers, BInv(w), GetBroken(w) PROVE Body(w)'
<1>1. /\ pc'[w] = "check" /\ res'[w].m = "error" /\ rep' = rep /\ req' = req /\ rc' = rc
      /\ rc[w] = 0
  BY DEF GetBroken, Goto, BInv, TInv, SInv, IInv, TypeOK, Report, Mine
<1> QED
  BY <1>1 DEF BInv, Body, Counting

\* A result that is taken is the next one.
LEMMA GetResultBody == ASSUME NEW w \in Workers, BInv(w), GetResult(w) PROVE Body(w)'
<1>1. /\ pc[w] \in {"get", "after"} /\ pc'[w] = "check" /\ rep' = rep /\ rc' = rc /\ rc[w] = 0
      /\ res'[w] = stream[parsed'] /\ stream' = stream /\ req' = req
  BY DEF GetResult, Goto, backend, BInv, TInv, SInv, IInv, TypeOK, Report, Mine
<1>2. OwnRows(rep'[w], req'[w])
  BY <1>1 DEF BInv, Body
<1>3. CASE sock /\ ParseInput("copy") /\ async' = "copy"
  <2>1. res'[w].m = "copy"
    BY <1>1, <1>3, ParsePasses DEF BInv, TInv, SInv, Shared
  <2> QED
    BY <1>1, <1>2, <2>1 DEF Body, Counting
<1>4. CASE ParseInput("ready") /\ async' = "busy"
  <2>1. /\ parsed \in Nat /\ parsed' \in Nat /\ parsed <= parsed' /\ parsed' <= Len(stream)
        /\ \A i \in (parsed + 1)..parsed' : stream[i].m = "row" => i = parsed'
        /\ async # "busy" => async = "ready" /\ parsed' = parsed
        /\ async = "busy" => parsed' > parsed
    BY <1>4, ParsePasses, ParsePassesRows, SMTT(30) DEF BInv, TInv, SInv, Shared, IInv, TypeOK
  <2>2. parsed' \in 1..Len(stream)
    BY <1>4, <2>1, ParseFacts DEF BInv, TInv, SInv
  <2>3. stream[parsed'].q = req[w]
    BY <1>1, <1>4, <2>1, <2>2, ParseKeepsMine DEF BInv, Waits
  <2>4. parsed' \notin Taken(w)
    BY <2>1, <2>2 DEF Taken
  <2>5. ASSUME NEW i \in Nat
        PROVE  i \in Taken(w)' <=> i \in Taken(w) \/ (i = parsed' /\ stream[i].m = "row")
    <3>1. i \in Taken(w)' <=> i \in Rows(w) /\ i <= parsed'
      BY <1>1, <1>4, <2>1 DEF Taken, Rows
    <3>2. i \in Taken(w) => i <= parsed
      BY <2>1 DEF Taken
    <3>3. i \in Rows(w) /\ i < parsed' => i \in Taken(w)
      BY <2>1 DEF Taken, Rows
    <3>4. i = parsed' => (i \in Rows(w) <=> stream[i].m = "row")
      BY <2>2, <2>3 DEF Rows
    <3>5. i \in Taken(w) => i \in Rows(w)
      BY DEF Taken
    <3> QED
      BY <2>1, <3>1, <3>2, <3>3, <3>4, <3>5
  <2>6. Taken(w) \subseteq Nat /\ Taken(w)' \subseteq Nat
    BY DEF Taken, Rows
  <2>7. IsFiniteSet(Taken(w)) /\ Cardinality(Taken(w)) \in Nat
    <3>1. Len(stream) \in Nat
      BY DEF BInv, TInv, SInv, IInv, TypeOK
    <3>2. IsFiniteSet(1..Len(stream))
      BY <3>1, FS_Interval
    <3>3. Taken(w) \subseteq 1..Len(stream)
      BY DEF Taken, Rows
    <3> QED
      BY <3>2, <3>3, FS_Subset, FS_CardinalityType
  <2>8. CASE res'[w].m \in {"error", "copy"}
    BY <1>1, <1>2, <2>8 DEF Body, Counting
  <2>9. CASE res'[w].m \notin {"error", "copy"}
    <3>1. pc[w] = "get"
      <4> SUFFICES ASSUME pc[w] = "after" PROVE FALSE
        BY <1>1
      <4>1. sock
        BY <1>4, NotBusyKeeps DEF BInv, TInv, SInv, Closed
      <4>2. Refused(w) \/ Copying
        BY DEF BInv, TInv, Report, Told
      <4>3. async = "idle" \/ (async = "busy" /\ parsed + 1 = Len(stream)) \/ async = "copy"
        BY <4>1, <4>2 DEF Refused, Copying
      <4> QED
        BY <1>4, <4>3, ParsePasses DEF BInv, TInv, SInv, Shared
    <3>2. Cardinality(Items(rep[w])) = Cardinality(Taken(w)) /\ Cardinality(Items(rep[w])) \in Nat
      BY <2>7, <3>1, ItemsAreFinite DEF BInv, Body, Counting, InHand, TInv, SInv, IInv, TypeOK
    <3>3. CASE res'[w].m = "row"
      <4>1. Taken(w)' = Taken(w) \cup {parsed'}
        BY <1>1, <2>1, <2>5, <2>6, <3>3
      <4>2. Cardinality(Taken(w)') = Cardinality(Taken(w)) + 1
        BY <2>4, <2>7, <4>1, FS_AddElement
      <4>3. res'[w].q = req'[w]
        BY <1>1, <2>3
      <4> QED
        BY <1>1, <1>2, <3>2, <3>3, <4>2, <4>3 DEF Body, InHand
    <3>4. CASE res'[w].m # "row"
      <4>1. Taken(w)' = Taken(w)
        BY <1>1, <2>5, <2>6, <3>4
      <4> QED
        BY <1>1, <1>2, <3>2, <3>4, <4>1 DEF Body, InHand
    <3> QED
      BY <3>3, <3>4
  <2> QED
    BY <2>8, <2>9
<1> QED
  BY <1>3, <1>4 DEF GetResult

\* At the end of the answer, all of its rows are taken.
LEMMA GetNullBody == ASSUME NEW w \in Workers, BInv(w), GetNull(w) PROVE Body(w)'
<1>1. /\ ParseInput("idle") /\ async' = "idle" /\ pc'[w] = "idle"
      /\ stream' = stream /\ req' = req /\ sock' = sock /\ rep[w] \in Seq(Tokens)
      /\ \/ pc[w] = "get" /\ rc'[w] = 200 /\ rep'[w] = Closing(rep[w])
         \/ pc[w] = "after" /\ rc'[w] = 400 /\ rep'[w] = <<Punct("error")>>
  BY DEF GetNull, Answer, backend, BInv, TInv, SInv, IInv, TypeOK
<1>2. CASE pc[w] = "get"
  <2>1. /\ parsed \in Nat /\ Len(stream) \in Nat
        /\ \A i \in (parsed + 1)..parsed' : stream[i].m # "row"
        /\ async # "busy" => async = "idle" /\ parsed' = parsed
        /\ async = "busy" => parsed' = Len(stream)
    <3>1. parsed \in Nat /\ Len(stream) \in Nat
      BY DEF BInv, TInv, SInv, IInv, TypeOK
    <3>2. \A i \in (parsed + 1)..parsed' : stream[i].m # "row"
      BY <1>1, ParsePassesRows DEF BInv, TInv, SInv
    <3> QED
      BY <1>1, <3>1, <3>2, ParsePasses DEF BInv, TInv, SInv, Shared
  <2>2. sock
    <3> SUFFICES ASSUME ~sock PROVE FALSE
      OBVIOUS
    <3>1. async = "busy" /\ parsed = read
      BY <1>2 DEF BInv, TInv, SInv, Closed
    <3> QED
      BY <1>1, <3>1, NothingToParse DEF BInv, TInv, SInv
  <2>3. parsed' = Len(stream)
    BY <2>1, <2>2 DEF BInv, TInv, SInv, IInv, ConnectionInv, IdleMeansDrained
  <2>4. Taken(w) = Rows(w)
    BY <2>1, <2>3 DEF Taken, Rows
  <2>5. Rows(w)' = Rows(w)
    BY <1>1 DEF Rows
  <2>6. Cardinality(Items(rep[w])) = Cardinality(Rows(w))
    BY <1>1, <1>2, <2>4, ItemsAreFinite DEF BInv, Body, Counting, InHand
  <2>7. Items(rep'[w]) = Items(rep[w]) /\ OwnRows(rep'[w], req'[w])
    <3>1. PICK t \in {"close", "none"} : rep'[w] = Append(rep[w], Punct(t))
      BY <1>1, <1>2 DEF Closing
    <3> QED
      BY <1>1, <3>1, AppendItems DEF BInv, Body
  <2> QED
    BY <1>1, <2>5, <2>6, <2>7 DEF Body, Counting
<1>3. CASE pc[w] = "after"
  <2>1. Punct("error").t # "row"
    BY DEF Punct, Tok
  <2>2. OwnRows(rep'[w], req'[w])
    BY <1>1, <1>3, <2>1 DEF OwnRows, Items
  <2> QED
    BY <1>1, <1>3, <2>2 DEF Body, Counting
<1> QED
  BY <1>1, <1>2, <1>3

\* A row in hand goes into the body, and no other is taken.
LEMMA CheckResultBody == ASSUME NEW w \in Workers, BInv(w), CheckResult(w) PROVE Body(w)'
<1>1. /\ pc[w] = "check" /\ ParseInput(async') /\ async' # "busy" /\ rc' = rc /\ rc[w] = 0
      /\ stream' = stream /\ req' = req /\ res' = res /\ rep[w] \in Seq(Tokens)
      /\ res[w].q \in 0..MaxRequests
      /\ \/ res[w].m \in {"command", "empty"} /\ pc'[w] = "get" /\ rep'[w] = rep[w]
         \/ res[w].m = "row" /\ pc'[w] = "get" /\ rep'[w] = WithRow(rep[w], res[w].q)
         \/ res[w].m = "done" /\ pc'[w] = "get" /\ rep'[w] = WithEnd(rep[w], single[w])
         \/ res[w].m \in {"error", "copy"} /\ pc'[w] = "after" /\ rep'[w] = rep[w]
  BY DEF CheckResult, Goto, backend, BInv, TInv, SInv, IInv, TypeOK, Report, Mine
<1>2. /\ parsed \in Nat /\ parsed' \in Nat /\ parsed <= parsed'
      /\ \A i \in (parsed + 1)..parsed' : stream[i].m = "row" => async' = "ready" /\ i = parsed'
      /\ async # "busy" => async' = async /\ parsed' = parsed
  BY <1>1, ParsePasses, ParsePassesRows DEF BInv, TInv, SInv, Shared, IInv, TypeOK
<1>3. Taken(w)' = Taken(w)
  <2>1. Rows(w)' = Rows(w) /\ Rows(w) \subseteq Nat /\ \A i \in Rows(w) : stream[i].m = "row"
    BY <1>1 DEF Rows
  <2>2. CASE async # "busy"
    BY <1>2, <2>1, <2>2 DEF Taken
  <2>3. CASE async = "busy"
    <3>1. \/ async' # "ready" /\ \A i \in Rows(w) : ~(i > parsed') <=> ~(i > parsed)
          \/ async' = "ready" /\ parsed' > parsed
               /\ \A i \in Rows(w) : ~(i > parsed' \/ i = parsed') <=> ~(i > parsed)
      <4>1. async' = "ready" => parsed' > parsed
        BY <1>1, <2>3, ParsePasses DEF BInv, TInv, SInv, Shared
      <4> QED
        BY <1>2, <2>1, <4>1
    <3> QED
      BY <2>1, <2>3, <3>1 DEF Taken
  <2> QED
    BY <2>2, <2>3
<1>4. Cardinality(Items(rep[w])) \in Nat /\ OwnRows(rep[w], req[w])
  BY <1>1, ItemsAreFinite DEF BInv, Body
<1>8. rep[w] = <<>> \/ Items(rep[w]) # {}
  BY <1>1 DEF BInv, Flag
<1>5. CASE res[w].m \in {"error", "copy"}
  BY <1>1, <1>4, <1>5 DEF Body, Counting
<1>6. CASE res[w].m = "row"
  <2>1. Cardinality(Items(rep[w])) + 1 = Cardinality(Taken(w)) /\ res[w].q = req[w]
    BY <1>1, <1>6 DEF BInv, Body, Counting, InHand
  <2>2. Cardinality(Items(rep'[w])) = Cardinality(Items(rep[w])) + 1 /\ OwnRows(rep'[w], req'[w])
    BY <1>1, <1>4, <1>6, <2>1, RowItems
  <2>3. Cardinality(Items(rep'[w])) = Cardinality(Taken(w)') /\ Cardinality(Items(rep'[w])) \in Nat
    BY <1>3, <1>4, <2>1, <2>2
  <2> QED
    BY <1>1, <1>6, <2>2, <2>3 DEF Body, InHand
<1>7. CASE res[w].m \in {"command", "empty", "done"}
  <2>1. Cardinality(Items(rep[w])) = Cardinality(Taken(w))
    BY <1>1, <1>4, <1>7 DEF BInv, Body, Counting, InHand
  <2>2. Items(rep'[w]) = Items(rep[w]) /\ OwnRows(rep'[w], req'[w])
    BY <1>1, <1>4, <1>7, <1>8, EndItems
  <2>3. Cardinality(Items(rep'[w])) = Cardinality(Taken(w)') /\ Cardinality(Items(rep'[w])) \in Nat
    BY <1>3, <1>4, <2>1, <2>2
  <2> QED
    BY <1>1, <1>7, <2>2, <2>3 DEF Body, InHand
<1> QED
  BY <1>1, <1>5, <1>6, <1>7

LEMMA OthersBody ==
  ASSUME NEW w \in Workers, BInv(w), BackendEmit \/ BackendLost \/ UNCHANGED vars
  PROVE  Body(w)' /\ Flag(w)'
<1>1. UNCHANGED <<async, parsed, stream, pc, req, res, single, rep, rc>>
  BY DEF BackendEmit, BackendLost, vars, libpq, backend, local
<1>2. UNCHANGED <<Rows(w), Taken(w), InHand(w), Counting(w)>>
  BY <1>1 DEF Rows, Taken, InHand, Counting
<1>3. Body(w)'
  BY <1>1, <1>2 DEF BInv, Body
<1> QED
  BY <1>1, <1>3 DEF BInv, Flag

\* Most steps of a request keep what it has written, or end it with an error.
LEMMA FlagKept ==
  ASSUME NEW w \in Workers, BInv(w), single' = single,
         \/ pc[w] # "idle" /\ rep' = rep
         \/ \E c \in Codes : Fail(w, c)
  PROVE  Flag(w)'
<1>1. /\ rep[w] \in Seq(Tokens) /\ OwnRows(rep[w], req[w])
      /\ pc \in [Workers -> PcValues] /\ rep \in [Workers -> Seq(Tokens)]
  BY DEF BInv, TInv, SInv, IInv, TypeOK, Body
<1>2. CASE pc[w] # "idle" /\ rep' = rep
  BY <1>2 DEF BInv, Flag
<1>3. CASE \E c \in Codes : Fail(w, c)
  <2>1. pc'[w] = "idle" /\ rep'[w] = Append(rep[w], Punct("error"))
    BY <1>1, <1>3 DEF Fail, Answer
  <2>2. Items(rep'[w]) = Items(rep[w])
    BY <1>1, <2>1, AppendItems
  <2> QED
    BY <2>1, <2>2 DEF BInv, Flag
<1> QED
  BY <1>2, <1>3

LEMMA GetNullFlag == ASSUME NEW w \in Workers, BInv(w), GetNull(w) PROVE Flag(w)'
<1>1. /\ rep[w] \in Seq(Tokens) /\ OwnRows(rep[w], req[w]) /\ pc'[w] = "idle"
      /\ rep'[w] = Closing(rep[w]) \/ rep'[w] = Append(<<>>, Punct("error"))
      /\ single' = single
  BY DEF GetNull, Answer, BInv, TInv, SInv, IInv, TypeOK, Body
<1>2. Items(Closing(rep[w])) = Items(rep[w])
  BY <1>1, AppendItems DEF Closing
<1>3. Items(Append(<<>>, Punct("error"))) = {}
  <2>1. <<>> \in Seq(Tokens)
    OBVIOUS
  <2> QED
    BY <2>1, NoItems, AppendItems
<1> QED
  BY <1>1, <1>2, <1>3 DEF BInv, Flag

LEMMA CheckResultFlag ==
  ASSUME NEW w \in Workers, BInv(w), CheckResult(w)
  PROVE  Flag(w)'
<1>1. /\ pc[w] = "check" /\ rep[w] \in Seq(Tokens) /\ OwnRows(rep[w], req[w])
      /\ req[w] \in 0..MaxRequests
      /\ res[w].m = "row" => res[w].q = req[w]
      /\ rep[w] = <<>> \/ Items(rep[w]) # {}
      /\ \/ res[w].m \in {"command", "empty", "error", "copy"} /\ rep'[w] = rep[w]
         \/ res[w].m = "row" /\ rep'[w] = WithRow(rep[w], res[w].q)
         \/ res[w].m = "done" /\ rep'[w] = WithEnd(rep[w], single[w])
      /\ single'[w] = (single[w] \/ res[w].m \in {"row", "empty"})
  BY DEF CheckResult, Goto, BInv, TInv, SInv, IInv, TypeOK, Body, Flag
<1>2. CASE res[w].m = "row"
  <2>1. Cardinality(Items(rep'[w])) = Cardinality(Items(rep[w])) + 1
    BY <1>1, <1>2, RowItems
  <2>2. Cardinality(Items(rep[w])) \in Nat
    BY <1>1, ItemsAreFinite
  <2>3. Cardinality(Items(rep'[w])) # 0
    BY <2>1, <2>2
  <2>4. Items(rep'[w]) # {}
    BY <2>3, FS_EmptySet
  <2> QED
    BY <1>1, <1>2, <2>4 DEF Flag
<1>3. CASE res[w].m = "done"
  <2>1. Items(rep'[w]) = Items(rep[w])
    BY <1>1, <1>3, EndItems
  <2>2. rep[w] = <<>> => rep'[w] = <<>>
    BY <1>1, <1>3 DEF WithEnd
  <2>3. Items(rep[w]) # {} => single[w]
    BY DEF BInv, Flag
  <2> QED
    BY <1>1, <2>1, <2>2, <2>3 DEF Flag
<1>4. CASE rep'[w] = rep[w]
  <2>1. Items(rep[w]) # {} => single[w]
    BY DEF BInv, Flag
  <2> QED
    BY <1>1, <1>4, <2>1 DEF Flag
<1> QED
  BY <1>1, <1>2, <1>3, <1>4

LEMMA StepFlag ==
  ASSUME NEW w \in Workers, BInv(w), Begin(w) \/ Step(w)
  PROVE  Flag(w)'
<1>1. CASE Begin(w)
  <2>1. rep'[w] = <<>>
    BY <1>1 DEF Begin, BInv, TInv, SInv, IInv, TypeOK
  <2> QED
    BY <2>1, NoItems DEF Flag
<1>2. CASE GetNull(w)
  BY <1>2, GetNullFlag
<1>3. CASE CheckResult(w)
  BY <1>3, CheckResultFlag
<1>4. CASE SendBusy(w) \/ SendRefused(w) \/ SendQuery(w) \/ Flush(w) \/ Written(w)
  <2>1. single' = single /\ pc[w] # "idle" /\ (rep' = rep \/ \E c \in Codes : Fail(w, c))
    BY <1>4 DEF SendBusy, SendRefused, SendQuery, Flush, Written, Goto, Codes
  <2> QED
    BY <2>1, FlagKept
<1>5. CASE AwaitReply(w) \/ GetBlocks(w) \/ GetBroken(w) \/ GetResult(w) \/ CheckWait(w)
  <2>1. single' = single /\ pc[w] # "idle" /\ (rep' = rep \/ \E c \in Codes : Fail(w, c))
    BY <1>5 DEF AwaitReply, GetBlocks, GetBroken, GetResult, CheckWait, Goto, Codes, local
  <2> QED
    BY <2>1, FlagKept
<1> QED
  BY <1>1, <1>2, <1>3, <1>4, <1>5 DEF Step

LEMMA StepBody ==
  ASSUME NEW w, Workers = {w}, BInv(w), [Next]_vars
  PROVE  BInv(w)'
<1>1. TInv(w)'
  BY StepReports DEF BInv
<1>2. CASE Begin(w) \/ Step(w)
  BY <1>1, <1>2, BeginBody, SendBody, SendQueryBody, FlushBody, WaitBody, GetBlocksBody,
     GetBrokenBody, GetResultBody, GetNullBody, CheckResultBody, StepFlag DEF Step, BInv
<1>3. CASE BackendEmit \/ BackendLost \/ UNCHANGED vars
  BY <1>1, <1>3, OthersBody DEF BInv
<1> QED
  BY <1>2, <1>3 DEF Next, Finished

(* With one request at a time, a body holds rows of its own query only,    *)
(* and that of a 200 as many of them as the backend sent, whatever earlier *)
(* requests left on the connection (db.c:144-246).                         *)
THEOREM BodiesAreOwnAnswers ==
  ASSUME NEW w, Workers = {w}
  PROVE  Spec => []BodyIsOwnAnswer
<1>1. Init => BInv(w)
  <2> SUFFICES ASSUME Init PROVE BInv(w)
    OBVIOUS
  <2>1. TInv(w)
    BY InitReports
  <2>2. Body(w) /\ Flag(w)
    BY NoItems DEF Init, Body, Counting, Flag
  <2> QED
    BY <2>1, <2>2 DEF BInv
<1>2. BInv(w) /\ [Next]_vars => BInv(w)'
  BY StepBody
<1>3. BInv(w) => BodyIsOwnAnswer
  <2> SUFFICES ASSUME BInv(w) PROVE BodyIsOwnAnswer
    OBVIOUS
  <2>1. Rows(w) = {i \in Own(w) : stream[i].m = "row"}
    BY DEF Rows, Own
  <2> QED
    BY <2>1 DEF BInv, Body, OwnRows, BodyIsOwnAnswer
<1> QED
  BY <1>1, <1>2, <1>3, PTL DEF Spec

-----------------------------------------------------------------------------
(* Frames.  A body grows as an open array, each row with its comma; the end *)
(* of the rows closes it.  The strengthening: in an open array the result   *)
(* taken last is a row, so that the answer has its end of rows still to     *)
(* come, and after it no row comes.                                         *)
OpenArray(r) ==
  \E n \in Nat \ {0} :
    /\ Len(r) = 2 * n + 1 /\ r[1].t = "open"
    /\ \A k \in 1..n : r[2 * k].t = "row" /\ r[2 * k + 1].t = "comma"
ClosedArray(r) ==
  \E n \in Nat \ {0} :
    /\ Len(r) = 2 * n + 1 /\ r[1].t = "open"
    /\ \A k \in 1..n : r[2 * k].t = "row" /\ r[2 * k + 1].t = IF k < n THEN "comma" ELSE "blank"

LEMMA ArraysHaveItems ==
  ASSUME NEW r \in Seq(Tokens), OpenArray(r) \/ ClosedArray(r)
  PROVE  Items(r) # {} /\ Len(r) \in 1..Len(r)
<1>1. PICK n \in Nat \ {0} : Len(r) = 2 * n + 1 /\ \A k \in 1..n : r[2 * k].t = "row"
  BY DEF OpenArray, ClosedArray
<1>2. 2 \in 1..Len(r) /\ r[2].t = "row"
  <2>1. 1 \in 1..n /\ 2 * 1 = 2
    BY <1>1
  <2>2. r[2].t = "row"
    BY <1>1, <2>1
  <2> QED
    BY <1>1, <2>2
<1> QED
  BY <1>1, <1>2 DEF Items

LEMMA FirstRow ==
  ASSUME NEW q \in 0..MaxRequests
  PROVE  OpenArray(WithRow(<<>>, q))
<1> DEFINE r == WithRow(<<>>, q)
<1>1. r = Append(<<>>, Punct("open")) \o <<Tok("row", q), Punct("comma")>>
  BY NoItems DEF WithRow
<1>2. Len(r) = 3 /\ r[1].t = "open" /\ r[2].t = "row" /\ r[3].t = "comma"
  <2>1. \A a, b, c : LET z == Append(<<>>, a) \o <<b, c>> IN
          Len(z) = 3 /\ z[1] = a /\ z[2] = b /\ z[3] = c
    OBVIOUS
  <2>2. Len(r) = 3 /\ r[1] = Punct("open") /\ r[2] = Tok("row", q) /\ r[3] = Punct("comma")
    BY <1>1, <2>1
  <2> QED
    BY <2>2 DEF Punct, Tok
<1> HIDE DEF r
<1>3. \A k \in 1..1 : r[2 * k].t = "row" /\ r[2 * k + 1].t = "comma"
  <2>1. \A k \in 1..1 : 2 * k = 2 /\ 2 * k + 1 = 3
    OBVIOUS
  <2> QED
    BY <1>2, <2>1
<1>4. Len(r) = 2 * 1 + 1 /\ 1 \in Nat \ {0}
  BY <1>2
<1> QED
  BY <1>2, <1>3, <1>4 DEF OpenArray, r

LEMMA NextRow ==
  ASSUME NEW r \in Seq(Tokens), OpenArray(r), NEW q \in 0..MaxRequests
  PROVE  OpenArray(WithRow(r, q))
<1> DEFINE c == WithRow(r, q)
<1>1. Tok("row", q) \in Tokens /\ Punct("comma") \in Tokens
  BY BoundsAssumption DEF Tok, Punct, Tokens
<1>2. c = r \o <<Tok("row", q), Punct("comma")>>
  BY ArraysHaveItems DEF WithRow
<1> HIDE DEF c
<1>3. /\ Len(c) = Len(r) + 2 /\ Len(r) \in Nat
      /\ \A i \in 1..Len(r) : c[i] = r[i]
      /\ c[Len(r) + 1].t = "row" /\ c[Len(r) + 2].t = "comma"
  <2>1. /\ Len(c) = Len(r) + 2 /\ Len(r) \in Nat
        /\ \A i \in 1..Len(r) : c[i] = r[i]
        /\ c[Len(r) + 1] = Tok("row", q) /\ c[Len(r) + 2] = Punct("comma")
    BY <1>1, <1>2
  <2> QED
    BY <2>1 DEF Tok, Punct
<1>4. PICK n \in Nat \ {0} :
        /\ Len(r) = 2 * n + 1 /\ r[1].t = "open"
        /\ \A k \in 1..n : r[2 * k].t = "row" /\ r[2 * k + 1].t = "comma"
  BY DEF OpenArray
<1>5. Len(c) = 2 * (n + 1) + 1 /\ c[1].t = "open" /\ n + 1 \in Nat \ {0}
  BY <1>3, <1>4
<1>6. ASSUME NEW k \in 1..(n + 1)
      PROVE  c[2 * k].t = "row" /\ c[2 * k + 1].t = "comma"
  <2>1. CASE k = n + 1
    <3>1. 2 * k = Len(r) + 1 /\ 2 * k + 1 = Len(r) + 2
      BY <1>4, <2>1
    <3> QED
      BY <1>3, <3>1
  <2>2. CASE k \in 1..n
    <3>1. 2 * k \in 1..Len(r) /\ 2 * k + 1 \in 1..Len(r)
      BY <1>4, <2>2
    <3> QED
      BY <1>3, <1>4, <2>2, <3>1
  <2> QED
    BY <2>1, <2>2
<1> QED
  BY <1>5, <1>6 DEF OpenArray, c

LEMMA RowsEnd ==
  ASSUME NEW r \in Seq(Tokens), OpenArray(r) \/ ClosedArray(r)
  PROVE  ClosedArray(WithEnd(r, TRUE))
<1> DEFINE c == WithEnd(r, TRUE)
<1>1. c = [r EXCEPT ![Len(r)] = Punct("blank")] /\ Len(r) \in 1..Len(r)
  BY ArraysHaveItems DEF WithEnd
<1> HIDE DEF c
<1>2. /\ Len(c) = Len(r) /\ c[Len(r)].t = "blank"
      /\ \A i \in 1..Len(r) : i # Len(r) => c[i] = r[i]
  <2>1. /\ Len(c) = Len(r) /\ c[Len(r)] = Punct("blank")
        /\ \A i \in 1..Len(r) : i # Len(r) => c[i] = r[i]
    BY <1>1
  <2> QED
    BY <2>1 DEF Punct, Tok
<1>3. PICK n \in Nat \ {0} :
        /\ Len(r) = 2 * n + 1 /\ r[1].t = "open"
        /\ \A k \in 1..n : r[2 * k].t = "row" /\ (k < n => r[2 * k + 1].t = "comma")
  BY DEF OpenArray, ClosedArray
<1>4. Len(c) = 2 * n + 1 /\ c[1].t = "open"
  BY <1>2, <1>3
<1>5. ASSUME NEW k \in 1..n
      PROVE  c[2 * k].t = "row" /\ c[2 * k + 1].t = IF k < n THEN "comma" ELSE "blank"
  <2>1. 2 * k \in 1..Len(r) /\ 2 * k # Len(r) /\ c[2 * k].t = "row"
    <3>1. 2 * k \in 1..Len(r) /\ 2 * k # Len(r)
      BY <1>3
    <3> QED
      BY <1>2, <1>3, <3>1
  <2>2. CASE k < n
    <3>1. 2 * k + 1 \in 1..Len(r) /\ 2 * k + 1 # Len(r)
      BY <1>3, <2>2
    <3> QED
      BY <1>2, <1>3, <2>1, <2>2, <3>1
  <2>3. CASE ~(k < n)
    <3>1. 2 * k + 1 = Len(r)
      BY <1>3, <2>3
    <3> QED
      BY <1>2, <2>1, <2>3, <3>1
  <2> QED
    BY <2>2, <2>3
<1> QED
  BY <1>3, <1>4, <1>5 DEF ClosedArray, c

LEMMA ArrayCloses ==
  ASSUME NEW r \in Seq(Tokens), ClosedArray(r)
  PROVE  IsArray(Closing(r))
<1> DEFINE c == Closing(r)
<1>1. c = Append(r, Punct("close"))
  BY ArraysHaveItems DEF Closing
<1> HIDE DEF c
<1>2. /\ Len(c) = Len(r) + 1 /\ Len(r) \in Nat /\ c[Len(r) + 1].t = "close"
      /\ \A i \in 1..Len(r) : c[i] = r[i]
  <2>1. /\ Len(c) = Len(r) + 1 /\ Len(r) \in Nat /\ c[Len(r) + 1] = Punct("close")
        /\ \A i \in 1..Len(r) : c[i] = r[i]
    BY <1>1
  <2> QED
    BY <2>1 DEF Punct, Tok
<1>3. PICK n \in Nat \ {0} :
        /\ Len(r) = 2 * n + 1 /\ r[1].t = "open"
        /\ \A k \in 1..n : r[2 * k].t = "row" /\ r[2 * k + 1].t = IF k < n THEN "comma" ELSE "blank"
  BY DEF ClosedArray
<1>4. n \in 1..Len(c) /\ Len(c) = 2 * n + 2 /\ c[1].t = "open" /\ c[Len(c)].t = "close"
  BY <1>2, <1>3
<1>5. ASSUME NEW k \in 1..n
      PROVE  c[2 * k].t = "row" /\ c[2 * k + 1].t = IF k < n THEN "comma" ELSE "blank"
  <2>1. 2 * k \in 1..Len(r) /\ 2 * k + 1 \in 1..Len(r)
    BY <1>3
  <2> QED
    BY <1>2, <1>3, <2>1
<1> QED
  BY <1>4, <1>5 DEF IsArray, c

LEMMA NothingCloses == Closing(<<>>) = <<Punct("none")>> /\ \A f : WithEnd(<<>>, f) = <<>>
  BY NoItems DEF Closing, WithEnd

-----------------------------------------------------------------------------
(* The stream.                                                             *)
Ended == Len(stream) > 0 => stream[Len(stream)].m = "ready"
RowsRun ==
  \A i, j \in 1..Len(stream) :
    i < j /\ stream[i].m = "row" /\ (\A k \in (i + 1)..(j - 1) : stream[k].m = "part") =>
      stream[j].m \in {"row", "part", "done", "error"}
RowsOnce ==
  \A i, j, k \in 1..Len(stream) :
    i < j /\ j < k /\ stream[i].m = "row" /\ stream[j].m = "done" /\ stream[k].m = "row" =>
      stream[i].q # stream[k].q
Ordered == Ended /\ RowsRun /\ RowsOnce
UnsentIsNew == out > 0 => \A i \in 1..Len(stream) : stream[i].q # cur

LEMMA DeliverOrdered ==
  ASSUME IInv, OneSetOfRows, Ordered, NEW q \in 0..MaxRequests, Deliver(q),
         \A i \in 1..Len(stream) : stream[i].q # q
  PROVE  Ordered'
<1>1. stream \in Seq(Message)
  BY DEF IInv, TypeOK, Message
<1>2. CASE stream' = stream
  <2>1. Ended'
    BY <1>2 DEF Ordered, Ended
  <2>2. RowsRun'
    <3> SUFFICES ASSUME NEW i \in 1..Len(stream), NEW j \in 1..Len(stream),
                        i < j, stream[i].m = "row",
                        \A k \in (i + 1)..(j - 1) : stream[k].m = "part"
                 PROVE  stream[j].m \in {"row", "part", "done", "error"}
      BY <1>2 DEF RowsRun
    <3> QED
      BY DEF Ordered, RowsRun
  <2>3. RowsOnce'
    BY <1>2 DEF Ordered, RowsOnce
  <2> QED
    BY <2>1, <2>2, <2>3 DEF Ordered
<1>3. ASSUME NEW s \in Replies, stream' = stream \o [i \in 1..Len(s) |-> [q |-> q, m |-> s[i]]]
      PROVE  Ordered'
  <2>1. WellEnded(s) /\ s \in Seq(Kind) /\ Len(s) \in Nat /\ Len(s) > 0
    BY RepliesAssumption DEF WellEnded
  <2> DEFINE t == [i \in 1..Len(s) |-> [q |-> q, m |-> s[i]]]
             L == Len(stream)
  <2>2. t \in Seq(Message) /\ Len(t) = Len(s)
    BY <2>1 DEF Message
  <2>3. \A i \in 1..Len(s) : t[i].q = q /\ t[i].m = s[i]
    OBVIOUS
  <2>4. stream' = stream \o t
    BY <1>3
  <2> HIDE DEF t
  <2>5. /\ Len(stream') = L + Len(s) /\ L \in Nat
        /\ \A i \in 1..(L + Len(s)) : stream'[i] = IF i <= L THEN stream[i] ELSE t[i - L]
    <3>1. /\ stream \o t \in Seq(Message)
          /\ Len(stream \o t) = Len(stream) + Len(t)
          /\ \A i \in 1..(Len(stream) + Len(t)) :
               (stream \o t)[i] = IF i <= Len(stream) THEN stream[i] ELSE t[i - Len(stream)]
      BY <1>1, <2>2, ConcatProperties, ZenonT(30)
    <3>2. L \in Nat
      BY <1>1
    <3> QED
      BY <2>2, <2>4, <3>1, <3>2, Zenon
  <2>6. \A i \in 1..L : stream'[i] = stream[i] /\ stream'[i].q # q
    BY <2>1, <2>5
  <2>7. \A i \in 1..Len(stream') : i > L =>
          i - L \in 1..Len(s) /\ stream'[i].q = q /\ stream'[i].m = s[i - L]
    <3> SUFFICES ASSUME NEW i \in 1..Len(stream'), i > L
                 PROVE  i - L \in 1..Len(s) /\ stream'[i].q = q /\ stream'[i].m = s[i - L]
      OBVIOUS
    <3>1. i - L \in 1..Len(s) /\ stream'[i] = t[i - L]
      BY <2>1, <2>5
    <3> QED
      BY <2>3, <3>1
  <2>8. L > 0 => stream[L].m = "ready"
    BY DEF Ordered, Ended
  <2>9. Ended'
    <3>1. Len(stream') \in 1..Len(stream') /\ Len(stream') > L /\ Len(stream') - L = Len(s)
      BY <2>1, <2>5
    <3>2. s[Len(s)] = "ready"
      BY <2>1 DEF WellEnded
    <3> QED
      BY <2>7, <3>1, <3>2 DEF Ended
  <2> HIDE DEF L
  <2>10. RowsRun'
    <3> SUFFICES ASSUME NEW i \in 1..Len(stream'), NEW j \in 1..Len(stream'),
                        i < j, stream'[i].m = "row",
                        \A k \in (i + 1)..(j - 1) : stream'[k].m = "part"
                 PROVE  stream'[j].m \in {"row", "part", "done", "error"}
      BY DEF RowsRun
    <3>0. i \in Nat /\ j \in Nat /\ L \in Nat /\ Len(s) \in Nat /\ Len(stream') = L + Len(s)
      BY <2>1, <2>5
    <3>1. CASE j <= L
      <4>1. i \in 1..L /\ j \in 1..L
        BY <3>0, <3>1
      <4>2. \A k \in (i + 1)..(j - 1) : k \in 1..L
        BY <3>0, <4>1
      <4>3. \A k \in (i + 1)..(j - 1) : stream[k].m = "part"
        BY <2>6, <4>2
      <4>4. stream[i].m = "row" /\ stream'[j] = stream[j]
        BY <2>6, <4>1
      <4> QED
        BY <4>1, <4>3, <4>4 DEF Ordered, RowsRun, L
    <3>2. CASE j > L /\ i <= L
      <4>1. i \in 1..L /\ L \in 1..L
        BY <3>0, <3>2
      <4>2. stream'[L].m = "ready"
        BY <2>6, <2>8, <3>0, <4>1
      <4>3. L \in (i + 1)..(j - 1) \/ i = L
        BY <3>0, <3>2, <4>1
      <4> QED
        BY <4>2, <4>3
    <3>3. CASE i > L
      <4>1. /\ j > L /\ i - L \in 1..Len(s) /\ j - L \in 1..Len(s) /\ i - L < j - L
            /\ s[i - L] = "row" /\ stream'[j].m = s[j - L]
        BY <2>7, <3>0, <3>3
      <4>2. ASSUME NEW k \in ((i - L) + 1)..((j - L) - 1) PROVE s[k] = "part"
        <5>1. /\ k + L \in (i + 1)..(j - 1) /\ k + L \in 1..Len(stream') /\ k + L > L
              /\ (k + L) - L = k
          BY <3>0, <3>3
        <5>2. stream'[k + L].m = s[k]
          BY <2>7, <5>1
        <5> QED
          BY <5>1, <5>2
      <4> QED
        BY <4>1, <4>2 DEF OneSetOfRows
    <3> QED
      BY <3>0, <3>1, <3>2, <3>3
  <2>11. RowsOnce'
    <3> SUFFICES ASSUME NEW i \in 1..Len(stream'), NEW j \in 1..Len(stream'),
                        NEW k \in 1..Len(stream'), i < j, j < k, stream'[i].m = "row",
                        stream'[j].m = "done", stream'[k].m = "row"
                 PROVE  stream'[i].q # stream'[k].q
      BY DEF RowsOnce
    <3>0. i \in Nat /\ j \in Nat /\ k \in Nat /\ L \in Nat /\ Len(s) \in Nat /\ Len(stream') = L + Len(s)
      BY <2>1, <2>5
    <3>1. CASE k <= L
      <4>1. i \in 1..L /\ j \in 1..L /\ k \in 1..L
        BY <3>0, <3>1
      <4> QED
        BY <2>6, <4>1 DEF Ordered, RowsOnce, L
    <3>2. CASE k > L /\ i <= L
      <4>1. i \in 1..L
        BY <3>0, <3>2
      <4> QED
        BY <2>6, <2>7, <3>2, <4>1
    <3>3. CASE i > L
      <4>1. /\ i - L \in 1..Len(s) /\ j - L \in 1..Len(s) /\ k - L \in 1..Len(s)
            /\ i - L < j - L /\ j - L < k - L
            /\ s[i - L] = "row" /\ s[j - L] = "done" /\ s[k - L] = "row"
        BY <2>7, <3>0, <3>3
      <4> QED
        BY <4>1 DEF OneSetOfRows
    <3> QED
      BY <3>0, <3>1, <3>2, <3>3
  <2> QED
    BY <2>9, <2>10, <2>11 DEF Ordered
<1> QED
  BY <1>2, <1>3 DEF Deliver

LEMMA PushOrdered ==
  ASSUME IInv, OneSetOfRows, Ordered, UnsentIsNew,
         \/ stream' = stream /\ cur' = cur /\ (out' > 0 => out > 0)
         \/ stream' = stream /\ out' = 0
         \/ Push /\ cur' = cur
         \/ out > 0 /\ out' = 0 /\ Deliver(cur)
  PROVE  Ordered' /\ UnsentIsNew'
<1>1. cur \in 0..MaxRequests /\ out \in Nat
  BY DEF IInv, TypeOK
<1>2. CASE stream' = stream
  <2>1. Ordered'
    BY <1>2 DEF Ordered, Ended, RowsRun, RowsOnce
  <2>2. out' = 0 \/ (cur' = cur /\ (out' > 0 => out > 0))
    BY <1>1 DEF Push
  <2> QED
    BY <1>1, <1>2, <2>1, <2>2 DEF UnsentIsNew
<1>3. CASE out > 0 /\ out' = 0 /\ Deliver(cur)
  BY <1>1, <1>3, DeliverOrdered DEF UnsentIsNew
<1> QED
  BY <1>1, <1>2, <1>3 DEF Push

LEMMA StepOrdered ==
  ASSUME NEW w, Workers = {w}, TInv(w), OneSetOfRows, Ordered, UnsentIsNew, [Next]_vars
  PROVE  Ordered' /\ UnsentIsNew'
<1> USE DEF TInv, SInv
<1>1. CASE Begin(w) \/ BackendEmit \/ BackendLost \/ UNCHANGED vars
  BY <1>1, PushOrdered DEF Begin, BackendEmit, BackendLost, vars, libpq, backend
<1>2. CASE SendBusy(w) \/ SendRefused(w) \/ Written(w)
  BY <1>2, PushOrdered DEF SendBusy, SendRefused, Written, libpq, backend
<1>3. CASE SendQuery(w)
  <2>1. /\ cur' = req[w] /\ pc[w] = "send" /\ req[w] \in 0..MaxRequests
        /\ \/ out' = 0 /\ Deliver(req[w])
           \/ stream' = stream
    BY <1>3 DEF SendQuery, IInv, TypeOK
  <2>2. \A i \in 1..Len(stream) : stream[i].q # req[w]
    BY <2>1 DEF Report, Mine
  <2>3. CASE out' = 0 /\ Deliver(req[w])
    BY <2>1, <2>2, <2>3, DeliverOrdered DEF UnsentIsNew
  <2>4. CASE stream' = stream
    BY <2>1, <2>2, <2>4 DEF UnsentIsNew, Ordered, Ended, RowsRun, RowsOnce
  <2> QED
    BY <2>1, <2>3, <2>4
<1>4. CASE Flush(w) \/ AwaitReply(w) \/ CheckWait(w)
  <2>1. /\ cur' = cur
        /\ \/ Push
           \/ stream' = stream /\ out' = out
           \/ stream' = stream /\ out' = 0
    BY <1>4 DEF Flush, AwaitReply, CheckWait, ConsumeInput
  <2> QED
    BY <2>1, PushOrdered
<1>5. CASE GetBlocks(w)
  BY <1>5, PushOrdered DEF GetBlocks
<1>6. CASE GetBroken(w) \/ GetResult(w) \/ GetNull(w) \/ CheckResult(w)
  BY <1>6, PushOrdered DEF GetBroken, GetResult, GetNull, CheckResult, backend
<1> QED
  BY <1>1, <1>2, <1>3, <1>4, <1>5, <1>6 DEF Next, Step, Finished

-----------------------------------------------------------------------------
(* The result taken last is a row; no row is left.                         *)
LastRow(w) ==
  \E l \in Taken(w) :
    \A k \in (l + 1)..parsed : stream[k].m = "part" \/ (k = parsed /\ async = "ready")
NoMore(w) == \A i \in 1..Len(stream) : Untaken(i) => stream[i].m # "row"

Shape(w) ==
  /\ pc[w] \in {"flush", "await"} => rep[w] = <<>>
  /\ pc[w] = "get" =>
       \/ rep[w] = <<>>
       \/ OpenArray(rep[w]) /\ LastRow(w)
       \/ ClosedArray(rep[w]) /\ NoMore(w)
  /\ pc[w] = "check" /\ res[w].m = "row" => (rep[w] = <<>> \/ OpenArray(rep[w])) /\ LastRow(w)
  /\ pc[w] = "check" /\ res[w].m = "done" =>
       rep[w] = <<>> \/ ((OpenArray(rep[w]) \/ ClosedArray(rep[w])) /\ NoMore(w))
  /\ pc[w] = "check" /\ res[w].m \in {"command", "empty"} =>
       rep[w] = <<>> \/ (ClosedArray(rep[w]) /\ NoMore(w))
  /\ rc[w] = 200 => rep[w] = <<Punct("none")>> \/ IsArray(rep[w])

JInv(w) == BInv(w) /\ Ordered /\ UnsentIsNew /\ Shape(w)

\* Most ends of a step ask for nothing.
LEMMA ShapeFree ==
  ASSUME NEW w, rc'[w] # 200,
         \/ pc'[w] \in {"idle", "send", "after"}
         \/ pc'[w] = "check" /\ res'[w].m \in {"error", "copy"}
  PROVE  Shape(w)'
  BY DEF Shape

\* A query whose rows have been taken was sent whole.
LEMMA RowsWereTaken ==
  ASSUME NEW w \in Workers, BInv(w), Counting(w), OpenArray(rep[w]) \/ ClosedArray(rep[w])
  PROVE  Taken(w) # {}
<1>1. rep[w] \in Seq(Tokens)
  BY DEF BInv, TInv, SInv, IInv, TypeOK
<1>2. Items(rep[w]) # {} /\ IsFiniteSet(Items(rep[w])) /\ Cardinality(Items(rep[w])) \in Nat
  BY <1>1, ArraysHaveItems, ItemsAreFinite
<1>3. Cardinality(Items(rep[w])) # 0
  BY <1>2, FS_EmptySet
<1>4. Cardinality(Items(rep[w])) + InHand(w) = Cardinality(Taken(w)) /\ InHand(w) \in {0, 1}
  BY DEF BInv, Body, InHand
<1>5. Cardinality(Taken(w)) # 0
  BY <1>2, <1>3, <1>4
<1> QED
  BY <1>5, FS_EmptySet

LEMMA TakenIsSent ==
  ASSUME NEW w \in Workers, BInv(w), UnsentIsNew, Waits(w), Taken(w) # {}
  PROVE  out = 0
<1>1. out \in Nat /\ cur = req[w]
  BY DEF BInv, TInv, SInv, IInv, TypeOK, Report, Mine
<1> QED
  BY <1>1 DEF UnsentIsNew, Taken, Rows

LEMMA ParsePassesParts ==
  ASSUME IInv, NEW a, ParseInput(a)
  PROVE  \A i \in (parsed + 1)..parsed' : stream[i].m = "part" \/ (i = parsed' /\ a # "busy")
<1>1. parsed \in Nat /\ read \in Nat
  BY DEF IInv, TypeOK
<1>2. ASSUME async = "busy", NEW p \in (parsed + 1)..read,
             \A i \in (parsed + 1)..(p - 1) : stream[i].m = "part", stream[p].m # "part",
             a = CASE stream[p].m = "ready" -> "idle"
                   [] stream[p].m = "copy"  -> "copy"
                   [] OTHER -> "ready",
             parsed' = p
      PROVE  \A i \in (parsed + 1)..parsed' : stream[i].m = "part" \/ (i = parsed' /\ a # "busy")
  <2>1. a # "busy"
    BY <1>2
  <2> QED
    BY <1>1, <1>2, <2>1
<1> QED
  BY <1>1, <1>2 DEF ParseInput

\* What comes after a row is a row, the end of the rows or an error.
LEMMA AfterRow ==
  ASSUME NEW w \in Workers, TInv(w), Ordered, LastRow(w), async \in {"busy", "ready"},
         NEW a, ParseInput(a), a # "busy"
  PROVE  a = "ready" /\ parsed' \in 1..Len(stream) /\ stream[parsed'].m \in {"row", "part", "done", "error"}
<1>1. /\ parsed \in Nat /\ parsed' \in Nat /\ parsed <= parsed' /\ parsed' <= Len(stream)
      /\ a \in AsyncValues
      /\ a \in {"ready", "copy"} => ((a = "copy") <=> (stream[parsed'].m = "copy"))
      /\ async = "ready" => a = "ready" /\ parsed' = parsed
      /\ async = "busy" => parsed' > parsed
      /\ async = "busy" /\ a = "idle" => parsed' = Len(stream)
      /\ Len(stream) \in Nat
  <2>1. parsed \in Nat /\ Len(stream) \in Nat
    BY DEF TInv, SInv, IInv, TypeOK
  <2> QED
    BY <2>1, ParsePasses DEF TInv, SInv, Shared
<1>2. PICK l \in Taken(w) :
        \A k \in (l + 1)..parsed : stream[k].m = "part" \/ (k = parsed /\ async = "ready")
  BY DEF LastRow
<1>3. /\ l \in 1..Len(stream) /\ stream[l].m = "row" /\ l <= parsed
      /\ async = "ready" => l < parsed
  BY <1>1, <1>2 DEF Taken, Rows
<1>4. l < parsed' /\ parsed' \in 1..Len(stream)
  BY <1>1, <1>3
<1>5. ASSUME NEW k \in (l + 1)..(parsed' - 1) PROVE stream[k].m = "part"
  <2>1. k \in Nat /\ k < parsed' /\ (k \in (l + 1)..parsed \/ k \in (parsed + 1)..parsed')
    BY <1>1, <1>3
  <2> QED
    BY <1>1, <1>2, <2>1, ParsePassesParts DEF TInv, SInv
<1>6. stream[parsed'].m \in {"row", "part", "done", "error"}
  BY <1>3, <1>4, <1>5 DEF Ordered, RowsRun
<1>7. a # "idle"
  BY <1>1, <1>4, <1>6 DEF Ordered, Ended
<1> QED
  BY <1>1, <1>4, <1>6, <1>7 DEF AsyncValues

LEMMA LastRowStays ==
  ASSUME NEW w \in Workers, TInv(w), Ordered, LastRow(w), ParseInput(async'),
         UNCHANGED <<stream, req>>
  PROVE  LastRow(w)'
<1>1. parsed \in Nat /\ parsed' \in Nat /\ parsed <= parsed'
  BY ParsePasses DEF TInv, SInv, Shared, IInv, TypeOK
<1>2. Rows(w)' = Rows(w) /\ Rows(w) \subseteq Nat
  BY DEF Rows
<1>3. CASE async # "busy"
  <2>1. async' = async /\ parsed' = parsed
    BY <1>3, NotBusyKeeps
  <2> QED
    BY <1>2, <2>1 DEF LastRow, Taken
<1>4. CASE async = "busy"
  <2>1. PICK l \in Taken(w) : \A k \in (l + 1)..parsed : stream[k].m = "part"
    BY <1>4 DEF LastRow
  <2>2. l \in Rows(w) /\ l \in Nat /\ l <= parsed
    BY <1>1, <1>2, <2>1 DEF Taken
  <2>3. async' = "busy" \/ (async' = "ready" /\ parsed' > parsed)
    BY <1>4, AfterRow, ParsePasses DEF TInv, SInv, Shared
  <2>4. l \in Taken(w)'
    BY <1>1, <1>2, <2>2, <2>3 DEF Taken
  <2>5. ASSUME NEW k \in (l + 1)..parsed'
        PROVE  stream[k].m = "part" \/ (k = parsed' /\ async' = "ready")
    <3>1. k \in (l + 1)..parsed \/ k \in (parsed + 1)..parsed'
      BY <1>1, <2>2
    <3> QED
      BY <2>1, <2>3, <3>1, ParsePassesParts DEF TInv, SInv
  <2> QED
    BY <2>4, <2>5 DEF LastRow
<1> QED
  BY <1>3, <1>4

\* What is left untaken only becomes less, but by what arrives.
LEMMA NoMoreStays ==
  ASSUME NEW w \in Workers, TInv(w), NoMore(w), NEW a, ParseInput(a), stream' = stream,
         async' = a \/ async' = "busy"
  PROVE  NoMore(w)'
<1>1. parsed \in Nat /\ parsed' \in Nat /\ parsed <= parsed'
  BY ParsePasses DEF TInv, SInv, Shared, IInv, TypeOK
<1>2. async # "busy" => a = async /\ parsed' = parsed
  BY NotBusyKeeps
<1>3. async = "busy" /\ a # "busy" => parsed' > parsed
  BY ParsePasses DEF TInv, SInv, Shared
<1> QED
  BY <1>1, <1>2, <1>3 DEF NoMore, Untaken

LEMMA BusyShape ==
  ASSUME NEW w \in Workers, JInv(w), pc[w] \in {"get", "check"}, pc'[w] = pc[w],
         async' = "busy", ParseInput("busy"), out = 0 => stream' = stream,
         UNCHANGED <<req, res>>, rep'[w] = rep[w], rc'[w] = rc[w]
  PROVE  Shape(w)'
<1>1. rc[w] = 0 /\ Waits(w)
  BY DEF JInv, BInv, TInv, Report, Mine, Waits
<1>2. CASE Taken(w) # {}
  <2>1. stream' = stream
    BY <1>1, <1>2, TakenIsSent DEF JInv
  <2>2. (LastRow(w) => LastRow(w)') /\ (NoMore(w) => NoMore(w)')
    BY <2>1, LastRowStays, NoMoreStays DEF JInv, BInv
  <2> QED
    BY <1>1, <2>2 DEF JInv, Shape
<1>3. CASE Taken(w) = {}
  <2>1. Counting(w) => ~OpenArray(rep[w]) /\ ~ClosedArray(rep[w])
    BY <1>3, RowsWereTaken DEF JInv
  <2>2. ~LastRow(w)
    BY <1>3 DEF LastRow
  <2> QED
    BY <1>1, <2>1, <2>2 DEF JInv, Shape, Counting
<1> QED
  BY <1>2, <1>3

LEMMA SendShape ==
  ASSUME NEW w \in Workers, JInv(w),
         Begin(w) \/ SendBusy(w) \/ SendRefused(w) \/ SendQuery(w) \/ Flush(w) \/ Written(w)
  PROVE  Shape(w)'
<1>1. /\ pc[w] # "idle" => rc[w] = 0
      /\ pc[w] = "send" => rep[w] = <<>>
      /\ pc[w] \in {"flush", "await"} => rep[w] = <<>>
  BY DEF JInv, Shape, BInv, Body, TInv, Report, Mine
<1>2. CASE Begin(w)
  <2>1. pc'[w] = "send" /\ rc'[w] = 0
    BY <1>2 DEF Begin, JInv, BInv, TInv, SInv, IInv, TypeOK
  <2> QED
    BY <2>1, ShapeFree
<1>3. CASE SendBusy(w) \/ SendRefused(w)
  <2>1. (pc'[w] = "send" /\ rc'[w] = 0) \/ (pc'[w] = "idle" /\ rc'[w] = 500)
    BY <1>1, <1>3 DEF SendBusy, SendRefused, Goto, Fail, Answer, JInv, BInv, TInv, SInv, IInv, TypeOK
  <2> QED
    BY <2>1, ShapeFree
<1>4. CASE SendQuery(w)
  <2>1. pc[w] = "send" /\ pc'[w] = "flush" /\ rc' = rc /\ rep' = rep
    BY <1>4 DEF SendQuery, Goto, JInv, BInv, TInv, SInv, IInv, TypeOK
  <2> QED
    BY <1>1, <2>1 DEF Shape
<1>5. CASE Flush(w) \/ Written(w)
  <2>1. /\ pc[w] = "flush"
        /\ \/ pc'[w] \in {"flush", "await"} /\ rc' = rc /\ rep' = rep
           \/ pc'[w] = "idle" /\ rc'[w] \in {429, 500}
    BY <1>5 DEF Flush, Written, Goto, Fail, Answer, JInv, BInv, TInv, SInv, IInv, TypeOK
  <2> QED
    BY <1>1, <2>1, ShapeFree DEF Shape
<1> QED
  BY <1>2, <1>3, <1>4, <1>5

LEMMA WaitShape ==
  ASSUME NEW w \in Workers, JInv(w),
         AwaitReply(w) \/ CheckWait(w) \/ GetBlocks(w) \/ GetBroken(w)
  PROVE  Shape(w)'
<1>1. /\ Waits(w) => rc[w] = 0
      /\ pc[w] = "await" => rep[w] = <<>>
  BY DEF JInv, Shape, BInv, TInv, Report, Mine, Waits
<1>2. CASE AwaitReply(w)
  <2>1. /\ pc[w] = "await"
        /\ \/ pc'[w] = "get" /\ rc' = rc /\ rep' = rep
           \/ pc'[w] = "idle" /\ rc'[w] = 500
    BY <1>2 DEF AwaitReply, Goto, Fail, Answer, JInv, BInv, TInv, SInv, IInv, TypeOK
  <2> QED
    BY <1>1, <2>1, ShapeFree DEF Shape, Waits
<1>3. CASE CheckWait(w)
  <2>1. pc[w] = "check" /\ ParseInput("busy") /\ async' = "busy" /\ req' = req /\ res' = res
    BY <1>3, BusyParses DEF CheckWait
  <2>2. CASE Fail(w, 500)
    <3>1. pc'[w] = "idle" /\ rc'[w] = 500
      BY <2>2, Ends DEF JInv, BInv, TInv, SInv
    <3> QED
      BY <3>1, ShapeFree
  <2>3. CASE ConsumeInput /\ Goto(w, "check")
    <3>1. pc'[w] = "check" /\ rc' = rc /\ rep' = rep
      BY <2>3 DEF Goto, JInv, BInv, TInv, SInv, IInv, TypeOK
    <3>2. out = 0 => stream' = stream
      BY <2>3, PushGrows DEF ConsumeInput, JInv, BInv, TInv, SInv, Shared
    <3> QED
      BY <2>1, <3>1, <3>2, BusyShape
  <2> QED
    BY <1>3, <2>2, <2>3 DEF CheckWait
<1>4. CASE GetBlocks(w)
  <2>1. /\ pc[w] \in {"get", "after"} /\ ParseInput("busy") /\ async' = "busy"
        /\ UNCHANGED <<req, res, pc, rc, rep>> /\ (out = 0 => stream' = stream)
    BY <1>4, BusyParses DEF GetBlocks, local
  <2>2. CASE pc[w] = "after"
    BY <1>1, <2>1, <2>2, ShapeFree DEF Waits
  <2> QED
    BY <2>1, <2>2, BusyShape
<1>5. CASE GetBroken(w)
  <2>1. pc[w] \in {"get", "after"} /\ pc'[w] = "check" /\ res'[w].m = "error" /\ rc' = rc
    BY <1>5 DEF GetBroken, Goto, JInv, BInv, TInv, SInv, IInv, TypeOK
  <2> QED
    BY <1>1, <2>1, ShapeFree DEF Waits
<1> QED
  BY <1>2, <1>3, <1>4, <1>5

LEMMA GetResultShape ==
  ASSUME NEW w \in Workers, JInv(w), GetResult(w), IInv' PROVE Shape(w)'
<1>1. /\ pc[w] \in {"get", "after"} /\ pc'[w] = "check" /\ rep' = rep /\ rc'[w] = 0
      /\ res'[w] = stream[parsed'] /\ stream' = stream /\ req' = req
  BY DEF GetResult, Goto, backend, JInv, BInv, TInv, SInv, IInv, TypeOK, Report, Mine
<1>2. CASE ParseInput("copy") /\ async' = "copy"
  <2>1. res'[w].m = "copy"
    BY <1>1, <1>2, ParsePasses DEF JInv, BInv, TInv, SInv, Shared
  <2> QED
    BY <1>1, <2>1, ShapeFree
<1>3. CASE ParseInput("ready") /\ async' = "busy"
  <2>0. CASE res'[w].m \in {"error", "copy"}
    BY <1>1, <2>0, ShapeFree
  <2> SUFFICES ASSUME res'[w].m \notin {"error", "copy"} PROVE Shape(w)'
    BY <2>0
  <2>1. /\ parsed \in Nat /\ parsed' \in Nat /\ parsed <= parsed' /\ parsed' \in 1..Len(stream)
        /\ async # "busy" => async = "ready" /\ parsed' = parsed
        /\ async = "busy" => parsed' > parsed
    <3>1. /\ parsed \in Nat /\ parsed' \in Nat /\ parsed <= parsed' /\ parsed' <= Len(stream)
          /\ async # "busy" => async = "ready" /\ parsed' = parsed
          /\ async = "busy" => parsed' > parsed
      <4>1. parsed \in Nat
        BY DEF JInv, BInv, TInv, SInv, IInv, TypeOK
      <4> QED
        BY <1>3, <4>1, ParsePasses DEF JInv, BInv, TInv, SInv, Shared
    <3>2. parsed' > 0
      BY <1>3, ParseFacts DEF JInv, BInv, TInv, SInv
    <3>3. Len(stream) \in Nat
      BY DEF JInv, BInv, TInv, SInv, IInv, TypeOK
    <3> QED
      BY <3>1, <3>2, <3>3
  <2>2. Untaken(parsed')
    BY <2>1 DEF Untaken
  <2>3. /\ stream[parsed'].q = req[w]
        /\ \A i \in 1..Len(stream) : i > parsed' => stream[i].q = req[w]
    BY <1>1, <1>3, <2>1, ParseKeepsMine DEF JInv, BInv, Waits
  <2>4. pc[w] = "get"
    <3> SUFFICES ASSUME pc[w] = "after" PROVE FALSE
      BY <1>1
    <3>1. sock
      BY <1>3, NotBusyKeeps DEF JInv, BInv, TInv, SInv, Closed
    <3>2. Refused(w) \/ Copying
      BY DEF JInv, BInv, TInv, Report, Told
    <3>3. async = "idle" \/ (async = "busy" /\ parsed + 1 = Len(stream)) \/ async = "copy"
      BY <3>1, <3>2 DEF Refused, Copying
    <3> QED
      BY <1>3, <3>3, ParsePasses DEF JInv, BInv, TInv, SInv, Shared
  <2>5. res'[w].m \in {"row", "done", "command", "empty"}
    BY DEF IInv, TypeOK, ResultKind
  <2>6. LastRow(w) => res'[w].m \in {"row", "done"}
    BY <1>1, <1>3, <2>1, <2>5, AfterRow DEF JInv, BInv
  <2>7. NoMore(w) => res'[w].m # "row" /\ NoMore(w)'
    BY <1>1, <1>3, <2>1, <2>2, NoMoreStays DEF JInv, BInv, NoMore
  <2>8. res'[w].m = "row" => LastRow(w)'
    <3> SUFFICES ASSUME res'[w].m = "row" PROVE LastRow(w)'
      OBVIOUS
    <3>1. parsed' \in Taken(w)'
      BY <1>1, <1>3, <2>1, <2>3 DEF Taken, Rows
    <3>2. parsed' \in Nat
      BY <2>1
    <3>3. ASSUME NEW k \in (parsed' + 1)..parsed' PROVE FALSE
      BY <3>2
    <3> QED
      BY <3>1, <3>3 DEF LastRow
  <2>9. LastRow(w) /\ res'[w].m = "done" => NoMore(w)'
    <3> SUFFICES ASSUME LastRow(w), stream[parsed'].m = "done",
                        NEW i \in 1..Len(stream), Untaken(i)'
                 PROVE  stream[i].m # "row"
      BY <1>1 DEF NoMore
    <3>1. PICK l \in Taken(w) : TRUE
      BY DEF LastRow
    <3>2. l \in 1..Len(stream) /\ stream[l].m = "row" /\ stream[l].q = req[w] /\ l < parsed'
      <4>1. l \in 1..Len(stream) /\ l <= parsed /\ (async = "ready" => l # parsed)
              /\ stream[l].m = "row" /\ stream[l].q = req[w]
        BY <2>1 DEF Taken, Rows
      <4> QED
        BY <2>1, <4>1
    <3>3. i > parsed'
      BY <1>3 DEF Untaken
    <3>4. stream[i].q = stream[l].q
      BY <2>3, <3>2, <3>3
    <3> QED
      BY <2>1, <3>2, <3>3, <3>4 DEF JInv, Ordered, RowsOnce
  <2> QED
    BY <1>1, <2>4, <2>5, <2>6, <2>7, <2>8, <2>9 DEF JInv, Shape
<1> QED
  BY <1>2, <1>3 DEF GetResult

LEMMA GetNullShape == ASSUME NEW w \in Workers, JInv(w), GetNull(w) PROVE Shape(w)'
<1>1. /\ ParseInput("idle") /\ pc'[w] = "idle" /\ rep[w] \in Seq(Tokens)
      /\ \/ pc[w] = "get" /\ rep'[w] = Closing(rep[w])
         \/ pc[w] = "after" /\ rc'[w] = 400
  BY DEF GetNull, Answer, JInv, BInv, TInv, SInv, IInv, TypeOK
<1>2. CASE pc[w] = "after"
  BY <1>1, <1>2, ShapeFree
<1>3. CASE pc[w] = "get"
  <2>1. ~LastRow(w)
    <3> SUFFICES ASSUME LastRow(w) PROVE FALSE
      OBVIOUS
    <3>1. async = "idle"
      <4>1. async \notin {"busy", "ready"}
        BY <1>1, AfterRow DEF JInv, BInv
      <4> QED
        BY <1>1, <4>1, NotBusyKeeps
    <3>2. sock
      BY <1>3, <3>1 DEF JInv, BInv, TInv, SInv, Closed
    <3>3. parsed = Len(stream) /\ Len(stream) \in Nat
      BY <3>1, <3>2 DEF JInv, BInv, TInv, SInv, IInv, TypeOK, ConnectionInv, IdleMeansDrained
    <3>4. PICK l \in Taken(w) : \A k \in (l + 1)..parsed : stream[k].m = "part"
      BY <3>1 DEF LastRow
    <3>5. l \in 1..Len(stream) /\ stream[l].m = "row"
      BY DEF Taken, Rows
    <3>6. stream[Len(stream)].m = "ready"
      BY <3>3, <3>5 DEF JInv, Ordered, Ended
    <3> QED
      BY <3>3, <3>4, <3>5, <3>6
  <2>2. rep[w] = <<>> \/ ClosedArray(rep[w])
    BY <1>3, <2>1 DEF JInv, Shape
  <2> QED
    BY <1>1, <1>3, <2>2, NothingCloses, ArrayCloses DEF Shape
<1> QED
  BY <1>1, <1>2, <1>3

LEMMA CheckResultShape == ASSUME NEW w \in Workers, JInv(w), CheckResult(w) PROVE Shape(w)'
<1>1. /\ pc[w] = "check" /\ ParseInput(async') /\ rc'[w] = 0
      /\ stream' = stream /\ req' = req /\ rep[w] \in Seq(Tokens) /\ res[w].q \in 0..MaxRequests
      /\ \/ res[w].m \in {"command", "empty"} /\ pc'[w] = "get" /\ rep'[w] = rep[w]
         \/ res[w].m = "row" /\ pc'[w] = "get" /\ rep'[w] = WithRow(rep[w], res[w].q)
         \/ res[w].m = "done" /\ pc'[w] = "get" /\ rep'[w] = WithEnd(rep[w], single[w])
         \/ res[w].m \in {"error", "copy"} /\ pc'[w] = "after"
  BY DEF CheckResult, Goto, backend, JInv, BInv, TInv, SInv, IInv, TypeOK, Report, Mine
<1>2. LastRow(w) => LastRow(w)'
  BY <1>1, LastRowStays DEF JInv, BInv
<1>3. NoMore(w) => NoMore(w)'
  BY <1>1, NoMoreStays DEF JInv, BInv
<1>4. CASE res[w].m \in {"command", "empty"}
  BY <1>1, <1>3, <1>4 DEF JInv, Shape
<1>5. CASE res[w].m = "row"
  <2>1. (rep[w] = <<>> \/ OpenArray(rep[w])) /\ LastRow(w)
    BY <1>1, <1>5 DEF JInv, Shape
  <2>2. OpenArray(rep'[w])
    BY <1>1, <1>5, <2>1, FirstRow, NextRow
  <2> QED
    BY <1>1, <1>2, <1>5, <2>1, <2>2 DEF Shape
<1>6. CASE res[w].m = "done"
  <2>1. rep[w] = <<>> \/ ((OpenArray(rep[w]) \/ ClosedArray(rep[w])) /\ NoMore(w))
    BY <1>1, <1>6 DEF JInv, Shape
  <2>2. rep'[w] = <<>> \/ (ClosedArray(rep'[w]) /\ NoMore(w)')
    <3>1. CASE rep[w] = <<>>
      BY <1>1, <1>6, <3>1, NothingCloses
    <3>2. CASE (OpenArray(rep[w]) \/ ClosedArray(rep[w])) /\ NoMore(w)
      <4>1. single[w] = TRUE
        <5>1. Items(rep[w]) # {} /\ single[w] \in BOOLEAN
          BY <1>1, <3>2, ArraysHaveItems DEF JInv, BInv, TInv, SInv, IInv, TypeOK
        <5> QED
          BY <5>1 DEF JInv, BInv, Flag
      <4>2. rep'[w] = WithEnd(rep[w], TRUE)
        BY <1>1, <1>6, <4>1
      <4> QED
        BY <1>1, <1>3, <3>2, <4>2, RowsEnd
    <3> QED
      BY <2>1, <3>1, <3>2
  <2> QED
    BY <1>1, <1>6, <2>2 DEF Shape
<1>7. CASE res[w].m \in {"error", "copy"}
  BY <1>1, <1>7, ShapeFree
<1> QED
  BY <1>1, <1>4, <1>5, <1>6, <1>7

LEMMA OthersShape ==
  ASSUME NEW w \in Workers, JInv(w), BackendEmit \/ BackendLost \/ UNCHANGED vars
  PROVE  Shape(w)'
<1>1. UNCHANGED <<async, parsed, stream, pc, req, res, rep, rc>>
  BY DEF BackendEmit, BackendLost, vars, libpq, backend, local
<1>2. UNCHANGED <<LastRow(w), NoMore(w)>>
  BY <1>1 DEF LastRow, NoMore, Taken, Rows, Untaken
<1> QED
  BY <1>1, <1>2 DEF JInv, Shape

(* With one request at a time, and answers with at most one set of rows    *)
(* (the comment at db.c:177-178), the rows of a 200 are framed as one JSON *)
(* array: opened once, parted by single commas, the last comma blanked at  *)
(* the end, and closed (db.c:188-246).  A row's own text is not covered.   *)
THEOREM BodiesAreFramed ==
  ASSUME NEW w, Workers = {w}, OneSetOfRows
  PROVE  Spec => []BodyIsFramed
<1>1. Init => JInv(w)
  <2> SUFFICES ASSUME Init PROVE JInv(w)
    OBVIOUS
  <2>1. BInv(w)
    BY InitReports, NoItems DEF Init, BInv, Body, Counting, Flag
  <2>2. Ordered /\ UnsentIsNew
    BY DEF Init, Ordered, Ended, RowsRun, RowsOnce, UnsentIsNew
  <2>3. Shape(w)
    BY DEF Init, Shape
  <2> QED
    BY <2>1, <2>2, <2>3 DEF JInv
<1>2. JInv(w) /\ [Next]_vars => JInv(w)'
  <2> SUFFICES ASSUME JInv(w), [Next]_vars PROVE JInv(w)'
    OBVIOUS
  <2>1. BInv(w)'
    BY StepBody DEF JInv
  <2>2. Ordered' /\ UnsentIsNew'
    BY StepOrdered DEF JInv, BInv
  <2>3. Shape(w)'
    <3>1. IInv'
      BY <2>1 DEF BInv, TInv, SInv
    <3>2. CASE Begin(w) \/ Step(w)
      BY <3>1, <3>2, SendShape, WaitShape, GetResultShape, GetNullShape, CheckResultShape DEF Step
    <3>3. CASE BackendEmit \/ BackendLost \/ UNCHANGED vars
      BY <3>3, OthersShape
    <3> QED
      BY <3>2, <3>3 DEF Next, Finished
  <2> QED
    BY <2>1, <2>2, <2>3 DEF JInv
<1>3. JInv(w) => BodyIsFramed
  BY DEF JInv, Shape, BodyIsFramed
<1> QED
  BY <1>1, <1>2, <1>3, PTL DEF Spec

-----------------------------------------------------------------------------
(* Threads that share a session.  The strengthening: a row fits a worker   *)
(* when it is of its own query or stands behind the answer to it; from its *)
(* query on, all a worker may still take fits; and as long as its answer   *)
(* has not arrived there is nothing to take, and no other query is         *)
(* accepted unless the connection is lost.                                 *)
Behind(w, q) ==
  /\ Own(w) # {}
  /\ \A k \in Own(w), j \in 1..Len(stream) : stream[j].q = q => k < j
Fits(w, q) == q = req[w] \/ Behind(w, q)

\* The same after a step, of a query named before it.
FitsNext(w, q) ==
  \/ q = req'[w]
  \/ /\ Own(w)' # {}
     /\ \A k \in Own(w)', j \in 1..Len(stream') : stream'[j].q = q => k < j
RowQs(r) == {r[i].q : i \in Items(r)}

Counted ==
  /\ ErrorsEnd
  /\ cur <= nreq
  /\ \A i \in 1..Len(stream) : stream[i].q <= nreq
  /\ UnsentIsNew
  /\ \A w \in Workers : req[w] <= nreq /\ (pc[w] # "idle" => req[w] > 0)
  /\ \A v, w \in Workers : req[v] = req[w] /\ req[v] > 0 => v = w

NoneLeft == parsed = Len(stream) /\ async \notin {"ready", "copy"}

Place(w) ==
  /\ pc[w] = "send" => cur # req[w] /\ Own(w) = {}
  /\ Waits(w) /\ Own(w) = {} =>
       NoneLeft /\ (sock => cur = req[w] /\ async = "busy")
  /\ Waits(w) => \A i \in 1..Len(stream) : Untaken(i) => Fits(w, stream[i].q)

Holds(w) ==
  /\ \A q \in RowQs(rep[w]) : Fits(w, q)
  /\ pc[w] = "check" /\ res[w].m = "row" => Fits(w, res[w].q)

OInv == IInv /\ Counted /\ \A w \in Workers : Place(w) /\ Holds(w)

-----------------------------------------------------------------------------
(* What the steps write: rows of a body, by the query they belong to.      *)
LEMMA NoRowQs == RowQs(<<>>) = {}
  BY NoItems DEF RowQs

LEMMA PunctRowQs ==
  ASSUME NEW r \in Seq(Tokens), NEW t, t # "row"
  PROVE  RowQs(Append(r, Punct(t))) = RowQs(r)
<1>1. /\ Len(Append(r, Punct(t))) = Len(r) + 1 /\ Len(r) \in Nat
      /\ \A i \in 1..Len(r) : Append(r, Punct(t))[i] = r[i]
      /\ Append(r, Punct(t))[Len(r) + 1] = Punct(t)
  OBVIOUS
<1>2. Punct(t).t # "row"
  BY DEF Punct, Tok
<1>3. Items(Append(r, Punct(t))) = Items(r)
  BY <1>1, <1>2 DEF Items
<1>4. \A i \in Items(r) : Append(r, Punct(t))[i] = r[i]
  BY <1>1 DEF Items
<1> QED
  BY <1>3, <1>4 DEF RowQs

LEMMA RowRowQs ==
  ASSUME NEW r \in Seq(Tokens), NEW q \in 0..MaxRequests
  PROVE  RowQs(WithRow(r, q)) \subseteq RowQs(r) \cup {q}
<1> DEFINE b == IF Items(r) = {} THEN Append(r, Punct("open")) ELSE r
<1> DEFINE c == WithRow(r, q)
<1>1. Tok("row", q) \in Tokens /\ Punct("comma") \in Tokens /\ Punct("open") \in Tokens
  BY BoundsAssumption DEF Tok, Punct, Tokens
<1>2. b \in Seq(Tokens) /\ RowQs(b) = RowQs(r)
  BY <1>1, PunctRowQs
<1>3. c = b \o <<Tok("row", q), Punct("comma")>>
  BY DEF WithRow
<1> HIDE DEF b, c
<1>4. /\ Len(c) = Len(b) + 2 /\ Len(b) \in Nat
      /\ \A i \in 1..Len(b) : c[i] = b[i]
      /\ c[Len(b) + 1] = Tok("row", q) /\ c[Len(b) + 2] = Punct("comma")
  BY <1>1, <1>2, <1>3
<1>5. Tok("row", q).q = q /\ Punct("comma").t # "row"
  BY DEF Tok, Punct
<1>6. ASSUME NEW i \in Items(c) PROVE c[i].q \in RowQs(b) \cup {q}
  <2>1. i \in 1..Len(c) /\ c[i].t = "row"
    BY DEF Items
  <2>2. CASE i \in 1..Len(b)
    <3>1. i \in Items(b) /\ c[i] = b[i]
      BY <1>4, <2>1, <2>2 DEF Items
    <3> QED
      BY <3>1 DEF RowQs
  <2>3. CASE i \notin 1..Len(b)
    <3>1. i = Len(b) + 1 \/ i = Len(b) + 2
      BY <1>4, <2>1, <2>3
    <3> QED
      BY <1>4, <1>5, <2>1, <3>1
  <2> QED
    BY <2>2, <2>3
<1>7. RowQs(c) \subseteq RowQs(b) \cup {q}
  BY <1>6 DEF RowQs
<1> QED
  BY <1>2, <1>7 DEF c

LEMMA EndRowQs ==
  ASSUME NEW r \in Seq(Tokens), NEW f
  PROVE  RowQs(WithEnd(r, f)) \subseteq RowQs(r)
<1>1. CASE ~(f /\ r # <<>>)
  BY <1>1 DEF WithEnd
<1>2. CASE f /\ r # <<>>
  <2>1. Len(r) \in 1..Len(r)
    BY <1>2
  <2>2. /\ WithEnd(r, f) = [r EXCEPT ![Len(r)] = Punct("blank")]
        /\ Punct("blank").t # "row"
    BY <1>2 DEF WithEnd, Punct, Tok
  <2>3. /\ Len(WithEnd(r, f)) = Len(r) /\ WithEnd(r, f)[Len(r)] = Punct("blank")
        /\ \A i \in 1..Len(r) : i # Len(r) => WithEnd(r, f)[i] = r[i]
    BY <2>1, <2>2
  <2>4. \A i \in Items(WithEnd(r, f)) : i \in Items(r) /\ WithEnd(r, f)[i] = r[i]
    BY <2>2, <2>3 DEF Items
  <2> QED
    BY <2>4 DEF RowQs
<1> QED
  BY <1>1, <1>2

-----------------------------------------------------------------------------
(* What the steps do to the stream.                                        *)

\* Whatever fitted goes on fitting, unless a worker's own answer comes late.
LEMMA FitsStay ==
  ASSUME IInv, NEW v \in Workers, req'[v] = req[v], NEW g, Grown(g),
         stream' = stream \/ g # req[v] \/ Own(v) = {},
         NEW q, Fits(v, q)
  PROVE  FitsNext(v, q)
<1>1. CASE q = req[v]
  BY <1>1 DEF FitsNext
<1>2. CASE stream' = stream
  BY <1>2 DEF Fits, FitsNext, Behind, Own
<1>3. CASE q # req[v] /\ stream' # stream
  <2>1. Behind(v, q) /\ g # req[v]
    BY <1>3 DEF Fits, Behind
  <2>2. Len(stream) \in Nat /\ Len(stream') \in Nat
    BY DEF IInv, TypeOK, Grown
  <2>3. Own(v)' = Own(v)
    <3>1. ASSUME NEW i \in 1..Len(stream') PROVE stream'[i].q = req[v] => i \in Own(v)
      <4>1. CASE i > Len(stream)
        BY <2>1, <4>1 DEF Grown
      <4>2. CASE i \in 1..Len(stream)
        BY <4>2 DEF Grown, Own
      <4> QED
        BY <2>2, <4>1, <4>2
    <3>2. ASSUME NEW i \in Own(v) PROVE i \in 1..Len(stream') /\ stream'[i].q = req[v]
      BY <2>2 DEF Grown, Own
    <3> QED
      BY <3>1, <3>2 DEF Own
  <2>4. ASSUME NEW k \in Own(v), NEW j \in 1..Len(stream'), stream'[j].q = q PROVE k < j
    <3>1. k \in 1..Len(stream)
      BY DEF Own
    <3>2. CASE j > Len(stream)
      BY <2>2, <3>1, <3>2
    <3>3. CASE j \in 1..Len(stream)
      BY <2>1, <2>4, <3>3 DEF Grown, Behind
    <3> QED
      BY <2>2, <3>2, <3>3
  <2> QED
    BY <2>1, <2>3, <2>4 DEF FitsNext, Behind
<1> QED
  BY <1>1, <1>2, <1>3

(* A step that sends no new query: it may deliver the one accepted last,   *)
(* parse what was read, or lose the connection.                            *)
Reads ==
  /\ UNCHANGED <<cur, nreq, req>>
  /\ Grown(cur)
  /\ stream' = stream \/ (Len(stream') > Len(stream) /\ out > 0 /\ out' = 0 /\ sock)
  /\ out' > 0 => out > 0
  /\ sock' => sock
  /\ parsed' \in Nat
  /\ \A i \in 1..Len(stream) : Untaken(i)' => Untaken(i)
  /\ NoneLeft => /\ parsed' = parsed /\ async' \notin {"ready", "copy"}
                 /\ sock' /\ async = "busy" => async' = "busy"

LEMMA ReadsCount ==
  ASSUME OInv, Reads, \A v \in Workers : pc'[v] # "idle" => pc[v] # "idle"
  PROVE  Counted'
<1>1. ErrorsEnd'
  BY DEF Reads, Grown
<1>2. \A i \in 1..Len(stream') : stream'[i].q <= nreq
  <2>1. /\ \A i \in 1..Len(stream) : stream[i].q <= nreq
        /\ cur <= nreq /\ Len(stream) \in Nat /\ Grown(cur)
    BY DEF OInv, Counted, IInv, TypeOK, Reads
  <2> QED
    BY <2>1 DEF Grown
<1>3. UnsentIsNew'
  <2> SUFFICES ASSUME out' > 0 PROVE \A i \in 1..Len(stream') : stream'[i].q # cur
    BY DEF UnsentIsNew, Reads
  <2>1. stream' = stream /\ out > 0
    BY DEF Reads
  <2> QED
    BY <2>1 DEF OInv, Counted, UnsentIsNew
<1>4. \A w \in Workers : req[w] <= nreq /\ (pc'[w] # "idle" => req[w] > 0)
  BY DEF OInv, Counted
<1>5. UNCHANGED <<cur, nreq, req>>
  BY DEF Reads
<1> QED
  BY <1>1, <1>2, <1>3, <1>4, <1>5 DEF OInv, Counted

LEMMA ReadsFit ==
  ASSUME OInv, Reads, NEW v \in Workers, NEW q, Fits(v, q)
  PROVE  FitsNext(v, q)
<1>1. Own(v) = {} \/ cur # req[v] \/ stream' = stream
  <2> SUFFICES ASSUME stream' # stream, cur = req[v] PROVE Own(v) = {}
    OBVIOUS
  <2>1. out > 0
    BY DEF Reads
  <2> QED
    BY <2>1 DEF OInv, Counted, UnsentIsNew, Own
<1>2. IInv /\ Grown(cur) /\ req'[v] = req[v]
  BY DEF OInv, Reads
<1> QED
  BY <1>1, <1>2, FitsStay

LEMMA ReadsPlace ==
  ASSUME OInv, Reads, NEW v \in Workers,
         pc'[v] = "send" => pc[v] = "send", Waits(v)' => Waits(v)
  PROVE  Place(v)'
<1>1. /\ Place(v) /\ IInv /\ Grown(cur) /\ Len(stream) \in Nat /\ Len(stream') \in Nat
      /\ Len(stream) <= Len(stream')
      /\ cur' = cur /\ req' = req
  BY DEF OInv, Reads, Grown, IInv, TypeOK
<1>2. ASSUME Own(v) = {}, Own(v)' # {} PROVE stream' # stream /\ cur = req[v]
  <2>1. PICK i \in 1..Len(stream') : stream'[i].q = req[v]
    BY <1>1, <1>2 DEF Own
  <2>2. ~(i \in 1..Len(stream))
    BY <1>1, <1>2, <2>1 DEF Own, Grown
  <2>3. i > Len(stream)
    BY <1>1, <2>1, <2>2
  <2>4. stream'[i].q = cur
    BY <1>1, <2>3 DEF Grown
  <2> QED
    BY <2>1, <2>2, <2>4
<1>3. Own(v)' = {} => Own(v) = {}
  <2> SUFFICES ASSUME NEW i \in Own(v) PROVE i \in Own(v)'
    OBVIOUS
  <2>1. i \in 1..Len(stream) /\ stream[i].q = req[v]
    BY DEF Own
  <2>2. i \in 1..Len(stream') /\ stream'[i].q = req[v]
    BY <1>1, <2>1 DEF Grown
  <2> QED
    BY <1>1, <2>2 DEF Own
<1>4. pc'[v] = "send" => cur # req[v] /\ Own(v)' = {}
  BY <1>1, <1>2 DEF Place
<1>5. ASSUME Waits(v)', Own(v)' = {}
      PROVE  NoneLeft' /\ (sock' => cur' = req'[v] /\ async' = "busy")
  <2>1. /\ NoneLeft /\ (sock => cur = req[v] /\ async = "busy")
    BY <1>1, <1>3, <1>5 DEF Place
  <2>2. stream' = stream
    <3> SUFFICES ASSUME stream' # stream PROVE FALSE
      OBVIOUS
    <3>1. Len(stream') > Len(stream) /\ cur = req[v]
      BY <2>1 DEF Reads
    <3>2. Len(stream') \in 1..Len(stream') /\ stream'[Len(stream')].q = cur
      BY <1>1, <3>1 DEF Grown
    <3> QED
      BY <1>1, <1>5, <3>1, <3>2 DEF Own
  <2>3. NoneLeft'
    BY <2>1, <2>2 DEF Reads, NoneLeft
  <2>4. sock' => sock /\ async' = "busy"
    BY <2>1 DEF Reads
  <2> QED
    BY <1>1, <2>1, <2>3, <2>4
<1>6. ASSUME Waits(v)', NEW i \in 1..Len(stream'), Untaken(i)'
      PROVE  FitsNext(v, stream'[i].q)
  <2>1. CASE i \in 1..Len(stream)
    <3>1. Untaken(i) /\ stream'[i] = stream[i]
      BY <1>1, <1>6, <2>1 DEF Reads, Grown
    <3>2. Fits(v, stream[i].q)
      BY <1>1, <1>6, <2>1, <3>1 DEF Place
    <3>3. FitsNext(v, stream[i].q)
      BY <3>2, ReadsFit
    <3> QED
      BY <3>1, <3>3
  <2>2. CASE i > Len(stream)
    <3>1. stream'[i].q = cur /\ stream' # stream /\ out > 0 /\ sock
      BY <1>1, <2>2 DEF Grown, Reads
    <3>2. CASE cur = req[v]
      BY <1>1, <3>1, <3>2 DEF FitsNext
    <3>3. CASE cur # req[v]
      <4>1. Own(v) # {}
        BY <1>1, <1>6, <3>1, <3>3 DEF Place
      <4>2. \A j \in 1..Len(stream) : stream[j].q # cur
        BY <3>1 DEF OInv, Counted, UnsentIsNew
      <4>3. Behind(v, cur)
        BY <4>1, <4>2 DEF Behind
      <4>4. FitsNext(v, cur)
        BY <4>3, ReadsFit DEF Fits
      <4> QED
        BY <3>1, <4>4
    <3> QED
      BY <3>2, <3>3
  <2> QED
    BY <1>1, <2>1, <2>2
<1>7. Waits(v)' => \A i \in 1..Len(stream') : Untaken(i)' => Fits(v, stream[i].q)'
  BY <1>6 DEF Fits, FitsNext, Behind
<1> QED
  BY <1>1, <1>4, <1>5, <1>7 DEF Place

-----------------------------------------------------------------------------
\* A query that arrives is answered, if the backend is there.
LEMMA DeliverIsLonger ==
  ASSUME IInv, NEW q, Deliver(q)
  PROVE  stream' = stream \/ Len(stream') > Len(stream)
<1>1. stream \in Seq(Message)
  BY DEF IInv, TypeOK, Message
<1>2. ASSUME NEW s \in Replies, stream' = stream \o [i \in 1..Len(s) |-> [q |-> q, m |-> s[i]]]
      PROVE  Len(stream') > Len(stream)
  <2> DEFINE t == [i \in 1..Len(s) |-> [q |-> q, m |-> s[i]]]
  <2>1. s \in Seq(Kind) /\ Len(s) \in Nat /\ Len(s) > 0
    BY RepliesAssumption DEF WellEnded
  <2>2. t \in Seq([q : {q}, m : Kind]) /\ Len(t) = Len(s)
    BY <2>1
  <2> HIDE DEF t
  <2>3. Len(stream \o t) = Len(stream) + Len(t)
    BY <1>1, <2>2
  <2> QED
    BY <1>1, <1>2, <2>1, <2>2, <2>3 DEF t
<1> QED
  BY <1>2 DEF Deliver

\* Parsing and taking results reads nothing and sends nothing.
LEMMA ParseReads ==
  ASSUME OInv, NEW a, ParseInput(a), async' = a \/ async' = "busy",
         UNCHANGED <<stream, cur, nreq, req>>, out' > 0 => out > 0, sock' => sock
  PROVE  Reads
<1>1. /\ parsed \in Nat /\ read \in Nat /\ Len(stream) \in Nat
      /\ parsed <= read /\ read <= Len(stream)
  BY DEF OInv, IInv, TypeOK
<1>2. Grown(cur)
  BY SameIsGrown DEF OInv, Counted
<1>3. parsed' \in Nat /\ parsed <= parsed'
  BY ParseFacts DEF OInv
<1>4. async = "busy" /\ a \in {"ready", "copy"} => parsed' > parsed
  BY <1>1 DEF ParseInput
<1>5. async # "busy" => a = async /\ parsed' = parsed
  BY DEF ParseInput
<1>6. ASSUME NEW i \in 1..Len(stream), Untaken(i)' PROVE Untaken(i)
  BY <1>1, <1>3, <1>4, <1>5, <1>6 DEF Untaken
<1>7. NoneLeft => /\ parsed' = parsed /\ async' \notin {"ready", "copy"}
                  /\ sock' /\ async = "busy" => async' = "busy"
  <2> SUFFICES ASSUME NoneLeft PROVE parsed' = parsed /\ a \notin {"ready", "copy"}
                                     /\ (async = "busy" => a = "busy")
    OBVIOUS
  <2>1. parsed = read /\ async \notin {"ready", "copy"}
    BY <1>1 DEF NoneLeft
  <2>2. async = "busy" => a = "busy" /\ parsed' = read
    BY <2>1, NothingToParse DEF OInv
  <2> QED
    BY <1>5, <2>1, <2>2
<1> QED
  BY <1>2, <1>3, <1>6, <1>7 DEF Reads

\* Writing out the query that was accepted last, and reading.
LEMMA DeliveryReads ==
  ASSUME OInv, async' = async, parsed' = parsed \/ ParseInput("busy"),
         UNCHANGED <<cur, nreq, req>>, sock' => sock, out' > 0 => out > 0,
         stream' = stream \/ (out > 0 /\ out' = 0 /\ sock /\ Deliver(cur))
  PROVE  Reads
<1>1. /\ parsed \in Nat /\ read \in Nat /\ Len(stream) \in Nat
      /\ parsed <= read /\ read <= Len(stream) /\ cur \in 0..MaxRequests
  BY DEF OInv, IInv, TypeOK
<1>2. Grown(cur)
  BY <1>1, SameIsGrown, DeliverGrows DEF OInv, Counted
<1>3. stream' = stream \/ (Len(stream') > Len(stream) /\ out > 0 /\ out' = 0 /\ sock)
  BY DeliverIsLonger DEF OInv
<1>4. parsed' \in Nat /\ parsed <= parsed' /\ (parsed' # parsed => parsed' = read)
  BY <1>1 DEF ParseInput
<1>5. ASSUME NEW i \in 1..Len(stream), Untaken(i)' PROVE Untaken(i)
  BY <1>1, <1>4, <1>5, BusyParses DEF Untaken
<1>6. NoneLeft => parsed' = parsed
  BY <1>1, <1>4 DEF NoneLeft
<1> QED
  BY <1>2, <1>3, <1>4, <1>5, <1>6 DEF Reads, NoneLeft

-----------------------------------------------------------------------------
(* What a step makes of the worker that takes it: the rows in its body and *)
(* the result in its hand fit before the step, hence after it.             *)
Writes(w) ==
  /\ pc[w] # "idle"
  /\ \A v \in Workers \ {w} : pc'[v] = pc[v] /\ rep'[v] = rep[v] /\ res'[v] = res[v]
  /\ pc'[w] = "send" => pc[w] = "send"
  /\ Waits(w)' => Waits(w)
  /\ \A q \in RowQs(rep'[w]) : Fits(w, q)
  /\ pc'[w] = "check" /\ res'[w].m = "row" => Fits(w, res'[w].q)

LEMMA HoldsNext ==
  ASSUME NEW v \in Workers,
         \A q \in RowQs(rep'[v]) : FitsNext(v, q),
         pc'[v] = "check" /\ res'[v].m = "row" => FitsNext(v, res'[v].q)
  PROVE  Holds(v)'
  BY DEF Holds, Fits, FitsNext, Behind, RowQs, Items

LEMMA StepKeeps ==
  ASSUME OInv, IInv', Reads, NEW w \in Workers, Writes(w)
  PROVE  OInv'
<1>1. Counted'
  <2>1. \A v \in Workers : pc'[v] # "idle" => pc[v] # "idle"
    BY DEF Writes
  <2> QED
    BY <2>1, ReadsCount
<1>2. ASSUME NEW v \in Workers PROVE Place(v)' /\ Holds(v)'
  <2>1. (pc'[v] = "send" => pc[v] = "send") /\ (Waits(v)' => Waits(v))
    BY DEF Writes, Waits
  <2>2. Place(v)'
    BY <2>1, ReadsPlace
  <2>3. /\ \A q \in RowQs(rep'[v]) : Fits(v, q)
        /\ pc'[v] = "check" /\ res'[v].m = "row" => Fits(v, res'[v].q)
    <3>1. CASE v = w
      BY <3>1 DEF Writes
    <3>2. CASE v # w
      BY <3>2 DEF Writes, OInv, Holds
    <3> QED
      BY <3>1, <3>2
  <2>4. /\ \A q \in RowQs(rep'[v]) : FitsNext(v, q)
        /\ pc'[v] = "check" /\ res'[v].m = "row" => FitsNext(v, res'[v].q)
    BY <2>3, ReadsFit
  <2> QED
    BY <2>2, <2>4, HoldsNext
<1> QED
  BY <1>1, <1>2 DEF OInv

\* The backend, and nobody.
LEMMA OthersKeep ==
  ASSUME OInv, IInv', BackendEmit \/ BackendLost \/ UNCHANGED vars
  PROVE  OInv'
<1>1. /\ UNCHANGED <<async, sock, out, cur, parsed, stream, nreq, pc, req, res, rep>>
  BY DEF BackendEmit, BackendLost, vars, libpq, backend, local
<1>2. Reads
  BY <1>1, DeliveryReads
<1>3. Counted'
  BY <1>1, <1>2, ReadsCount
<1>4. ASSUME NEW v \in Workers PROVE Place(v)' /\ Holds(v)'
  <2>1. Place(v)'
    BY <1>1, <1>2, ReadsPlace DEF Waits
  <2>2. /\ \A q \in RowQs(rep'[v]) : FitsNext(v, q)
        /\ pc'[v] = "check" /\ res'[v].m = "row" => FitsNext(v, res'[v].q)
    BY <1>1, <1>2, ReadsFit DEF OInv, Holds
  <2> QED
    BY <2>1, <2>2, HoldsNext
<1> QED
  BY <1>3, <1>4 DEF OInv

\* Control moves on with the body as it is, or the request fails.
LEMMA MoveWrites ==
  ASSUME OInv, NEW w \in Workers, pc[w] # "idle", res' = res,
         \/ \E c \in Codes : Fail(w, c)
         \/ \E l \in PcValues : /\ Goto(w, l)
                                /\ l = "send" => pc[w] = "send"
                                /\ l = "check" => pc[w] = "check"
                                /\ l # "idle" /\ l # "send" => Waits(w)
  PROVE  Writes(w)
<1>1. /\ pc \in [Workers -> PcValues] /\ rep \in [Workers -> Seq(Tokens)]
      /\ rep[w] \in Seq(Tokens)
  BY DEF OInv, IInv, TypeOK
<1>2. Holds(w)
  BY DEF OInv
<1>3. CASE \E c \in Codes : Fail(w, c)
  <2>1. /\ pc'[w] = "idle" /\ rep'[w] = Append(rep[w], Punct("error"))
        /\ \A v \in Workers \ {w} : pc'[v] = pc[v] /\ rep'[v] = rep[v]
    BY <1>1, <1>3 DEF Fail, Answer
  <2>2. RowQs(rep'[w]) = RowQs(rep[w])
    BY <1>1, <2>1, PunctRowQs
  <2> QED
    BY <1>2, <2>1, <2>2 DEF Writes, Holds, Waits
<1>4. ASSUME NEW l \in PcValues, Goto(w, l),
             l = "send" => pc[w] = "send", l = "check" => pc[w] = "check",
             l # "idle" /\ l # "send" => Waits(w)
      PROVE  Writes(w)
  <2>1. /\ pc'[w] = l /\ rep' = rep
        /\ \A v \in Workers \ {w} : pc'[v] = pc[v]
    BY <1>1, <1>4 DEF Goto
  <2> QED
    BY <1>2, <1>4, <2>1 DEF Writes, Holds, Waits
<1> QED
  BY <1>3, <1>4

-----------------------------------------------------------------------------
(* The steps.                                                              *)
LEMMA SendKeeps ==
  ASSUME OInv, IInv', NEW w \in Workers, SendBusy(w) \/ SendRefused(w)
  PROVE  OInv'
<1>1. Reads
  BY ParseReads DEF SendBusy, SendRefused, backend
<1>2. Writes(w)
  <2>1. pc[w] = "send" /\ res' = res /\ (Goto(w, "send") \/ Fail(w, 500))
    BY DEF SendBusy, SendRefused
  <2> QED
    BY <2>1, MoveWrites DEF PcValues, Codes
<1> QED
  BY <1>1, <1>2, StepKeeps

LEMMA FlushKeeps ==
  ASSUME OInv, IInv', NEW w \in Workers, Flush(w) \/ Written(w)
  PROVE  OInv'
<1>1. Reads
  <2>0. out \in Nat
    BY DEF OInv, IInv, TypeOK
  <2>1. CASE Written(w)
    BY <2>1, DeliveryReads DEF Written, libpq, backend
  <2>2. CASE Flush(w)
    <3>1. /\ async' = async /\ parsed' = parsed /\ UNCHANGED <<cur, nreq, req>>
          /\ \/ UNCHANGED <<sock, out, stream>>
             \/ sock /\ Push /\ UNCHANGED sock
             \/ sock' = FALSE /\ out' = 0 /\ UNCHANGED stream
      BY <2>2 DEF Flush
    <3>2. (sock' => sock) /\ (out' > 0 => out > 0)
          /\ (stream' = stream \/ (out > 0 /\ out' = 0 /\ sock /\ Deliver(cur)))
      BY <2>0, <3>1 DEF Push
    <3> QED
      BY <3>1, <3>2, DeliveryReads
  <2> QED
    BY <2>1, <2>2
<1>2. Writes(w)
  <2>1. pc[w] = "flush" /\ res' = res
        /\ (Goto(w, "flush") \/ Goto(w, "await") \/ Fail(w, 500) \/ Fail(w, 429))
    BY DEF Flush, Written
  <2> QED
    BY <2>1, MoveWrites DEF PcValues, Codes, Waits
<1> QED
  BY <1>1, <1>2, StepKeeps

LEMMA WaitKeeps ==
  ASSUME OInv, IInv', NEW w \in Workers, AwaitReply(w) \/ CheckWait(w)
  PROVE  OInv'
<1>1. Reads
  <2>0. out \in Nat
    BY DEF OInv, IInv, TypeOK
  <2>1. /\ async' = async /\ (parsed' = parsed \/ ParseInput("busy"))
        /\ UNCHANGED <<cur, nreq, req>>
        /\ ConsumeInput \/ UNCHANGED <<out, sock, stream>>
    BY DEF AwaitReply, CheckWait
  <2>2. ConsumeInput => sock /\ (out' > 0 => out > 0)
          /\ (stream' = stream \/ (out > 0 /\ out' = 0 /\ Deliver(cur)))
    BY <2>0 DEF ConsumeInput, Readable, Push
  <2> QED
    BY <2>1, <2>2, DeliveryReads
<1>2. Writes(w)
  <2>1. /\ pc[w] \in {"await", "check"} /\ res' = res
        /\ \/ pc[w] = "await" /\ Goto(w, "get")
           \/ pc[w] = "check" /\ Goto(w, "check")
           \/ Fail(w, 500)
    BY DEF AwaitReply, CheckWait
  <2> QED
    BY <2>1, MoveWrites DEF PcValues, Codes, Waits
<1> QED
  BY <1>1, <1>2, StepKeeps

LEMMA GetBlocksKeeps ==
  ASSUME OInv, IInv', NEW w \in Workers, GetBlocks(w)
  PROVE  OInv'
<1>1. Reads
  <2>1. /\ async' = async /\ ParseInput("busy") /\ UNCHANGED <<cur, nreq, req, sock>>
        /\ \/ out > 0 /\ out' = 0 /\ sock /\ Deliver(cur)
           \/ out = 0 /\ UNCHANGED <<out, stream>>
    BY DEF GetBlocks, local, Broken
  <2>2. out' > 0 => out > 0
    BY <2>1
  <2> QED
    BY <2>1, <2>2, DeliveryReads
<1>2. Writes(w)
  <2>1. pc[w] \in {"get", "after"} /\ UNCHANGED <<pc, rep, res>>
    BY DEF GetBlocks, local
  <2> QED
    BY <2>1 DEF Writes, OInv, Holds, Waits
<1> QED
  BY <1>1, <1>2, StepKeeps

LEMMA CursorFacts ==
  ASSUME OInv
  PROVE  /\ parsed \in Nat /\ read \in Nat /\ Len(stream) \in Nat
         /\ parsed <= read /\ read <= Len(stream)
<1>1. TypeOK
  BY DEF OInv, IInv
<1> QED
  BY <1>1 DEF TypeOK

LEMMA GetBrokenKeeps ==
  ASSUME OInv, IInv', NEW w \in Workers, GetBroken(w)
  PROVE  OInv'
<1>1. Reads
  <2>1. /\ UNCHANGED <<stream, cur, nreq, req>> /\ async' = "idle" /\ sock' = FALSE /\ out' = 0
        /\ ParseInput("busy") \/ ParseInput("copy")
    BY DEF GetBroken, backend
  <2>2. /\ parsed \in Nat /\ Len(stream) \in Nat /\ parsed' \in Nat /\ parsed <= parsed'
        /\ read \in Nat /\ parsed <= read /\ read <= Len(stream)
    <3>1. parsed' \in Nat /\ parsed <= parsed'
      BY <2>1, ParseFacts DEF OInv
    <3> QED
      BY <3>1, CursorFacts
  <2>3. Grown(cur)
    BY <2>1, SameIsGrown DEF OInv, Counted
  <2>4. ASSUME NEW i \in 1..Len(stream), Untaken(i)' PROVE Untaken(i)
    BY <2>1, <2>2, <2>4 DEF Untaken
  <2>5. NoneLeft => parsed' = parsed
    <3> SUFFICES ASSUME NoneLeft PROVE parsed' = parsed
      OBVIOUS
    <3>1. parsed = read /\ async # "copy"
      BY <2>2 DEF NoneLeft
    <3>2. CASE async = "busy"
      BY <2>1, <3>1, <3>2, NothingToParse DEF OInv
    <3>3. CASE async # "busy"
      BY <2>1, <3>3, NotBusyKeeps
    <3> QED
      BY <3>2, <3>3
  <2> QED
    BY <2>1, <2>2, <2>3, <2>4, <2>5 DEF Reads
<1>2. Writes(w)
  <2>1. /\ pc[w] \in {"get", "after"} /\ pc'[w] = "check" /\ rep' = rep
        /\ \A v \in Workers \ {w} : pc'[v] = pc[v] /\ res'[v] = res[v]
        /\ res'[w].m = "error"
    BY DEF GetBroken, Goto, OInv, IInv, TypeOK
  <2> QED
    BY <2>1 DEF Writes, OInv, Holds, Waits
<1> QED
  BY <1>1, <1>2, StepKeeps

LEMMA GetResultKeeps ==
  ASSUME OInv, IInv', NEW w \in Workers, GetResult(w)
  PROVE  OInv'
<1>1. Reads
  BY ParseReads DEF GetResult, backend
<1>2. Writes(w)
  <2>1. /\ pc[w] \in {"get", "after"} /\ pc'[w] = "check" /\ rep' = rep
        /\ \A v \in Workers \ {w} : pc'[v] = pc[v] /\ res'[v] = res[v]
        /\ res'[w] = stream[parsed']
        /\ ParseInput("ready") \/ ParseInput("copy")
    BY DEF GetResult, Goto, OInv, IInv, TypeOK
  <2>2. /\ parsed \in Nat /\ parsed' \in Nat /\ parsed <= parsed' /\ parsed' > 0
        /\ parsed' <= read /\ read \in Nat /\ read <= Len(stream) /\ Len(stream) \in Nat
    <3>1. parsed' \in Nat /\ parsed <= parsed' /\ parsed' > 0 /\ parsed' <= read
      BY <2>1, ParseFacts DEF OInv
    <3> QED
      BY <3>1, CursorFacts
  <2>3. Untaken(parsed')
    <3>1. CASE async = "busy"
      <4>1. parsed' > parsed
        BY <2>1, <2>2, <3>1 DEF ParseInput
      <4> QED
        BY <4>1 DEF Untaken
    <3>2. CASE async # "busy"
      <4>1. parsed' = parsed /\ async \in {"ready", "copy"}
        BY <2>1, <3>2, NotBusyKeeps
      <4> QED
        BY <4>1 DEF Untaken
    <3> QED
      BY <3>1, <3>2
  <2>4. parsed' \in 1..Len(stream)
    BY <2>2
  <2>5. Waits(w) /\ Place(w)
    BY <2>1 DEF Waits, OInv
  <2>6. Fits(w, stream[parsed'].q)
    BY <2>3, <2>4, <2>5 DEF Place
  <2> QED
    BY <2>1, <2>5, <2>6 DEF Writes, OInv, Holds
<1> QED
  BY <1>1, <1>2, StepKeeps

LEMMA GetNullKeeps ==
  ASSUME OInv, IInv', NEW w \in Workers, GetNull(w)
  PROVE  OInv'
<1>1. Reads
  BY ParseReads DEF GetNull, backend
<1>2. Writes(w)
  <2>1. /\ pc[w] \in {"get", "after"} /\ pc'[w] = "idle" /\ rep[w] \in Seq(Tokens) /\ res' = res
        /\ \A v \in Workers \ {w} : pc'[v] = pc[v] /\ rep'[v] = rep[v]
        /\ rep'[w] = Closing(rep[w]) \/ rep'[w] = Append(<<>>, Punct("error"))
    BY DEF GetNull, Answer, OInv, IInv, TypeOK
  <2>2. RowQs(Closing(rep[w])) = RowQs(rep[w])
    BY <2>1, PunctRowQs DEF Closing
  <2>3. RowQs(Append(<<>>, Punct("error"))) = {}
    <3>1. <<>> \in Seq(Tokens)
      OBVIOUS
    <3> QED
      BY <3>1, NoRowQs, PunctRowQs
  <2> QED
    BY <2>1, <2>2, <2>3 DEF Writes, OInv, Holds, Waits
<1> QED
  BY <1>1, <1>2, StepKeeps

LEMMA CheckResultKeeps ==
  ASSUME OInv, IInv', NEW w \in Workers, CheckResult(w)
  PROVE  OInv'
<1>1. Reads
  <2>1. PICK a \in AsyncValues : ParseInput(a) /\ async' = a
    BY DEF CheckResult
  <2> QED
    BY <2>1, ParseReads DEF CheckResult, backend
<1>2. Writes(w)
  <2>1. /\ pc[w] = "check" /\ pc'[w] \in {"get", "after"} /\ res' = res
        /\ rep[w] \in Seq(Tokens) /\ res[w].q \in 0..MaxRequests
        /\ \A v \in Workers \ {w} : pc'[v] = pc[v] /\ rep'[v] = rep[v]
        /\ \/ rep'[w] = rep[w]
           \/ res[w].m = "row" /\ rep'[w] = WithRow(rep[w], res[w].q)
           \/ rep'[w] = WithEnd(rep[w], single[w])
    BY DEF CheckResult, Goto, OInv, IInv, TypeOK
  <2>2. \A q \in RowQs(rep'[w]) : Fits(w, q)
    <3>1. CASE res[w].m = "row" /\ rep'[w] = WithRow(rep[w], res[w].q)
      <4>1. RowQs(rep'[w]) \subseteq RowQs(rep[w]) \cup {res[w].q}
        BY <2>1, <3>1, RowRowQs
      <4>2. Holds(w)
        BY DEF OInv
      <4> QED
        BY <2>1, <3>1, <4>1, <4>2 DEF Holds
    <3>2. CASE rep'[w] = WithEnd(rep[w], single[w])
      <4>1. RowQs(rep'[w]) \subseteq RowQs(rep[w])
        BY <2>1, <3>2, EndRowQs
      <4> QED
        BY <4>1 DEF OInv, Holds
    <3>3. CASE rep'[w] = rep[w]
      BY <3>3 DEF OInv, Holds
    <3> QED
      BY <2>1, <3>1, <3>2, <3>3
  <2> QED
    BY <2>1, <2>2 DEF Writes, Waits
<1> QED
  BY <1>1, <1>2, StepKeeps

LEMMA BeginKeeps ==
  ASSUME OInv, IInv', NEW w \in Workers, Begin(w)
  PROVE  OInv'
<1>1. /\ UNCHANGED <<async, sock, out, cur, parsed, stream, res>> /\ nreq' = nreq + 1
      /\ pc'[w] = "send" /\ req'[w] = nreq + 1 /\ rep'[w] = <<>> /\ nreq \in Nat
      /\ \A v \in Workers \ {w} : pc'[v] = pc[v] /\ rep'[v] = rep[v] /\ req'[v] = req[v]
      /\ \A v \in Workers : req[v] \in Nat
      /\ cur \in Nat
  BY DEF Begin, OInv, IInv, TypeOK, libpq, backend
<1>2. \A i \in 1..Len(stream) : stream[i].q \in Nat /\ stream[i].q <= nreq
  <2>1. stream \in Seq(Message)
    BY DEF OInv, IInv, TypeOK, Message
  <2>2. \A i \in 1..Len(stream) : stream[i] \in Message
    BY <2>1
  <2> QED
    BY <2>2 DEF Message, OInv, Counted
<1>3. Counted'
  <2>1. /\ ErrorsEnd /\ cur <= nreq /\ UnsentIsNew
        /\ \A v \in Workers : req[v] <= nreq /\ (pc[v] # "idle" => req[v] > 0)
        /\ \A u, v \in Workers : req[u] = req[v] /\ req[u] > 0 => u = v
    BY DEF OInv, Counted
  <2>2. ErrorsEnd' /\ UnsentIsNew'
    BY <1>1, <2>1 DEF ErrorsEnd, UnsentIsNew
  <2>3. cur' <= nreq' /\ \A i \in 1..Len(stream') : stream'[i].q <= nreq'
    BY <1>1, <1>2, <2>1
  <2>4. \A v \in Workers : req'[v] <= nreq' /\ (pc'[v] # "idle" => req'[v] > 0)
    BY <1>1, <2>1
  <2>5. \A u, v \in Workers : req'[u] = req'[v] /\ req'[u] > 0 => u = v
    BY <1>1, <2>1
  <2> QED
    BY <2>2, <2>3, <2>4, <2>5 DEF Counted
<1>4. Place(w)' /\ Holds(w)'
  <2>1. cur' # req'[w] /\ Own(w)' = {}
    BY <1>1, <1>2 DEF Own, OInv, Counted
  <2> QED
    BY <1>1, <2>1, NoRowQs DEF Place, Holds, Waits
<1>5. ASSUME NEW v \in Workers, v # w PROVE Place(v)' /\ Holds(v)'
  <2>1. pc'[v] = pc[v] /\ rep'[v] = rep[v] /\ req'[v] = req[v] /\ res'[v] = res[v]
    BY <1>1, <1>5
  <2>2. Own(v)' = Own(v) /\ \A q : FitsNext(v, q) <=> Fits(v, q)
    BY <1>1, <2>1 DEF Own, Fits, FitsNext, Behind
  <2>3. Holds(v)'
    BY <2>1, <2>2, HoldsNext DEF OInv, Holds
  <2>4. /\ pc'[v] = "send" => cur' # req'[v] /\ Own(v)' = {}
        /\ Waits(v)' /\ Own(v)' = {} =>
             NoneLeft' /\ (sock' => cur' = req'[v] /\ async' = "busy")
    BY <1>1, <2>1, <2>2 DEF OInv, Place, Waits, NoneLeft
  <2>5. Waits(v)' => \A i \in 1..Len(stream') : Untaken(i)' => FitsNext(v, stream'[i].q)
    BY <1>1, <2>1, <2>2 DEF OInv, Place, Waits, Untaken
  <2>6. Waits(v)' => \A i \in 1..Len(stream') : Untaken(i)' => Fits(v, stream[i].q)'
    BY <2>5 DEF Fits, FitsNext, Behind
  <2> QED
    BY <2>3, <2>4, <2>6 DEF Place
<1> QED
  BY <1>3, <1>4, <1>5 DEF OInv

LEMMA SendQueryKeeps ==
  ASSUME OInv, IInv', NEW w \in Workers, SendQuery(w)
  PROVE  OInv'
<1>1. /\ pc[w] = "send" /\ sock /\ ParseInput("idle") /\ async' = "busy" /\ cur' = req[w]
      /\ (Deliver(req[w]) /\ out' = 0) \/ stream' = stream
      /\ UNCHANGED <<sock, nreq, req, res, rep>>
      /\ pc'[w] = "flush" /\ \A v \in Workers \ {w} : pc'[v] = pc[v]
  BY DEF SendQuery, Goto, OInv, IInv, TypeOK
<1>2. /\ req[w] \in 0..MaxRequests /\ req[w] \in Nat /\ nreq \in Nat /\ req[w] <= nreq
      /\ req[w] > 0 /\ Len(stream) \in Nat /\ parsed \in Nat /\ out' \in Nat
  BY <1>1 DEF OInv, IInv, TypeOK, Counted
<1>3. Grown(req[w]) /\ Len(stream') \in Nat
  <2>1. Grown(req[w])
    BY <1>1, <1>2, DeliverGrows, SameIsGrown DEF OInv, Counted
  <2> QED
    BY <2>1 DEF Grown
<1>4. parsed' = Len(stream)
  BY <1>1, ParseFacts DEF OInv
<1>5. Own(w) = {} /\ \A i \in 1..Len(stream) : stream[i].q # req[w]
  BY <1>1 DEF OInv, Place, Own
<1>6. stream' = stream \/ out' = 0
  BY <1>1
<1>7. Counted'
  <2>1. ErrorsEnd'
    BY <1>3 DEF Grown
  <2>2. \A i \in 1..Len(stream') : stream'[i].q <= nreq
    <3>1. \A i \in 1..Len(stream) : stream[i].q <= nreq
      BY DEF OInv, Counted
    <3> QED
      BY <1>2, <1>3, <3>1 DEF Grown
  <2>3. UnsentIsNew'
    <3> SUFFICES ASSUME out' > 0 PROVE \A i \in 1..Len(stream') : stream'[i].q # cur'
      BY DEF UnsentIsNew
    <3>1. stream' = stream
      BY <1>2, <1>6
    <3> QED
      BY <1>1, <1>5, <3>1
  <2>4. \A v \in Workers : req[v] <= nreq /\ (pc'[v] # "idle" => req[v] > 0)
    BY <1>1, <1>2 DEF OInv, Counted
  <2> QED
    BY <1>1, <1>2, <2>1, <2>2, <2>3, <2>4 DEF OInv, Counted
<1>8. \A i \in 1..Len(stream') : Untaken(i)' => i > Len(stream) /\ stream'[i].q = req[w]
  <2>1. \A i \in 1..Len(stream') : Untaken(i)' => i > Len(stream)
    BY <1>1, <1>4 DEF Untaken
  <2> QED
    BY <1>3, <2>1 DEF Grown
<1>9. ASSUME NEW v \in Workers, NEW q, Fits(v, q) PROVE FitsNext(v, q)
  <2>1. req'[v] = req[v] /\ IInv
    BY <1>1 DEF OInv
  <2>2. req[w] # req[v] \/ Own(v) = {}
    BY <1>2, <1>5 DEF OInv, Counted
  <2> QED
    BY <1>3, <1>9, <2>1, <2>2, FitsStay
<1>10. ASSUME NEW v \in Workers PROVE Place(v)' /\ Holds(v)'
  <2>1. Holds(v)'
    <3>1. \A q \in RowQs(rep'[v]) : FitsNext(v, q)
      BY <1>1, <1>9 DEF OInv, Holds
    <3>2. pc'[v] = "check" /\ res'[v].m = "row" => FitsNext(v, res'[v].q)
      BY <1>1, <1>9 DEF OInv, Holds
    <3> QED
      BY <3>1, <3>2, HoldsNext
  <2>2. CASE v = w
    <3>1. Own(w)' = {} => stream' = stream
      <4> SUFFICES ASSUME stream' # stream PROVE Own(w)' # {}
        OBVIOUS
      <4>1. Len(stream') > Len(stream)
        BY <1>1, DeliverIsLonger DEF OInv
      <4>2. Len(stream') \in 1..Len(stream') /\ stream'[Len(stream')].q = req[w]
        BY <1>2, <1>3, <4>1 DEF Grown
      <4> QED
        BY <1>1, <4>2 DEF Own
    <3>2. \A i \in 1..Len(stream') : Untaken(i)' => Fits(w, stream[i].q)'
      BY <1>1, <1>8 DEF Fits
    <3>3. Own(w)' = {} => NoneLeft' /\ (sock' => cur' = req'[w] /\ async' = "busy")
      BY <1>1, <1>4, <3>1 DEF NoneLeft
    <3> QED
      BY <1>1, <2>1, <2>2, <3>2, <3>3 DEF Place
  <2>3. CASE v # w
    <3>1. pc'[v] = pc[v] /\ req[v] # req[w]
      BY <1>1, <1>2, <2>3 DEF OInv, Counted
    <3>2. Own(v)' = Own(v)
      <4>1. ASSUME NEW i \in 1..Len(stream') PROVE stream'[i].q = req[v] <=> i \in Own(v)
        <5>1. CASE i > Len(stream)
          BY <1>3, <3>1, <5>1 DEF Grown, Own
        <5>2. CASE i \in 1..Len(stream)
          BY <1>3, <5>2 DEF Grown, Own
        <5> QED
          BY <1>2, <1>3, <5>1, <5>2
      <4>2. Own(v) \subseteq 1..Len(stream')
        BY <1>2, <1>3 DEF Grown, Own
      <4> QED
        BY <1>1, <4>1, <4>2 DEF Own
    <3>3. pc'[v] = "send" => cur' # req'[v] /\ Own(v)' = {}
      BY <1>1, <3>1, <3>2 DEF OInv, Place
    <3>4. Waits(v)' => Own(v) # {}
      <4> SUFFICES ASSUME Waits(v), Own(v) = {} PROVE FALSE
        BY <3>1 DEF Waits
      <4>1. NoneLeft /\ async = "busy"
        BY <1>1 DEF OInv, Place
      <4>2. parsed = read
        BY <4>1 DEF NoneLeft, OInv, IInv, TypeOK
      <4> QED
        BY <1>1, <4>1, <4>2, NothingToParse DEF OInv
    <3>5. ASSUME Waits(v)', NEW i \in 1..Len(stream'), Untaken(i)' PROVE Fits(v, stream[i].q)'
      <4>1. i > Len(stream) /\ stream'[i].q = req[w]
        BY <1>8, <3>5
      <4>2. Behind(v, req[w])
        BY <1>5, <3>4, <3>5 DEF Behind
      <4>3. FitsNext(v, req[w])
        BY <1>9, <4>2 DEF Fits
      <4> QED
        BY <4>1, <4>3 DEF Fits, FitsNext, Behind
    <3> QED
      BY <2>1, <3>2, <3>3, <3>4, <3>5 DEF Place
  <2> QED
    BY <2>2, <2>3
<1> QED
  BY <1>7, <1>10 DEF OInv

(* However many threads share a session, a body holds no row of a query    *)
(* answered before its own: a row of another query stands behind the       *)
(* answer to the body's own (db.c:93-99, 144).                             *)
THEOREM NoRowsAreOlder == Spec => []NoOlderRows
<1>1. Init => OInv
  <2> SUFFICES ASSUME Init PROVE OInv
    OBVIOUS
  <2>1. IInv
    BY InitInv
  <2>2. Counted
    BY DEF Init, Counted, ErrorsEnd, UnsentIsNew
  <2>3. ASSUME NEW w \in Workers PROVE Place(w) /\ Holds(w)
    BY NoRowQs DEF Init, Place, Holds, Waits
  <2> QED
    BY <2>1, <2>2, <2>3 DEF OInv
<1>2. OInv /\ [Next]_vars => OInv'
  <2> SUFFICES ASSUME OInv, [Next]_vars PROVE OInv'
    OBVIOUS
  <2>1. IInv'
    BY StepInv DEF OInv
  <2>2. ASSUME NEW w \in Workers, Begin(w) \/ Step(w) PROVE OInv'
    BY <2>1, <2>2, BeginKeeps, SendKeeps, SendQueryKeeps, FlushKeeps, WaitKeeps,
       GetBlocksKeeps, GetBrokenKeeps, GetResultKeeps, GetNullKeeps, CheckResultKeeps DEF Step
  <2>3. CASE BackendEmit \/ BackendLost \/ UNCHANGED vars
    BY <2>1, <2>3, OthersKeep
  <2> QED
    BY <2>2, <2>3 DEF Next, Finished
<1>3. OInv => NoOlderRows
  <2> SUFFICES ASSUME OInv, NEW w \in Workers, NEW i \in Items(rep[w]),
                      rep[w][i].q # req[w]
               PROVE  Behind(w, rep[w][i].q)
    BY DEF NoOlderRows, Behind
  <2>1. rep[w][i].q \in RowQs(rep[w])
    BY DEF RowQs
  <2> QED
    BY <2>1 DEF OInv, Holds, Fits
<1> QED
  BY <1>1, <1>2, <1>3, PTL DEF Spec
=============================================================================
