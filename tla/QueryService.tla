---------------------------- MODULE QueryService ----------------------------
(***************************************************************************)
(* What one session promises the requests that use it one at a time, with  *)
(* the protocol of db_send and db_response abstracted away: a query is     *)
(* answered completely, rejected by the database, or it fails; and once it *)
(* has failed, the session can only fail.                                  *)
(***************************************************************************)
VARIABLES serving,   \* a request is in hand
          conn,      \* "clean", or "stuck": never to serve a query again
          answer     \* how the last request ended

Init == serving = FALSE /\ conn = "clean" /\ answer = "none"

Accept == ~serving /\ serving' = TRUE /\ answer' = "none" /\ UNCHANGED conn

\* The whole answer is returned; the connection is ready for another query.
Complete ==
  /\ serving /\ conn = "clean"
  /\ serving' = FALSE /\ answer' = "complete" /\ UNCHANGED conn

\* The database answers with an error, or is found to be gone.
Reject ==
  /\ serving /\ conn = "clean"
  /\ serving' = FALSE /\ answer' = "rejected" /\ conn' \in {"clean", "stuck"}

\* No answer is obtained.
Fail ==
  /\ serving
  /\ serving' = FALSE /\ answer' = "failed" /\ conn' = "stuck"

Next == Accept \/ Complete \/ Reject \/ Fail

Spec == Init /\ [][Next]_<<serving, conn, answer>>
=============================================================================
