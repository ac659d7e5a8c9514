---------------------------- MODULE MCDbExchange ----------------------------
(* Model-checking instances of DbExchange.                                 *)
EXTENDS DbExchange

\* Every kind of answer to a single statement, two statements without rows,
\* and rows without columns in front of another statement.
MCReplies ==
  {<<"part", "row", "done", "ready">>, <<"row", "row", "done", "ready">>,
   <<"part", "done", "ready">>, <<"empty", "done", "command", "ready">>,
   <<"command", "command", "ready">>,
   <<"error", "ready">>, <<"row", "part", "error", "ready">>, <<"copy", "ready">>}

\* Fewer, for the runs with two workers.
FewReplies == {<<"row", "done", "ready">>, <<"part", "error", "ready">>}

\* What BodyIsFramed expects of the answers.
ASSUME OneSetAssumption == OneSetOfRows
=============================================================================
