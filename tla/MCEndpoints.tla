---------------------------- MODULE MCEndpoints -----------------------------
(* Model-checking instances of Endpoints.                                  *)
EXTENDS Endpoints, TLC

\* For the runs that ask about parameters only.
NoTypes == {"absent"}
=============================================================================
