------------------------------ MODULE Requests ------------------------------
(* The requests in progress at the same time.  Each has a database session *)
(* of its own: it reads rows, computes, and commits what it computed; the  *)
(* other requests run between its read and its commit.                     *)
CONSTANT Slots

\* A slot with no request in it.
Idle == [pc |-> "idle"]
=============================================================================
